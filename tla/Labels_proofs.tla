----------------------------- MODULE Labels_proofs -----------------------------
(***************************************************************************)
(* Theorems about labels: save_point is given the label the point carries, *)
(* and the names in a document differ.                                     *)
(***************************************************************************)
EXTENDS RoofClient_proofs

(***************************************************************************)
(* Labels through a region.  The point in progress carries the label that  *)
(* its end will be given, so that save_point has nothing to warn of before *)
(* the thread exits.                                                       *)
(***************************************************************************)
\* What get_label_and_assign_id asserts, for a build that does not check it.
SeparateCallsAreTraced ==
  \A o \in Options : o.calls_as_separate_roi => DebugBuild \/ o.trace_f # <<>>

Untraced == opt.trace_f = <<>>
Carried ==
  /\ td[Main].warned => phase[Main] = "exited" /\ Merged(opt) /\ ~new_point_only_once
  /\ Untraced /\ opt.calls_as_separate_roi => OpenRegions = 0
  /\ phase[Main] # "exited" =>
       /\ Untraced /\ OpenRegions > 0 => CurrentLabel = GetLabel(opt.roi_start, Head(open))
       /\ Merged(opt) /\ new_point_only_once => CurrentLabel = opt.trace_f

\* Outside the callbacks nothing touches them.
LEMMA ElsewhereCarries == Carried /\ Elsewhere => Carried'
BY DEF Carried, Elsewhere, SameLabels, Untraced, Merged, CurrentLabel, GetLabel

\* What a start callback makes of Main's data.
LEMMA StartLabel ==
  ASSUME TypeOK, NEW d \in ThreadDataType, RoiInit(d)
  PROVE  SameLabels(td[Main]', d) /\ UNCHANGED <<opt, phase, open>> /\ at' = "app"
<1>1. td[Main]' = BlockRest(StartTime(d), block)
  BY ConstantTypes DEF RoiInit, TypeOK
<1>2. StartTime(d) \in ThreadDataType
  <2>1. <<>> \in Text /\ now \in Nat
    BY DEF Text, TypeOK
  <2> QED
    BY <2>1, PointOpType DEF StartTime
<1>3. SameLabels(td[Main]', d)
  BY <1>1, <1>2, InsertedCodeKeepsLabels DEF SameLabels
<1> QED
  BY <1>3 DEF RoiInit, Resume

\* A new point has the label it is given, and no warning comes with it.
LEMMA NewPointLabel ==
  ASSUME NEW d \in ThreadDataType, NEW label \in Text
  PROVE  /\ NewPoint(d, label) \in ThreadDataType
         /\ NewPoint(d, label).cur_point.label = label
         /\ NewPoint(d, label).warned = d.warned
BY ResetType, PointOpType DEF NewPoint, ThreadDataType, Point

\* event_roi_init.
LEMMA CarriedStart ==
  ASSUME SeparateCallsAreTraced, TypeOK, InCallbackOpen, Unnested, Carried,
         RoiInitMerged \/ RoiInitSeparate \/ RoiInitDelimiter
  PROVE  Carried'
<1>0. td[Main] \in ThreadDataType /\ opt \in Options /\ opt \in Option
  BY ConstantTypes DEF TypeOK
<1>1. phase[Main] = "running" /\ ~td[Main].warned
  BY DEF RoiInitMerged, RoiInitSeparate, RoiInitDelimiter, InCallback, Carried
<1>2. Head(open) \in Text /\ opt.trace_f \in Text /\ opt.roi_start \in Text
  <2>1. at # "app"
    BY DEF RoiInitMerged, RoiInitSeparate, RoiInitDelimiter, InCallback
  <2> QED
    BY <2>1, LabelType DEF InCallbackOpen
<1>3. CASE RoiInitMerged
  <2> DEFINE d == IF new_point_only_once THEN td[Main]
                  ELSE NewPoint(td[Main], GetLabel(opt.trace_f, Head(open)))
  <2>1. opt.trace_f # <<>> /\ ~opt.calls_as_separate_roi /\ RoiInit(d) /\ new_point_only_once'
    BY <1>3 DEF RoiInitMerged, Merged
  <2>2. d \in ThreadDataType /\ d.cur_point.label = opt.trace_f /\ d.warned = FALSE
    BY <1>0, <1>1, <1>2, <1>3, <2>1, NewPointLabel
       DEF GetLabel, Carried, CurrentLabel, RoiInitMerged, ThreadDataType
  <2>3. SameLabels(td[Main]', d) /\ UNCHANGED <<opt, phase>>
    BY <2>1, <2>2, StartLabel
  <2> QED
    BY <2>1, <2>2, <2>3 DEF Carried, SameLabels, Untraced, CurrentLabel
<1>4. CASE RoiInitSeparate
  <2> DEFINE d == NewPoint(td[Main], AssignedLabel)
  <2>1. opt.trace_f # <<>> /\ opt.calls_as_separate_roi /\ RoiInit(d)
    BY <1>0, <1>4 DEF RoiInitSeparate, SeparateCallsAreTraced
  <2>2. AssignedLabel \in Text
    BY LabelType
  <2>3. d \in ThreadDataType /\ d.warned = FALSE
    BY <1>0, <1>1, <2>2, NewPointLabel DEF ThreadDataType
  <2>4. SameLabels(td[Main]', d) /\ UNCHANGED <<opt, phase>>
    BY <2>1, <2>3, StartLabel
  <2> QED
    BY <2>1, <2>3, <2>4 DEF Carried, SameLabels, Untraced, CurrentLabel, Merged
<1>5. CASE RoiInitDelimiter
  <2> DEFINE d == NewPoint(td[Main], GetLabel(opt.roi_start, Head(open)))
  <2>1. opt.trace_f = <<>> /\ ~opt.calls_as_separate_roi /\ RoiInit(d)
    BY <1>5 DEF RoiInitDelimiter
  <2>2. GetLabel(opt.roi_start, Head(open)) \in Text
    BY <1>2 DEF GetLabel
  <2>3. /\ d \in ThreadDataType /\ d.warned = FALSE
        /\ d.cur_point.label = GetLabel(opt.roi_start, Head(open))
    BY <1>0, <1>1, <2>2, NewPointLabel DEF ThreadDataType
  <2>4. SameLabels(td[Main]', d) /\ UNCHANGED <<opt, phase, open>>
    BY <2>1, <2>3, StartLabel
  <2> QED
    BY <2>1, <2>3, <2>4 DEF Carried, SameLabels, Untraced, CurrentLabel, Merged, GetLabel
<1> QED
  BY <1>3, <1>4, <1>5

\* symbol_roi_end and event_roi_end.
LEMMA CarriedEnd ==
  ASSUME SeparateCallsAreTraced, TypeOK, InCallbackOpen, Unnested, Numbering, Carried,
         EventRoiEnd \/ SymbolRoiEndSeparate \/ SymbolRoiEndMerged
  PROVE  Carried'
<1>0. td[Main] \in ThreadDataType /\ opt \in Options /\ opt \in Option
  BY ConstantTypes DEF TypeOK
<1>1. phase[Main] = "running" /\ at = "end" /\ ~td[Main].warned
  BY DEF EventRoiEnd, SymbolRoiEndSeparate, SymbolRoiEndMerged, InCallback, Carried
<1>2. OpenRegions = 1
  BY <1>1, OneOpen DEF OpenRegions
<1>3. StopTime(td[Main]) \in ThreadDataType /\ SameLabels(StopTime(td[Main]), td[Main])
  <2>1. <<>> \in Text /\ now \in Nat
    BY DEF Text, TypeOK
  <2> QED
    BY <1>0, <2>1, PointOpType, InsertedCodeKeepsLabels DEF StopTime
<1>4. ASSUME NEW d \in ThreadDataType, RoiEnd(d)
      PROVE  /\ SameLabels(td[Main]', d) /\ OpenRegions' = 0
             /\ UNCHANGED <<opt, phase, new_point_only_once>>
  <2>1. td[Main]' = BlockRest(d, block)
    BY <1>4, ConstantTypes DEF RoiEnd, TypeOK
  <2>2. SameLabels(td[Main]', d)
    BY <2>1, InsertedCodeKeepsLabels DEF SameLabels
  <2>3. open' = Tail(open) /\ at' = "app" /\ Len(open) = 1
    BY <1>1, <1>4, OneOpen DEF RoiEnd, Resume
  <2>4. Len(open') = 0
    BY <2>3, HeadTailProperties DEF TypeOK, InCallbackOpen
  <2> QED
    BY <1>4, <2>2, <2>3, <2>4 DEF RoiEnd, OpenRegions
<1>5. ASSUME NEW label \in Text, RoiEnd(SavePoint(StopTime(td[Main]), label)),
             label = CurrentLabel, ~Merged(opt)
      PROVE  Carried'
  <2> DEFINE d == SavePoint(StopTime(td[Main]), label)
  <2>1. d \in ThreadDataType /\ d.warned = FALSE
    BY <1>1, <1>3, <1>5, PointOpType DEF SavePoint, SameLabels, CurrentLabel, ThreadDataType
  <2>2. SameLabels(td[Main]', d) /\ OpenRegions' = 0 /\ UNCHANGED <<opt, phase>>
    BY <1>4, <1>5, <2>1
  <2> QED
    BY <1>5, <2>1, <2>2 DEF Carried, SameLabels, Untraced, Merged
<1>6. CASE EventRoiEnd
  <2>1. GetLabel(opt.roi_start, Head(open)) \in Text
    BY <1>1, LabelType DEF GetLabel, InCallbackOpen
  <2> QED
    BY <1>1, <1>2, <1>5, <1>6, <2>1 DEF EventRoiEnd, Carried, Untraced, Merged
<1>7. CASE SymbolRoiEndSeparate
  <2>1. AssignedLabel \in Text
    BY LabelType
  <2>2. AssignedLabel = CurrentLabel
    BY <1>2, <1>7 DEF SymbolRoiEndSeparate, Numbering, SeparateCalls, AssignedLabel, Numbered
  <2> QED
    BY <1>5, <1>7, <2>1, <2>2 DEF SymbolRoiEndSeparate, Merged
<1>8. CASE SymbolRoiEndMerged
  <2>1. /\ SameLabels(td[Main]', StopTime(td[Main])) /\ OpenRegions' = 0
        /\ UNCHANGED <<opt, phase, new_point_only_once>>
    BY <1>3, <1>4, <1>8 DEF SymbolRoiEndMerged
  <2> QED
    BY <1>1, <1>3, <2>1 DEF Carried, SameLabels, Untraced, CurrentLabel, Merged
<1> QED
  BY <1>6, <1>7, <1>8

\* event_thread_exit of Main saves the merged point under its own label, or
\* an empty one.
LEMMA CarriedExit ==
  ASSUME TypeOK, Carried, ThreadExit(Main)
  PROVE  Carried'
<1>1. td[Main] \in ThreadDataType /\ opt \in Option
  BY ConstantTypes DEF TypeOK
<1>2. /\ td[Main]' = FinalData(td[Main]) /\ phase[Main] = "running"
      /\ phase'[Main] = "exited" /\ UNCHANGED <<opt, new_point_only_once>>
      /\ OpenRegions' = OpenRegions
  BY ConstantTypes DEF ThreadExit, TypeOK, statics, app, OpenRegions
<1>3. td[Main]'.warned => Merged(opt) /\ ~new_point_only_once
  BY <1>1, <1>2 DEF FinalData, SavePoint, Carried, CurrentLabel, ThreadDataType
<1> QED
  BY <1>2, <1>3 DEF Carried, Untraced, Merged

\* The labels, through a whole behaviour.
LEMMA AlwaysCarried ==
  ASSUME MaxDepth = 1, SeparateCallsAreTraced
  PROVE  Spec => [](Unnested /\ NothingBeforeInit /\ Numbering /\ Carried)
<1> DEFINE Inv == Unnested /\ NothingBeforeInit /\ Numbering /\ Carried
<1>1. Init => Inv
  <2> SUFFICES ASSUME Init PROVE Inv
    OBVIOUS
  <2>1. Unnested /\ NothingBeforeInit /\ Numbering
    BY NumberingBegins
  <2>2. OpenRegions = 0 /\ ~td[Main].warned
    BY ConstantTypes, EmptySeq DEF Init, OpenRegions, NewThreadData
  <2> QED
    BY <2>1, <2>2 DEF Init, Carried
<1>2. TypeOK /\ InCallbackOpen /\ Inv /\ [Next]_vars => Inv'
  <2> SUFFICES ASSUME TypeOK, InCallbackOpen, Inv, [Next]_vars PROVE Inv'
    OBVIOUS
  <2>1. Unnested' /\ NothingBeforeInit' /\ Numbering'
    BY UnnestedStep, NothingBeforeInitStep, NumberingStep
  <2>2. Carried'
    BY ElsewhereSteps, ElsewhereCarries, CarriedStart, CarriedEnd, CarriedExit DEF AnyCallback
  <2> QED
    BY <2>1, <2>2
<1> QED
  BY <1>1, <1>2, Basics, PTL DEF Spec

(***************************************************************************)
(* When regions do not nest and every region ends with the label it began  *)
(* with, save_point never warns of a label, however the process exits and  *)
(* whatever options are given, except about a merged function that was     *)
(* never called.                                                           *)
(***************************************************************************)
THEOREM LabelsAgree ==
  ASSUME MaxDepth = 1, SeparateCallsAreTraced
  PROVE  Spec => []NoLabelWarning
<1>1. Carried => NoLabelWarning
  BY DEF Carried, NoLabelWarning
<1> QED
  BY <1>1, AlwaysCarried, PTL
-----------------------------------------------------------------------------
(***************************************************************************)
(* Names in a document.  A point is written under its label, or its label  *)
(* and a number, so two points of one document can only share a name when  *)
(* they have one label and one number, or when one label is another with a *)
(* number: a and a1, or a1 and a11, which a1's second point is called too. *)
(***************************************************************************)
\* No label that the application gives is another one with a number.
LabelsDiffer == \A l, m \in Labels : \A n \in Nat \ {0} : l # WithNumber(m, n)

Apart(list) ==
  \A i, j \in DOMAIN list : \A n \in Nat \ {0} : list[i].label # WithNumber(list[j].label, n)
Distinct(points) == \A i, j \in DOMAIN points : points[i].label = points[j].label => i = j

\* Of two labels that are apart no two numbers make one name.
LEMMA NumbersTell ==
  ASSUME NEW l \in Text, NEW m \in Text,
         \A n \in Nat \ {0} : l # WithNumber(m, n) /\ m # WithNumber(l, n),
         NEW i \in Nat \ {0}, NEW j \in Nat \ {0}, WithNumber(l, i) = WithNumber(m, j)
  PROVE  l = m /\ i = j
<1>1. Len(l) \in Nat /\ Len(m) \in Nat
  BY DEF Text
<1>2. l = m
  BY <1>1, NumberBetween
<1> QED
  BY <1>2, NumberTells

\* Of two points with one label the later one is written under a larger number.
LEMMA CountGrows ==
  ASSUME NEW list \in Seq(Point), NEW i \in 1 .. Len(list), NEW j \in 1 .. Len(list),
         i < j, list[i].label = list[j].label
  PROVE  /\ ExecutionCount(list, i) \in Nat /\ ExecutionCount(list, j) \in Nat
         /\ ExecutionCount(list, i) < ExecutionCount(list, j)
<1> DEFINE Before(k) == {h \in 1 .. (k - 1) : list[h].label = list[k].label}
<1>0. i \in Int /\ j \in Int /\ i - 1 \in Int /\ j - 1 \in Int
  OBVIOUS
<1>1. \A a, b \in Int : IsFiniteSet(a .. b)
  BY FS_Interval
<1>2. IsFiniteSet(Before(j)) /\ IsFiniteSet(Before(i))
  BY <1>0, <1>1, FS_Subset
<1>3. Before(i) \subseteq Before(j) /\ i \in Before(j) /\ i \notin Before(i)
  OBVIOUS
<1> HIDE DEF Before
<1>4. Cardinality(Before(i)) # Cardinality(Before(j)) /\ Cardinality(Before(i)) <= Cardinality(Before(j))
  BY <1>2, <1>3, FS_Subset
<1>5. ExecutionCount(list, i) = Cardinality(Before(i)) /\ ExecutionCount(list, j) = Cardinality(Before(j))
  BY DEF Before, ExecutionCount
<1>6. Cardinality(Before(i)) \in Nat /\ Cardinality(Before(j)) \in Nat
  BY <1>5, CountType
<1> QED
  BY <1>4, <1>5, <1>6

\* So save_to_file gives no name twice when the labels are apart.
LEMMA NamesApart ==
  ASSUME NEW list \in Seq(Point), NEW timing \in BOOLEAN, Apart(list)
  PROVE  Distinct(SaveToFile(list, timing))
<1> DEFINE doc == SaveToFile(list, timing)
<1>1. DOMAIN doc = 1 .. Len(list) /\ DOMAIN list = 1 .. Len(list) /\ Len(list) \in Nat
  BY DEF SaveToFile
<1>2. \A i \in 1 .. Len(list) : doc[i].label = DumpName(list, i)
  BY DEF SaveToFile, DumpInfo
<1>3. ASSUME NEW i \in 1 .. Len(list), NEW j \in 1 .. Len(list), i < j
      PROVE  DumpName(list, i) # DumpName(list, j)
  <2> DEFINE m == ExecutionCount(list, i)
             n == ExecutionCount(list, j)
  <2>0. list[i] \in Point /\ list[j] \in Point
    OBVIOUS
  <2>1. list[i].label \in Text /\ list[j].label \in Text
    BY <2>0 DEF Point
  <2>2. m \in Nat /\ n \in Nat
    BY CountType
  <2>3. list[i].label = list[j].label => m < n
    BY <1>3, CountGrows
  <2>4. \A k \in Nat \ {0} : /\ list[i].label # WithNumber(list[j].label, k)
                             /\ list[j].label # WithNumber(list[i].label, k)
    BY <1>1 DEF Apart
  <2>5. m # 0 /\ n # 0 /\ WithNumber(list[i].label, m) = WithNumber(list[j].label, n)
          => list[i].label = list[j].label /\ m = n
    BY <2>1, <2>2, <2>4, NumbersTell
  <2> HIDE DEF m, n
  <2>6. DumpName(list, i) = IF m = 0 THEN list[i].label ELSE WithNumber(list[i].label, m)
    BY DEF DumpName, m
  <2>7. DumpName(list, j) = IF n = 0 THEN list[j].label ELSE WithNumber(list[j].label, n)
    BY DEF DumpName, n
  <2> QED
    BY <2>2, <2>3, <2>4, <2>5, <2>6, <2>7
<1> HIDE DEF doc
<1>4. \A i, j \in 1 .. Len(list) : doc[i].label = doc[j].label => i = j
  BY <1>1, <1>2, <1>3
<1> QED
  BY <1>1, <1>4 DEF Distinct, doc

\* Labels that all differ are the names themselves.
LEMMA LabelsAreNames ==
  ASSUME NEW list \in Seq(Point), NEW timing \in BOOLEAN,
         \A i, j \in DOMAIN list : list[i].label = list[j].label => i = j
  PROVE  Distinct(SaveToFile(list, timing))
<1> DEFINE doc == SaveToFile(list, timing)
<1>1. DOMAIN doc = 1 .. Len(list) /\ DOMAIN list = 1 .. Len(list) /\ Len(list) \in Nat
  BY DEF SaveToFile
<1>2. \A i \in 1 .. Len(list) : doc[i].label = DumpName(list, i)
  BY DEF SaveToFile, DumpInfo
<1>3. \A i \in 1 .. Len(list) : DumpName(list, i) = list[i].label
  <2> SUFFICES ASSUME NEW i \in 1 .. Len(list) PROVE DumpName(list, i) = list[i].label
    OBVIOUS
  <2>1. {j \in 1 .. (i - 1) : list[j].label = list[i].label} = {}
    BY <1>1
  <2>2. ExecutionCount(list, i) = 0
    BY <2>1, FS_EmptySet DEF ExecutionCount
  <2> QED
    BY <2>2 DEF DumpName
<1> HIDE DEF doc
<1> QED
  BY <1>1, <1>2, <1>3 DEF Distinct, doc

(***************************************************************************)
(* What labels a list can hold: those of started regions, or the numbered  *)
(* calls; before they exit, the other threads have no point at all.        *)
(***************************************************************************)
StartLabels == {GetLabel(opt.roi_start, l) : l \in Labels}
Listed ==
  /\ \A t \in Threads : t # Main /\ phase[t] # "exited" => td[t].point_list = <<>>
  /\ Merged(opt) /\ phase[Main] # "exited" => Points = <<>>
  /\ Untraced => \A i \in DOMAIN Points : Points[i].label \in StartLabels

\* Only its exit gives another thread a point.
LEMMA OthersListNothing ==
  ASSUME TypeOK, [Next]_vars, NEW t \in Threads \ {Main}, phase'[t] # "exited",
         phase[t] # "exited" => td[t].point_list = <<>>
  PROVE  td'[t].point_list = <<>>
<1>0. /\ td \in [Threads -> ThreadDataType] /\ td[t] \in ThreadDataType
      /\ phase \in [Threads -> {"unborn", "running", "exited"}]
  BY DEF TypeOK
<1>1. ASSUME UNCHANGED phase, td'[t] = td[t] PROVE td'[t].point_list = <<>>
  BY <1>1
<1>2. ASSUME NEW u \in Threads, ThreadInit(u) PROVE td'[t].point_list = <<>>
  BY <1>0, <1>2 DEF ThreadInit, NewThreadData
<1>3. ASSUME NEW u \in Threads, NEW b \in Blocks, ExecuteBlock(u, b)
      PROVE  td'[t].point_list = <<>>
  <2>1. BlockRest(BlockEntry(td[t], b), b).point_list = td[t].point_list
    BY <1>0, BlockType, InsertedCodeKeepsLabels, ConstantTypes DEF SameLabels, TypeOK
  <2> QED
    BY <1>0, <1>3, <2>1 DEF ExecuteBlock
<1>4. ASSUME NEW u \in Threads, ThreadExit(u) PROVE td'[t].point_list = <<>>
  BY <1>0, <1>4 DEF ThreadExit
<1>5. (\E u \in Threads : ExitGroup(u)) \/ Tick \/ EventExit \/ RoiInitAbort \/ UNCHANGED vars
        => UNCHANGED <<phase, td>>
  BY DEF ExitGroup, Tick, EventExit, RoiInitAbort, vars
<1>6. (\E b \in DelimBlocks : (\E l \in Labels : EnterStart(b, l)) \/ EnterEnd(b))
        => UNCHANGED phase /\ td'[t] = td[t]
  BY <1>0 DEF EnterStart, EnterEnd
<1>7. AnyCallback => UNCHANGED phase /\ td'[t] = td[t]
  BY <1>0 DEF AnyCallback, RoiInitMerged, RoiInitSeparate, RoiInitDelimiter, EventRoiEnd,
     SymbolRoiEndSeparate, SymbolRoiEndMerged, RoiInit, RoiEnd
<1> QED
  BY <1>1, <1>2, <1>3, <1>4, <1>5, <1>6, <1>7 DEF Next, Terminated, AnyCallback

\* What callbacks do to the list of finished points.
LEMMA CallbackLists ==
  ASSUME TypeOK, InCallbackOpen, AnyCallback
  PROVE  /\ UNCHANGED <<opt, phase>>
         /\ ~(EventRoiEnd \/ SymbolRoiEndSeparate) => Points' = Points
         /\ EventRoiEnd => Points' = Append(Points, StopTime(td[Main]).cur_point)
<1>0. td[Main] \in ThreadDataType /\ td \in [Threads -> ThreadDataType] /\ Main \in Threads
      /\ opt \in Option
  BY ConstantTypes DEF TypeOK
<1>1. UNCHANGED <<opt, phase>> /\ at # "app"
  BY DEF AnyCallback, RoiInitMerged, RoiInitSeparate, RoiInitDelimiter, EventRoiEnd,
     SymbolRoiEndSeparate, SymbolRoiEndMerged, RoiInit, RoiEnd, InCallback
<1>2. Head(open) \in Text /\ opt.trace_f \in Text /\ opt.roi_start \in Text
      /\ AssignedLabel \in Text
  BY <1>1, LabelType DEF InCallbackOpen
<1>3. ASSUME NEW d \in ThreadDataType, RoiInit(d), d.point_list = Points
      PROVE  Points' = Points
  BY <1>3, StartLabel DEF SameLabels, Points
<1>4. \A label \in Text : /\ NewPoint(td[Main], label) \in ThreadDataType
                          /\ NewPoint(td[Main], label).point_list = Points
  BY <1>0, NewPointLabel DEF NewPoint, ThreadDataType, Points
<1>5. RoiInitMerged => Points' = Points
  <2> DEFINE d == IF new_point_only_once THEN td[Main]
                  ELSE NewPoint(td[Main], GetLabel(opt.trace_f, Head(open)))
  <2>1. d \in ThreadDataType /\ d.point_list = Points
    BY <1>0, <1>2, <1>4 DEF GetLabel, Points
  <2> QED
    BY <1>3, <2>1 DEF RoiInitMerged
<1>6. RoiInitSeparate \/ RoiInitDelimiter => Points' = Points
  BY <1>2, <1>3, <1>4 DEF RoiInitSeparate, RoiInitDelimiter, GetLabel
<1>7. /\ StopTime(td[Main]) \in ThreadDataType
      /\ StopTime(td[Main]).point_list = Points
  <2>1. <<>> \in Text /\ now \in Nat
    BY DEF Text, TypeOK
  <2> QED
    BY <1>0, <2>1, PointOpType, InsertedCodeKeepsLabels DEF StopTime, SameLabels, Points
<1>8. ASSUME NEW d \in ThreadDataType, RoiEnd(d) PROVE Points' = d.point_list
  <2>1. td[Main]' = BlockRest(d, block)
    BY <1>0, <1>8 DEF RoiEnd
  <2> QED
    BY <2>1, InsertedCodeKeepsLabels DEF SameLabels, Points
<1>9. SymbolRoiEndMerged => Points' = Points
  BY <1>7, <1>8 DEF SymbolRoiEndMerged
<1>10. EventRoiEnd => Points' = Append(Points, StopTime(td[Main]).cur_point)
  <2> DEFINE d == SavePoint(StopTime(td[Main]), GetLabel(opt.roi_start, Head(open)))
  <2>1. d \in ThreadDataType
    BY <1>2, <1>7, PointOpType DEF GetLabel
  <2>2. d.point_list = Append(Points, StopTime(td[Main]).cur_point)
    BY <1>7 DEF SavePoint, ThreadDataType
  <2> QED
    BY <1>8, <2>1, <2>2 DEF EventRoiEnd
<1> QED
  BY <1>1, <1>5, <1>6, <1>9, <1>10 DEF AnyCallback

\* Every step keeps the lists as described.
LEMMA ListedStep ==
  ASSUME MaxDepth = 1, TypeOK, InCallbackOpen, Unnested, NothingBeforeInit, Carried,
         Listed, [Next]_vars
  PROVE  Listed'
<1>1. \A t \in Threads : t # Main /\ phase'[t] # "exited" => td'[t].point_list = <<>>
  BY OthersListNothing DEF Listed
<1>2. ASSUME UNCHANGED opt, Points' = Points, phase'[Main] # "exited" => phase[Main] # "exited"
      PROVE  Listed'
  BY <1>1, <1>2 DEF Listed, Merged, Untraced, StartLabels, GetLabel
<1>3. CASE Elsewhere
  BY <1>2, <1>3 DEF Elsewhere, SameLabels, Points
<1>4. CASE ThreadExit(Main)
  <2>1. /\ UNCHANGED opt /\ phase'[Main] = "exited"
        /\ Untraced => Points' = Points
    BY <1>4, ConstantTypes DEF ThreadExit, TypeOK, FinalData, Merged, Untraced, Points
  <2> QED
    BY <1>1, <2>1 DEF Listed, Untraced, StartLabels, GetLabel
<1>5. CASE AnyCallback /\ ~EventRoiEnd
  <2>1. UNCHANGED <<opt, phase>> /\ (Points' = Points \/ (~Untraced /\ ~Merged(opt)))
    BY <1>5, CallbackLists DEF Untraced, SymbolRoiEndSeparate, AnyCallback, Merged
  <2> QED
    BY <1>1, <1>2, <2>1 DEF Listed, Untraced, Merged
<1>6. CASE EventRoiEnd
  <2>1. Untraced /\ at = "end" /\ phase[Main] = "running"
    BY <1>6 DEF EventRoiEnd, InCallback, Untraced
  <2>2. Points' = Append(Points, StopTime(td[Main]).cur_point) /\ UNCHANGED <<opt, phase>>
    BY <1>6, CallbackLists DEF AnyCallback
  <2>3. StopTime(td[Main]).cur_point.label \in StartLabels
    <3>1. OpenRegions = 1 /\ Head(open) \in Labels
      BY <2>1, OneOpen, HeadTailProperties DEF OpenRegions, TypeOK, InCallbackOpen
    <3>2. CurrentLabel = GetLabel(opt.roi_start, Head(open))
      BY <2>1, <3>1 DEF Carried
    <3>3. StopTime(td[Main]).cur_point.label = CurrentLabel
      BY ConstantTypes, InsertedCodeKeepsLabels DEF TypeOK, SameLabels, CurrentLabel
    <3> QED
      BY <3>1, <3>2, <3>3 DEF StartLabels
  <2>4. Points \in Seq(Point) /\ StopTime(td[Main]).cur_point \in Point
    <3>1. <<>> \in Text /\ now \in Nat /\ td[Main] \in ThreadDataType
      BY ConstantTypes DEF Text, TypeOK
    <3> QED
      BY <3>1, PointOpType DEF StopTime, ThreadDataType, Points
  <2>5. \A i \in DOMAIN Points' : Points'[i].label \in StartLabels
    <3>1. /\ DOMAIN Points' = 1 .. (Len(Points) + 1) /\ DOMAIN Points = 1 .. Len(Points)
          /\ Len(Points) \in Nat
          /\ Points'[Len(Points) + 1] = StopTime(td[Main]).cur_point
          /\ \A i \in 1 .. Len(Points) : Points'[i] = Points[i]
      BY <2>2, <2>4, AppendProperties
    <3>2. ASSUME NEW i \in 1 .. (Len(Points) + 1) PROVE Points'[i].label \in StartLabels
      <4>1. i = Len(Points) + 1 \/ i \in 1 .. Len(Points)
        BY <3>1
      <4> QED
        BY <2>1, <2>3, <3>1, <4>1 DEF Listed
    <3> QED
      BY <3>1, <3>2
  <2> QED
    BY <1>1, <2>1, <2>2, <2>5 DEF Listed, Untraced, Merged, StartLabels, GetLabel
<1> QED
  BY <1>3, <1>4, <1>5, <1>6, ElsewhereSteps

\* The document that a thread writes at its exit.
LEMMA DocumentDistinct ==
  ASSUME LabelsDiffer, TypeOK, Numbering, Listed, NEW t \in Threads, phase[t] = "running"
  PROVE  Distinct(SaveToFile(FinalData(td[t]).point_list, opt.time_run))
<1> DEFINE list == FinalData(td[t]).point_list
<1>0. td[t] \in ThreadDataType /\ opt \in Option /\ opt.trace_f \in Text
      /\ opt.roi_start \in Text /\ opt.time_run \in BOOLEAN
  BY ConstantTypes DEF TypeOK, Option
<1>1. list \in Seq(Point)
  BY <1>0, PointOpType DEF FinalData, ThreadDataType
<1>2. CASE Merged(opt)
  <2>1. td[t].point_list = <<>>
    BY <1>2 DEF Listed, Points
  <2>2. list = <<td[t].cur_point>>
    BY <1>0, <1>2, <2>1 DEF FinalData, SavePoint, ThreadDataType
  <2>3. \A i, j \in DOMAIN list : i = j
    BY <2>2
  <2> QED
    BY <1>0, <1>1, <2>3, LabelsAreNames
<1>3. CASE ~Merged(opt) /\ t # Main
  <2>1. list = <<>>
    BY <1>3 DEF Listed, FinalData
  <2>2. DOMAIN list = {}
    BY <2>1
  <2> QED
    BY <1>0, <1>1, <2>2, LabelsAreNames
<1>4. CASE ~Merged(opt) /\ t = Main /\ Untraced
  <2>1. list = Points /\ \A i \in DOMAIN Points : Points[i].label \in StartLabels
    BY <1>4 DEF FinalData, Listed, Points
  <2>2. ASSUME NEW l \in StartLabels, NEW m \in StartLabels, NEW n \in Nat \ {0}
        PROVE  l # WithNumber(m, n)
    <3>1. CASE opt.roi_start = <<>>
      BY <3>1 DEF StartLabels, GetLabel, LabelsDiffer
    <3>2. CASE opt.roi_start # <<>>
      BY <1>0, <3>2, WithNumberType DEF StartLabels, GetLabel
    <3> QED
      BY <3>1, <3>2
  <2>3. Apart(list)
    BY <2>1, <2>2 DEF Apart
  <2> QED
    BY <1>0, <1>1, <2>3, NamesApart
<1>5. CASE ~Merged(opt) /\ t = Main /\ ~Untraced
  <2>1. SeparateCalls /\ list = Points
    BY <1>0, <1>5 DEF SeparateCalls, Merged, Untraced, FinalData, Points
  <2>2. \A i \in DOMAIN Points : Points[i].label = Numbered(i)
    BY <2>1 DEF Numbering
  <2>3. \A i, j \in Nat : Numbered(i) = Numbered(j) => i = j
    BY NumberedInjective
  <2>4. \A i \in DOMAIN list : i \in Nat
    BY <1>1
  <2>5. \A i, j \in DOMAIN list : list[i].label = list[j].label => i = j
    BY <2>1, <2>2, <2>3, <2>4
  <2> QED
    BY <1>0, <1>1, <2>5, LabelsAreNames
<1> QED
  BY <1>2, <1>3, <1>4, <1>5

\* Every document is written by one exit, and none is changed later.
LEMMA DocumentsGrow ==
  ASSUME TypeOK, [Next]_vars
  PROVE  \/ out_file' = out_file
         \/ \E t \in Threads :
              /\ phase[t] = "running"
              /\ out_file' = Append(out_file, [tid |-> t,
                   points |-> SaveToFile(FinalData(td[t]).point_list, opt.time_run)])
BY DEF Next, Terminated, ThreadInit, ExecuteBlock, ExitGroup, ThreadExit, Tick, EnterStart,
   EnterEnd, RoiInitMerged, RoiInitSeparate, RoiInitAbort, RoiInitDelimiter, EventRoiEnd,
   SymbolRoiEndSeparate, SymbolRoiEndMerged, RoiInit, RoiEnd, EventExit, vars

\* Documents stay as they are once written.
LEMMA NamesStep ==
  ASSUME LabelsDiffer, TypeOK, Numbering, Listed, NamesUnique, [Next]_vars
  PROVE  NamesUnique'
<1>1. out_file \in Seq([tid : Threads, points : Seq(Element)])
  BY DEF TypeOK
<1>2. NamesUnique <=> \A d \in DOMAIN out_file : Distinct(out_file[d].points)
  BY DEF NamesUnique, Distinct
<1>3. NamesUnique' <=> \A d \in DOMAIN out_file' : Distinct(out_file'[d].points)
  BY DEF NamesUnique, Distinct
<1>4. CASE out_file' = out_file
  BY <1>2, <1>3, <1>4
<1>5. ASSUME NEW t \in Threads, phase[t] = "running",
             out_file' = Append(out_file, [tid |-> t,
               points |-> SaveToFile(FinalData(td[t]).point_list, opt.time_run)])
      PROVE  NamesUnique'
  <2>1. Distinct(SaveToFile(FinalData(td[t]).point_list, opt.time_run))
    BY <1>5, DocumentDistinct
  <2>2. /\ DOMAIN out_file' = 1 .. (Len(out_file) + 1) /\ DOMAIN out_file = 1 .. Len(out_file)
        /\ Len(out_file) \in Nat
        /\ out_file'[Len(out_file) + 1].points
             = SaveToFile(FinalData(td[t]).point_list, opt.time_run)
        /\ \A d \in 1 .. Len(out_file) : out_file'[d] = out_file[d]
    BY <1>1, <1>5
  <2>3. ASSUME NEW d \in DOMAIN out_file' PROVE Distinct(out_file'[d].points)
    <3>1. d = Len(out_file) + 1 \/ d \in 1 .. Len(out_file)
      BY <2>2
    <3> QED
      BY <1>2, <2>1, <2>2, <3>1
  <2> QED
    BY <1>3, <2>3
<1> QED
  BY <1>4, <1>5, DocumentsGrow

(***************************************************************************)
(* When regions do not nest and no label that the application gives is     *)
(* another one with a number, no document has two points of one name,      *)
(* however often each region runs and whichever thread writes.             *)
(***************************************************************************)
THEOREM NamesDiffer ==
  ASSUME MaxDepth = 1, SeparateCallsAreTraced, LabelsDiffer
  PROVE  Spec => []NamesUnique
<1> DEFINE Inv == Unnested /\ NothingBeforeInit /\ Numbering /\ Carried
           NInv == Listed /\ NamesUnique
<1>1. Init => NInv
  <2> SUFFICES ASSUME Init PROVE NInv
    OBVIOUS
  <2>1. \A t \in Threads : td[t].point_list = <<>>
    BY DEF Init, NewThreadData
  <2>2. out_file = <<>> /\ Points = <<>>
    BY <2>1, ConstantTypes DEF Init, Points
  <2> QED
    BY <2>1, <2>2 DEF Listed, NamesUnique
<1>2. TypeOK /\ InCallbackOpen /\ Inv /\ NInv /\ [Next]_vars => NInv'
  BY ListedStep, NamesStep
<1>3. Spec => []Inv
  BY AlwaysCarried
<1>4. NInv => NamesUnique
  OBVIOUS
<1> QED
  BY <1>1, <1>2, <1>3, <1>4, Basics, PTL DEF Spec
================================================================================
