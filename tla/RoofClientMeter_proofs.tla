------------------------- MODULE RoofClientMeter_proofs -------------------------
(***************************************************************************)
(* The client implements the meter: RoofClient's specification implies     *)
(* RoiMeter's under the refinement mapping of RoofClientMeter.             *)
(***************************************************************************)
EXTENDS RoofClientMeter, RoofClient_proofs

\* Bytes counted or about to be, by the next clean call.
Gathered(d) == d.cur_point.bytes + d.buffer.rd + d.buffer.wr
Held(d) == d.cur_point.flops = 0 /\ d.cur_point.bytes = 0

\* The buffer receives what is wanted.
LEMMA RecordedIsWanted ==
  ASSUME NEW o \in Option, NEW r \in AppRefs
  PROVE  Recorded(o, r).rd + Recorded(o, r).wr = Wanted(o, r)
<1>1. r.updates \in Nat /\ r.loads \in Nat /\ r.stores \in Nat
  BY DEF AppRefs
<1> QED
  BY <1>1 DEF Recorded, Wanted

\* Recording references adds them to what is gathered and touches no point.
LEMMA RecordGathers ==
  ASSUME NEW d \in ThreadDataType, NEW r \in Refs
  PROVE  /\ Gathered(Record(d, r)) = Gathered(d) + r.rd + r.wr
         /\ Record(d, r).cur_point = d.cur_point
         /\ Record(d, r).point_list = d.point_list
<1>1. Record(d, r).buffer = AddRefs(d.buffer, r) /\ Record(d, r).cur_point = d.cur_point
  BY DEF Record, ThreadDataType
<1>2. d.buffer \in Refs /\ d.cur_point \in Point
  BY DEF ThreadDataType
<1>3. /\ d.buffer.rd \in Nat /\ d.buffer.wr \in Nat /\ d.cur_point.bytes \in Nat
      /\ r.rd \in Nat /\ r.wr \in Nat
  BY <1>2 DEF Refs, Point
<1>4. Gathered(Record(d, r)) = Gathered(d) + r.rd + r.wr
  BY <1>1, <1>3 DEF Gathered, AddRefs
<1> QED
  BY <1>1, <1>4 DEF Record, ThreadDataType

\* A clean call moves the buffer into the point of an open region, and
\* throws it away otherwise.
LEMMA CleanCallGathers ==
  ASSUME NEW d \in ThreadDataType, NEW n \in Nat
  PROVE  /\ CleanCall(d, n).buffer = NoRefs
         /\ CleanCall(d, n).point_list = d.point_list
         /\ ~in_roi => CleanCall(d, n).cur_point = d.cur_point
         /\ in_roi => /\ Gathered(CleanCall(d, n)) = Gathered(d)
                      /\ CleanCall(d, n).cur_point.flops = d.cur_point.flops + n
                      /\ CleanCall(d, n).cur_point.start = d.cur_point.start
                      /\ CleanCall(d, n).cur_point.end = d.cur_point.end
<1>1. CASE ~in_roi
  BY <1>1 DEF CleanCall, CleanBuffer, ThreadDataType
<1>2. CASE in_roi
  <2> DEFINE e == SaveFloatingPoints(d, n)
  <2>1. /\ e.cur_point = UpdateFpCount(d.cur_point, n) /\ e.buffer = d.buffer
        /\ e.point_list = d.point_list /\ e \in ThreadDataType
    BY SaveType DEF SaveFloatingPoints, ThreadDataType
  <2>2. /\ SaveBytes(e).cur_point = UpdateBytes(e.cur_point, e.buffer)
        /\ SaveBytes(e).buffer = NoRefs /\ SaveBytes(e).point_list = e.point_list
    BY <2>1 DEF SaveBytes, ThreadDataType
  <2>3. d.cur_point \in Point /\ e.cur_point \in Point /\ d.buffer \in Refs
    BY <2>1 DEF ThreadDataType
  <2>4. /\ e.cur_point.flops = d.cur_point.flops + n
        /\ e.cur_point.bytes = d.cur_point.bytes
        /\ e.cur_point.start = d.cur_point.start /\ e.cur_point.end = d.cur_point.end
    BY <2>1, <2>3 DEF UpdateFpCount, Point
  <2>5. LET p == UpdateBytes(e.cur_point, e.buffer)
        IN /\ p.bytes = e.cur_point.bytes + e.buffer.rd + e.buffer.wr
           /\ p.flops = e.cur_point.flops /\ p.start = e.cur_point.start
           /\ p.end = e.cur_point.end
    BY <2>3 DEF UpdateBytes, Point
  <2>6. d.cur_point.bytes \in Nat /\ d.buffer.rd \in Nat /\ d.buffer.wr \in Nat
    BY <2>3 DEF Point, Refs
  <2>7. Gathered(SaveBytes(e)) = Gathered(d)
    BY <2>1, <2>2, <2>4, <2>5, <2>6 DEF Gathered, NoRefs
  <2> QED
    BY <1>2, <2>1, <2>2, <2>4, <2>5, <2>7 DEF CleanCall
<1> QED
  BY <1>1, <1>2

\* The code inserted up to a block's clean call, in a run that counts.
LEMMA EntryGathers ==
  ASSUME NEW d \in ThreadDataType, NEW b \in Block, opt \in Option, ~opt.time_run
  PROVE  LET e == BlockEntry(d, b)
         IN /\ e.point_list = d.point_list
            /\ ~b.excl => e.buffer = NoRefs
            /\ ~in_roi => e.cur_point = d.cur_point
            /\ in_roi => /\ Gathered(e) = Gathered(d) + Wanted(opt, b.head)
                         /\ b.excl \/ e.cur_point.flops = d.cur_point.flops + b.fp
                         /\ b.excl => e.cur_point.flops = d.cur_point.flops
<1> DEFINE r == Recorded(opt, b.head)
           e == Record(d, r)
<1>1. b.fp \in Nat /\ b.head \in AppRefs /\ b.excl \in BOOLEAN
  BY DEF Block
<1>2. r \in Refs /\ r.rd + r.wr = Wanted(opt, b.head)
  BY <1>1, RecordedType, RecordedIsWanted
<1>3. /\ e \in ThreadDataType /\ e.cur_point = d.cur_point
      /\ e.point_list = d.point_list
      /\ Gathered(e) = Gathered(d) + r.rd + r.wr
  BY <1>2, RecordType, RecordGathers
<1>4. Gathered(e) = Gathered(d) + Wanted(opt, b.head)
  <2>1. d.cur_point \in Point /\ d.buffer \in Refs
    BY DEF ThreadDataType
  <2>2. Gathered(d) \in Nat /\ r.rd \in Nat /\ r.wr \in Nat
    BY <1>2, <2>1 DEF Gathered, Point, Refs
  <2> QED
    BY <1>2, <1>3, <2>2
<1>5. CASE b.excl
  <2>1. BlockEntry(d, b) = e
    BY <1>5 DEF BlockEntry
  <2> QED
    BY <1>3, <1>4, <1>5, <2>1
<1>6. CASE ~b.excl
  <2>1. BlockEntry(d, b) = CleanCall(e, b.fp)
    BY <1>6 DEF BlockEntry
  <2> HIDE DEF e
  <2> QED
    BY <1>1, <1>3, <1>4, <1>6, <2>1, CleanCallGathers
<1> QED
  BY <1>1, <1>5, <1>6

\* The rest of a block's inserted code only records.
LEMMA RestGathers ==
  ASSUME NEW d \in ThreadDataType, NEW b \in Block, opt \in Option, ~opt.time_run
  PROVE  /\ Gathered(BlockRest(d, b)) = Gathered(d) + Wanted(opt, b.body)
         /\ BlockRest(d, b).cur_point = d.cur_point
         /\ BlockRest(d, b).point_list = d.point_list
<1> DEFINE r == Recorded(opt, b.body)
<1>1. r \in Refs /\ r.rd + r.wr = Wanted(opt, b.body)
  BY RecordedType, RecordedIsWanted DEF Block
<1>2. BlockRest(d, b) = Record(d, r)
  BY DEF BlockRest
<1>3. d.cur_point \in Point /\ d.buffer \in Refs
  BY DEF ThreadDataType
<1>4. Gathered(d) \in Nat /\ r.rd \in Nat /\ r.wr \in Nat
  BY <1>1, <1>3 DEF Gathered, Point, Refs
<1> HIDE DEF r
<1> QED
  BY <1>1, <1>2, <1>4, RecordGathers

\* A block executed without a callback, inside a region and outside.
LEMMA BlockGathers ==
  ASSUME NEW d \in ThreadDataType, NEW b \in Block, opt \in Option, ~opt.time_run,
         b.excl => b.fp = 0
  PROVE  LET e == BlockRest(BlockEntry(d, b), b)
         IN /\ e.point_list = d.point_list
            /\ ~in_roi => e.cur_point = d.cur_point
            /\ in_roi => /\ Gathered(e) = Gathered(d) + Wanted(opt, b.head)
                                                      + Wanted(opt, b.body)
                         /\ e.cur_point.flops = d.cur_point.flops + b.fp
<1>1. BlockEntry(d, b) \in ThreadDataType
  BY BlockType
<1>2. d.cur_point \in Point /\ b.fp \in Nat
  BY DEF ThreadDataType, Block
<1>3. d.cur_point.flops \in Nat
  BY <1>2 DEF Point
<1>4. b.excl => d.cur_point.flops = d.cur_point.flops + b.fp
  BY <1>2, <1>3
<1> QED
  BY <1>1, <1>4, EntryGathers, RestGathers
-----------------------------------------------------------------------------
(***************************************************************************)
(* The invariant of the refinement, beyond what RoofClient_proofs shows.   *)
(* The buffer is empty while a callback is due, so that what a region      *)
(* finds in it was recorded inside; a merged region starts from zero the   *)
(* first time; a timing run counts nothing.                                *)
(***************************************************************************)
Empty(d) == Held(d) /\ d.buffer = NoRefs

Prepared ==
  /\ phase[Main] = "unborn" => at = "app" /\ open = <<>>
  /\ phase[Main] # "exited" => MainDocuments = {}
  /\ at # "app" => block \in DelimBlocks /\ td[Main].buffer = NoRefs
  /\ Merged(opt) /\ ~new_point_only_once => ~in_roi /\ Held(td[Main])
  /\ opt.time_run => Empty(td[Main])

\* A timing run inserts nothing.
LEMMA NothingInserted ==
  ASSUME NEW d, NEW b, opt.time_run
  PROVE  BlockEntry(d, b) = d /\ BlockRest(d, b) = d
BY DEF BlockEntry, BlockRest

\* A point that is started is empty, and one that is saved leaves one.
LEMMA PointsStartEmpty ==
  ASSUME NEW d \in ThreadDataType, NEW label \in Text, NEW n \in Nat
  PROVE  /\ Held(NewPoint(d, label)) /\ NewPoint(d, label).buffer = d.buffer
         /\ Held(SavePoint(d, label)) /\ SavePoint(d, label).buffer = d.buffer
         /\ Held(d) => Held(SetTimeStart(d, n)) /\ Held(SetTimeEnd(d, n))
         /\ SetTimeStart(d, n).buffer = d.buffer /\ SetTimeEnd(d, n).buffer = d.buffer
<1>1. d.cur_point \in Point /\ Reset(d.cur_point) \in Point
  BY ResetType DEF ThreadDataType
<1>2. Reset(d.cur_point).flops = 0 /\ Reset(d.cur_point).bytes = 0
  BY <1>1 DEF Reset, Point
<1>3. NewPoint(d, label).cur_point = [Reset(d.cur_point) EXCEPT !.label = label]
  BY DEF NewPoint, ThreadDataType
<1>4. Held(NewPoint(d, label)) /\ NewPoint(d, label).buffer = d.buffer
  BY <1>1, <1>2, <1>3 DEF Held, NewPoint, ThreadDataType, Point
<1>5. Held(SavePoint(d, label)) /\ SavePoint(d, label).buffer = d.buffer
  BY <1>2 DEF Held, SavePoint, ThreadDataType
<1>6. /\ SetTimeStart(d, n).cur_point = [d.cur_point EXCEPT !.start = n]
      /\ SetTimeEnd(d, n).cur_point = [d.cur_point EXCEPT !.end = n]
      /\ SetTimeStart(d, n).buffer = d.buffer /\ SetTimeEnd(d, n).buffer = d.buffer
  BY DEF SetTimeStart, SetTimeEnd, ThreadDataType
<1>7. Held(d) => Held(SetTimeStart(d, n)) /\ Held(SetTimeEnd(d, n))
  BY <1>1, <1>6 DEF Held, Point
<1> QED
  BY <1>4, <1>5, <1>6, <1>7

\* A step that leaves Main's part alone.
LEMMA PreparedSame ==
  ASSUME Prepared, UNCHANGED <<opt, at, open, block, new_point_only_once>>,
         in_roi' = in_roi \/ ~Merged(opt), td'[Main] = td[Main],
         phase'[Main] \in {phase[Main], "running"},
         phase[Main] = "exited" => phase'[Main] = "exited",
         MainDocuments' = MainDocuments
  PROVE  Prepared'
BY DEF Prepared, Merged

\* Main enters a delimiter: its clean call empties the buffer.
LEMMA PreparedEnter ==
  ASSUME Exact, TypeOK, TypeOK', Prepared, NEW b \in DelimBlocks, phase[Main] = "running",
         td' = [td EXCEPT ![Main] = BlockEntry(@, b)], block' = b,
         UNCHANGED <<opt, phase, new_point_only_once, in_roi, out_file>>
  PROVE  Prepared'
<1>1. td[Main] \in ThreadDataType /\ b \in Block /\ opt \in Option
  BY ConstantTypes DEF TypeOK
<1>2. td'[Main] = BlockEntry(td[Main], b)
  BY ConstantTypes DEF TypeOK
<1>3. CASE opt.time_run
  BY <1>2, <1>3, NothingInserted DEF Prepared, Empty, MainDocuments
<1>4. CASE ~opt.time_run
  <2>1. td'[Main].buffer = NoRefs /\ (~in_roi => td'[Main].cur_point = td[Main].cur_point)
    BY <1>1, <1>2, <1>4, EntryGathers DEF Exact
  <2> QED
    BY <1>4, <2>1 DEF Prepared, Held, MainDocuments
<1> QED
  BY <1>3, <1>4
\* event_roi_init.
LEMMA PreparedStart ==
  ASSUME TypeOK, Prepared, NEW d \in ThreadDataType, RoiInit(d),
         phase[Main] = "running",
         Merged(opt) => new_point_only_once',
         opt.time_run => Empty(d)
  PROVE  Prepared'
<1>1. td'[Main] = BlockRest(StartTime(d), block)
  BY ConstantTypes DEF RoiInit, TypeOK
<1>2. /\ at' = "app" /\ UNCHANGED <<opt, phase, out_file>>
  BY DEF RoiInit, Resume
<1>3. opt.time_run => Empty(td'[Main])
  <2>1. <<>> \in Text /\ now \in Nat
    BY DEF Text, TypeOK
  <2> QED
    BY <1>1, <2>1, NothingInserted, PointsStartEmpty DEF StartTime, Empty
<1> QED
  BY <1>2, <1>3 DEF Prepared, MainDocuments, Merged

\* event_roi_end and symbol_roi_end.
LEMMA PreparedEnd ==
  ASSUME TypeOK, Prepared, NEW d \in ThreadDataType, RoiEnd(d), in_roi,
         phase[Main] = "running",
         opt.time_run => Empty(d)
  PROVE  Prepared'
<1>1. td'[Main] = BlockRest(d, block)
  BY ConstantTypes DEF RoiEnd, TypeOK
<1>2. /\ at' = "app" /\ UNCHANGED <<opt, phase, out_file, new_point_only_once>>
  BY DEF RoiEnd, Resume
<1>3. opt.time_run => Empty(td'[Main])
  BY <1>1, NothingInserted
<1> QED
  BY <1>2, <1>3 DEF Prepared, MainDocuments, Merged

\* event_thread_exit.
LEMMA PreparedExit ==
  ASSUME TypeOK, Prepared, NEW t \in Threads, ThreadExit(t)
  PROVE  Prepared'
<1>1. td[Main] \in ThreadDataType /\ opt \in Option
  BY ConstantTypes DEF TypeOK
<1>2. UNCHANGED <<opt, at, open, block, new_point_only_once, in_roi>>
  BY DEF ThreadExit, statics, app
<1>3. CASE t = Main
  <2>1. td'[Main] = FinalData(td[Main]) /\ phase'[Main] = "exited"
    BY <1>3 DEF ThreadExit, TypeOK
  <2>2. opt.trace_f \in Text
    BY <1>1 DEF Option
  <2>3. /\ FinalData(td[Main]).buffer = td[Main].buffer
        /\ Held(td[Main]) => Held(FinalData(td[Main]))
    BY <1>1, <2>2, PointsStartEmpty DEF FinalData
  <2> QED
    BY <1>2, <2>1, <2>3 DEF Prepared, Empty, Merged
<1>4. CASE t # Main
  <2>1. td'[Main] = td[Main] /\ phase'[Main] = phase[Main]
    BY <1>4, ConstantTypes DEF ThreadExit, TypeOK
  <2>2. PICK points : out_file' = Append(out_file, [tid |-> t, points |-> points])
    BY DEF ThreadExit
  <2>3. MainDocuments' = MainDocuments
    <3>1. /\ out_file \in Seq([tid : Threads, points : Seq(Element)])
          /\ DOMAIN out_file' = 1 .. Len(out_file) + 1 /\ DOMAIN out_file = 1 .. Len(out_file)
          /\ Len(out_file) \in Nat
          /\ out_file'[Len(out_file) + 1].tid = t
          /\ \A i \in 1 .. Len(out_file) : out_file'[i] = out_file[i]
      BY <2>2 DEF TypeOK
    <3> QED
      BY <1>4, <3>1 DEF MainDocuments
  <2> QED
    BY <1>2, <2>1, <2>3, PreparedSame DEF TypeOK
<1> QED
  BY <1>3, <1>4

StartCallback == RoiInitMerged \/ RoiInitSeparate \/ RoiInitDelimiter
\* Whichever start callback runs, it starts a point from zero, or goes on
\* with the merged one, and leaves the buffer and the finished points alone.
LEMMA StartedPoint ==
  ASSUME TypeOK, InCallbackOpen, Prepared, StartCallback
  PROVE  /\ InCallback("init") /\ (Merged(opt) => new_point_only_once')
         /\ \E d \in ThreadDataType :
              /\ RoiInit(d) /\ d.buffer = td[Main].buffer /\ d.point_list = Points
              /\ ~Merged(opt) => Held(d)
              /\ Merged(opt) => /\ d.cur_point.flops = Current.flops
                                /\ d.cur_point.bytes = Current.bytes
<1>0. td[Main] \in ThreadDataType
  BY ConstantTypes DEF TypeOK
<1>1. ASSUME NEW label \in Text
      PROVE  LET d == NewPoint(td[Main], label)
             IN /\ d \in ThreadDataType /\ d.buffer = td[Main].buffer
                /\ d.point_list = Points /\ Held(d)
  <2>1. NewPoint(td[Main], label).point_list = td[Main].point_list
    BY <1>0 DEF NewPoint, ThreadDataType
  <2> QED
    BY <1>0, <2>1, PointOpType, PointsStartEmpty DEF Points
<1>2. at # "app" => Head(open) \in Text
  BY LabelType DEF InCallbackOpen
<1>3. CASE RoiInitMerged
  <2> DEFINE label == GetLabel(opt.trace_f, Head(open))
             d == IF new_point_only_once THEN td[Main] ELSE NewPoint(td[Main], label)
  <2>1. label \in Text
    BY <1>2, <1>3, LabelType DEF RoiInitMerged, InCallback, GetLabel
  <2>2. /\ InCallback("init") /\ Merged(opt) /\ RoiInit(d) /\ new_point_only_once'
    BY <1>3 DEF RoiInitMerged
  <2>3. ~new_point_only_once => Held(td[Main])
    BY <2>2 DEF Prepared
  <2> HIDE DEF label
  <2>4. /\ d \in ThreadDataType /\ d.buffer = td[Main].buffer /\ d.point_list = Points
        /\ d.cur_point.flops = Current.flops /\ d.cur_point.bytes = Current.bytes
    BY <1>0, <1>1, <2>1, <2>3 DEF Points, Current, Held
  <2> QED
    BY <2>2, <2>4
<1>4. CASE RoiInitSeparate
  <2>1. AssignedLabel \in Text
    BY LabelType
  <2>2. InCallback("init") /\ RoiInit(NewPoint(td[Main], AssignedLabel)) /\ ~Merged(opt)
    BY <1>4 DEF RoiInitSeparate, Merged
  <2> QED
    BY <1>1, <2>1, <2>2
<1>5. CASE RoiInitDelimiter
  <2> DEFINE label == GetLabel(opt.roi_start, Head(open))
  <2>1. label \in Text
    BY <1>2, <1>5, LabelType DEF RoiInitDelimiter, InCallback, GetLabel
  <2>2. InCallback("init") /\ RoiInit(NewPoint(td[Main], label)) /\ ~Merged(opt)
    BY <1>5 DEF RoiInitDelimiter, Merged
  <2> QED
    BY <1>1, <2>1, <2>2
<1> QED
  BY <1>3, <1>4, <1>5 DEF StartCallback

EndCallback == EventRoiEnd \/ SymbolRoiEndSeparate \/ SymbolRoiEndMerged
\* Whichever end callback runs, it saves the point with the time it stopped,
\* or keeps a merged one.
LEMMA SavedPoint ==
  ASSUME TypeOK, InCallbackOpen, EndCallback
  PROVE  /\ InCallback("end")
         /\ \E d \in ThreadDataType :
              /\ RoiEnd(d) /\ d.buffer = td[Main].buffer
              /\ Merged(opt) =>
                   /\ d.point_list = Points
                   /\ d.cur_point.flops = Current.flops /\ d.cur_point.bytes = Current.bytes
              /\ ~Merged(opt) =>
                   /\ d.point_list = Append(Points, StopTime(td[Main]).cur_point)
                   /\ Held(d) /\ d.cur_point.start = 0 /\ d.cur_point.end = 0
<1> DEFINE s == StopTime(td[Main])
<1>1. td[Main] \in ThreadDataType /\ now \in Nat /\ <<>> \in Text
  BY ConstantTypes DEF TypeOK, Text
<1>2. /\ s \in ThreadDataType /\ s.buffer = td[Main].buffer /\ s.point_list = Points
      /\ s.cur_point.flops = Current.flops /\ s.cur_point.bytes = Current.bytes
  <2>1. td[Main].cur_point \in Point
    BY <1>1 DEF ThreadDataType
  <2>2. s.buffer = td[Main].buffer /\ s.point_list = td[Main].point_list
    BY <1>1 DEF StopTime, SetTimeEnd, ThreadDataType
  <2>3. s.cur_point \in {td[Main].cur_point, [td[Main].cur_point EXCEPT !.end = now]}
    BY <1>1 DEF StopTime, SetTimeEnd, ThreadDataType
  <2>4. s.cur_point.flops = Current.flops /\ s.cur_point.bytes = Current.bytes
    BY <2>1, <2>3 DEF Current, Point
  <2>5. s \in ThreadDataType
    BY <1>1, PointOpType DEF StopTime
  <2> QED
    BY <2>2, <2>4, <2>5 DEF Points
<1> HIDE DEF s
<1>3. ASSUME NEW label \in Text
      PROVE  LET d == SavePoint(s, label)
             IN /\ d \in ThreadDataType /\ d.buffer = td[Main].buffer
                /\ d.point_list = Append(Points, s.cur_point)
                /\ Held(d) /\ d.cur_point.start = 0 /\ d.cur_point.end = 0
  <2>1. /\ SavePoint(s, label).point_list = Append(s.point_list, s.cur_point)
        /\ SavePoint(s, label).cur_point = Reset(s.cur_point)
    BY <1>2 DEF SavePoint, ThreadDataType
  <2>2. Reset(s.cur_point).start = 0 /\ Reset(s.cur_point).end = 0
    BY <1>2 DEF Reset, Point, ThreadDataType
  <2> QED
    BY <1>2, <2>1, <2>2, PointOpType, PointsStartEmpty
<1>4. CASE EventRoiEnd
  <2> DEFINE label == GetLabel(opt.roi_start, Head(open))
  <2>1. at # "app" => Head(open) \in Text
    BY LabelType DEF InCallbackOpen
  <2>2. label \in Text
    BY <1>4, <2>1, LabelType DEF EventRoiEnd, InCallback, GetLabel
  <2>3. InCallback("end") /\ RoiEnd(SavePoint(s, label)) /\ ~Merged(opt)
    BY <1>4 DEF EventRoiEnd, Merged, s
  <2> HIDE DEF label
  <2> QED
    BY <1>3, <2>2, <2>3 DEF s
<1>5. CASE SymbolRoiEndSeparate
  <2>1. InCallback("end") /\ RoiEnd(SavePoint(s, AssignedLabel)) /\ ~Merged(opt)
    BY <1>5 DEF SymbolRoiEndSeparate, Merged, s
  <2> QED
    BY <1>3, <2>1, LabelType DEF s
<1>6. CASE SymbolRoiEndMerged
  BY <1>2, <1>6 DEF SymbolRoiEndMerged, s
<1> QED
  BY <1>4, <1>5, <1>6 DEF EndCallback

\* While Main runs, the flag is up exactly while the meter measures.
LEMMA FlagIsMeasuring ==
  ASSUME TypeOK, InCallbackOpen, Unnested, RoiFlagTracksRegion,
         phase[Main] = "running", process # "aborted"
  PROVE  /\ in_roi <=> Measuring
         /\ at = "init" => ~in_roi
         /\ at = "end" => in_roi
         /\ open = <<>> => ~in_roi
         /\ at = "app" /\ open # <<>> => in_roi
<1>1. in_roi <=> OpenRegions > 0
  BY DEF RoiFlagTracksRegion
<1>2. at # "app" => Len(open) = 1
  BY OneOpen
<1>3. open = <<>> => Len(open) = 0
  BY EmptySeq
<1>4. open # <<>> => Len(open) # 0 /\ Len(open) \in Nat
  BY EmptySeq DEF TypeOK
<1>5. at = "init" => OpenRegions = 0
  BY <1>2 DEF OpenRegions
<1>6. at = "end" => OpenRegions = 1
  BY <1>2 DEF OpenRegions
<1>7. open = <<>> => OpenRegions = 0
  BY <1>2, <1>3 DEF OpenRegions
<1>8. at = "app" /\ open # <<>> => OpenRegions > 0
  BY <1>4 DEF OpenRegions
<1> QED
  BY <1>1, <1>5, <1>6, <1>7, <1>8 DEF Measuring, Running

Idle(t) == ThreadInit(t) \/ ExitGroup(t) \/ (t # Main /\ \E b \in Blocks : ExecuteBlock(t, b))
\* The steps in which Main's data, point and regions are left alone.
LEMMA IdleSteps ==
  ASSUME TypeOK, NothingBeforeInit,
         \/ \E t \in Threads : Idle(t)
         \/ Tick \/ EventExit \/ RoiInitAbort \/ UNCHANGED vars
  PROVE  /\ UNCHANGED <<opt, at, open, block, ran, new_point_only_once, out_file>>
         /\ in_roi' = in_roi \/ ~Merged(opt)
         /\ td'[Main] = td[Main]
         /\ UNCHANGED now \/ Tick
         /\ \/ UNCHANGED phase
            \/ \E t \in Threads : /\ phase[t] = "unborn"
                                  /\ phase' = [phase EXCEPT ![t] = "running"]
<1>0. td \in [Threads -> ThreadDataType] /\ Main \in Threads
  BY ConstantTypes DEF TypeOK
<1>1. ASSUME NEW t \in Threads, ThreadInit(t) PROVE td'[Main] = td[Main]
  BY <1>0, <1>1 DEF ThreadInit, NothingBeforeInit
<1>2. ASSUME NEW t \in Threads, Idle(t) PROVE td'[Main] = td[Main]
  BY <1>0, <1>1, <1>2 DEF Idle, ExitGroup, ExecuteBlock
<1>3. ASSUME NEW t \in Threads, Idle(t)
      PROVE  /\ UNCHANGED <<opt, at, open, block, ran, new_point_only_once, out_file,
                            in_roi, now>>
             /\ \/ UNCHANGED phase
                \/ phase[t] = "unborn" /\ phase' = [phase EXCEPT ![t] = "running"]
  <2>1. CASE ThreadInit(t)
    BY <2>1 DEF ThreadInit, statics, app
  <2>2. CASE ExitGroup(t)
    BY <2>2 DEF ExitGroup, statics, app
  <2>3. CASE t # Main /\ \E b \in Blocks : ExecuteBlock(t, b)
    BY <2>3 DEF ExecuteBlock, statics
  <2> QED
    BY <1>3, <2>1, <2>2, <2>3 DEF Idle
<1>4. CASE Tick \/ EventExit \/ UNCHANGED vars
  BY <1>4 DEF Tick, EventExit, vars, statics, app
<1>5. CASE RoiInitAbort
  BY <1>5 DEF RoiInitAbort, app, Merged
<1> QED
  BY <1>2, <1>3, <1>4, <1>5

\* Every step keeps the invariant.
LEMMA PreparedStep ==
  ASSUME Exact, TypeOK, TypeOK', InCallbackOpen, Unnested, RoiFlagTracksRegion,
         NothingBeforeInit, Prepared, [Next]_vars
  PROVE  Prepared'
<1>0. td[Main] \in ThreadDataType /\ opt \in Option /\ Main \in Threads
  BY ConstantTypes DEF TypeOK
<1>1. CASE \/ \E t \in Threads : Idle(t)
           \/ Tick \/ EventExit \/ RoiInitAbort \/ UNCHANGED vars
  <2>1. /\ UNCHANGED <<opt, at, open, block, new_point_only_once, out_file>>
        /\ in_roi' = in_roi \/ ~Merged(opt)
        /\ td'[Main] = td[Main]
    BY <1>1, IdleSteps
  <2>2. phase'[Main] \in {phase[Main], "running"} /\ (phase[Main] = "exited" => phase'[Main] = "exited")
    BY <1>0, <1>1, IdleSteps DEF TypeOK
  <2> QED
    BY <2>1, <2>2, PreparedSame DEF MainDocuments
<1>2. ASSUME NEW b \in Blocks, ExecuteBlock(Main, b) PROVE Prepared'
  <2>1. b \in Block /\ (b.excl => b.fp = 0) /\ ~opt.time_run
    BY <1>2, ConstantTypes DEF Exact, ExecuteBlock
  <2>2. td'[Main] = BlockRest(BlockEntry(td[Main], b), b)
    BY <1>2, ConstantTypes DEF ExecuteBlock, TypeOK
  <2>3. ~in_roi => td'[Main].cur_point = td[Main].cur_point
    BY <1>0, <2>1, <2>2, BlockGathers
  <2> QED
    BY <1>2, <2>1, <2>3
    DEF ExecuteBlock, CanExecute, statics, Prepared, Held, MainDocuments, Merged
<1>3. ASSUME NEW b \in DelimBlocks, (\E l \in Labels : EnterStart(b, l)) \/ EnterEnd(b)
      PROVE  Prepared'
  BY <1>3, PreparedEnter DEF EnterStart, EnterEnd, CanExecute, statics
<1>4. CASE StartCallback
  <2>1. PICK d \in ThreadDataType :
          /\ RoiInit(d) /\ d.buffer = td[Main].buffer
          /\ ~Merged(opt) => Held(d)
    BY <1>4, StartedPoint
  <2>2. InCallback("init") /\ (Merged(opt) => new_point_only_once')
    BY <1>4, StartedPoint
  <2>3. opt.time_run => Empty(d)
    BY <1>0, <2>1 DEF Prepared, Empty, Exact, TypeOK
  <2> QED
    BY <2>1, <2>2, <2>3, PreparedStart DEF InCallback
<1>5. CASE EndCallback
  <2>1. PICK d \in ThreadDataType :
          /\ RoiEnd(d) /\ d.buffer = td[Main].buffer
          /\ ~Merged(opt) => Held(d)
    BY <1>5, SavedPoint
  <2>2. InCallback("end")
    BY <1>5, SavedPoint
  <2>3. in_roi
    BY <2>2, FlagIsMeasuring DEF InCallback
  <2>4. opt.time_run => Empty(d)
    BY <1>0, <2>1 DEF Prepared, Empty, Exact, TypeOK
  <2> QED
    BY <2>1, <2>2, <2>3, <2>4, PreparedEnd DEF InCallback
<1>6. ASSUME NEW t \in Threads, ThreadExit(t) PROVE Prepared'
  BY <1>6, PreparedExit
<1> QED
  BY <1>1, <1>2, <1>3, <1>4, <1>5, <1>6
  DEF Next, Terminated, Idle, StartCallback, EndCallback

\* What the refinement rests on, as an invariant of the client.
Sound == /\ TypeOK /\ InCallbackOpen /\ Unnested /\ RoiFlagTracksRegion
         /\ NothingBeforeInit /\ Prepared

\* What the refinement needs of a state holds in every state.
LEMMA AlwaysSound ==
  ASSUME MaxDepth = 1, Exact
  PROVE  Spec => []Sound
<1> DEFINE Inv == Unnested /\ NothingBeforeInit /\ Prepared
<1>1. Init => Inv
  <2> SUFFICES ASSUME Init PROVE Inv
    OBVIOUS
  <2>1. Unnested
    BY EmptySeq DEF Init, Unnested
  <2>2. td[Main] = NewThreadData /\ phase[Main] = "unborn"
    BY ConstantTypes DEF Init
  <2>3. Empty(td[Main])
    BY <2>2 DEF Empty, Held, NewThreadData, InitPoint
  <2>4. MainDocuments = {}
    BY EmptySeq DEF Init, MainDocuments
  <2> QED
    BY <2>1, <2>2, <2>3, <2>4 DEF Init, NothingBeforeInit, Prepared, Empty
<1>2. (TypeOK /\ InCallbackOpen) /\ (TypeOK /\ InCallbackOpen)' /\ RoiFlagTracksRegion
        /\ Inv /\ [Next]_vars => Inv'
  BY UnnestedStep, NothingBeforeInitStep, PreparedStep
<1>3. Spec => []RoiFlagTracksRegion
  BY RoiFlag
<1>4. (TypeOK /\ InCallbackOpen) /\ RoiFlagTracksRegion /\ Inv => Sound
  BY DEF Sound
<1> QED
  BY <1>1, <1>2, <1>3, <1>4, Basics, PTL DEF Spec
-----------------------------------------------------------------------------
(***************************************************************************)
(* The mapping, spelled out.  The meter's variables depend on Main's data  *)
(* and on the documents; a report is written element by element.           *)
(***************************************************************************)
MeterReport == Report(SaveToFile(Points, opt.time_run))
MeterOutput == [i \in MainDocuments |-> Report(out_file[i].points)]
PointAmount(p, timing) ==
  IF timing THEN [flops |-> 0, bytes |-> 0, time |-> p.end - p.start]
            ELSE [flops |-> p.flops, bytes |-> p.bytes, time |-> 0]

\* The amount measured so far, in a run that counts and in a timing run.
MeasuredSoFar ==
  /\ Running /\ ~opt.time_run =>
       Meas = [flops |-> Current.flops,
               bytes |-> IF Measuring THEN Gathered(td[Main]) ELSE Current.bytes,
               time |-> 0]
  /\ Running /\ opt.time_run /\ Empty(td[Main]) =>
       Meas = [flops |-> 0, bytes |-> 0,
               time |-> (IF Measuring THEN now ELSE Current.end) - Current.start]
  /\ ~Running => Meas = [flops |-> 0, bytes |-> 0, time |-> 0]

\* The meter's reading, from the point and the buffer.
LEMMA MeasuredIs == TypeOK => MeasuredSoFar
<1> SUFFICES ASSUME TypeOK PROVE MeasuredSoFar
  OBVIOUS
<1>1. td[Main].cur_point \in Point /\ td[Main].buffer \in Refs
  BY ConstantTypes DEF TypeOK, ThreadDataType
<1>2. /\ Current.bytes \in Nat /\ Current.flops \in Nat
      /\ td[Main].buffer.rd \in Nat /\ td[Main].buffer.wr \in Nat
  BY <1>1 DEF Current, Point, Refs
<1>3. Current.bytes + (td[Main].buffer.rd + td[Main].buffer.wr) = Gathered(td[Main])
  BY <1>2 DEF Gathered, Current
<1>4. Current.bytes + 0 = Current.bytes
  BY <1>2
<1>5. ASSUME Empty(td[Main])
      PROVE  Current.flops = 0 /\ Current.bytes = 0 /\ Pending = 0
  BY <1>5 DEF Empty, Held, Current, Pending, NoRefs
<1> QED
  BY <1>3, <1>4, <1>5 DEF MeasuredSoFar, Meas, Pending, Elapsed

\* The numbers that the mapping adds up.
Numbers == /\ Current.bytes \in Nat /\ Current.flops \in Nat
           /\ Current.start \in Nat /\ Current.end \in Nat
           /\ Gathered(td[Main]) \in Nat /\ Gathered(td[Main]) >= Current.bytes
           /\ td[Main].buffer = NoRefs => Gathered(td[Main]) = Current.bytes
           /\ ran.flops \in Nat /\ ran.bytes \in Nat /\ now \in Nat
\* A state of the right types has them.
LEMMA MeterNumbers == TypeOK => Numbers
<1> SUFFICES ASSUME TypeOK PROVE Numbers
  OBVIOUS
<1>1. td[Main].cur_point \in Point /\ td[Main].buffer \in Refs
  BY ConstantTypes DEF TypeOK, ThreadDataType
<1>2. /\ Current.bytes \in Nat /\ Current.flops \in Nat
      /\ Current.start \in Nat /\ Current.end \in Nat
      /\ td[Main].buffer.rd \in Nat /\ td[Main].buffer.wr \in Nat
  BY <1>1 DEF Current, Point, Refs
<1>3. ran.flops \in Nat /\ ran.bytes \in Nat /\ now \in Nat
  BY DEF TypeOK
<1> QED
  BY <1>2, <1>3 DEF Numbers, Gathered, Current, NoRefs

\* The report of a list of points lists their amounts, whatever their names.
LEMMA ReportIs ==
  ASSUME NEW list \in Seq(Point), opt.time_run \in BOOLEAN
  PROVE  Report(SaveToFile(list, opt.time_run))
           = [i \in 1 .. Len(list) |-> PointAmount(list[i], opt.time_run)]
<1>1. DOMAIN SaveToFile(list, opt.time_run) = 1 .. Len(list)
  BY DEF SaveToFile
<1>2. ASSUME NEW i \in 1 .. Len(list)
      PROVE  Amount(SaveToFile(list, opt.time_run)[i]) = PointAmount(list[i], opt.time_run)
  BY DEF SaveToFile, DumpInfo, Amount, PointAmount
<1> QED
  BY <1>1, <1>2 DEF Report

\* A point more is an entry more.
LEMMA ReportGrows ==
  ASSUME NEW list \in Seq(Point), NEW p \in Point, opt.time_run \in BOOLEAN
  PROVE  /\ Report(SaveToFile(Append(list, p), opt.time_run))
              = Append(Report(SaveToFile(list, opt.time_run)), PointAmount(p, opt.time_run))
         /\ Len(Report(SaveToFile(list, opt.time_run))) = Len(list)
<1> DEFINE timing == opt.time_run
           old == [i \in 1 .. Len(list) |-> PointAmount(list[i], timing)]
           more == Append(list, p)
<1>1. more \in Seq(Point) /\ Len(more) = Len(list) + 1 /\ Len(list) \in Nat
  OBVIOUS
<1>2. /\ \A i \in 1 .. Len(list) : more[i] = list[i]
      /\ more[Len(list) + 1] = p
  OBVIOUS
<1>3. Report(SaveToFile(list, timing)) = old
  BY ReportIs
<1>4. Report(SaveToFile(more, timing)) = [i \in 1 .. Len(more) |-> PointAmount(more[i], timing)]
  BY <1>1, ReportIs
<1>5. /\ Len(old) = Len(list)
      /\ Append(old, PointAmount(p, timing))
           = [i \in 1 .. Len(list) + 1 |-> IF i = Len(list) + 1 THEN PointAmount(p, timing) ELSE old[i]]
  BY <1>1
<1> QED
  BY <1>1, <1>2, <1>3, <1>4, <1>5
-----------------------------------------------------------------------------
(***************************************************************************)
(* Every step of the client is a step of the meter, or changes nothing it  *)
(* shows.                                                                  *)
(***************************************************************************)
MeterStep == Meter!Next \/ UNCHANGED Meter!meter

\* Without a new point the report stays, without a document the output does.
LEMMA SameReport ==
  ASSUME opt' = opt
  PROVE  /\ UNCHANGED Merged(opt)
         /\ Points' = Points => UNCHANGED MeterReport
         /\ out_file' = out_file => UNCHANGED MeterOutput
<1>1. Points' = Points => UNCHANGED MeterReport
  BY DEF MeterReport, Report, Amount
<1>2. out_file' = out_file => UNCHANGED MeterOutput
  BY DEF MeterOutput, MainDocuments, Report, Amount
<1> QED
  BY <1>1, <1>2 DEF Merged

\* What the meter's variables are, by name.
LEMMA MeterVars ==
  Meter!meter = <<Merged(opt), Executed, Measuring, Meas, MeterReport, MeterOutput>>
BY DEF Meter!meter, MeterReport, MeterOutput

\* The clock, the exit of the process, other threads and thread creation.
LEMMA IdleMeter ==
  ASSUME Sound, TypeOK',
         \/ \E t \in Threads : Idle(t)
         \/ Tick \/ EventExit \/ RoiInitAbort \/ UNCHANGED vars
  PROVE  MeterStep
<1>0. TypeOK /\ NothingBeforeInit /\ Prepared /\ Numbers /\ MeasuredSoFar
  BY MeterNumbers, MeasuredIs DEF Sound
<1>1. MeasuredSoFar'
  BY MeasuredIs, PTL
<1>2. /\ UNCHANGED <<opt, at, open, block, ran, new_point_only_once, out_file>>
      /\ td'[Main] = td[Main]
      /\ UNCHANGED now \/ Tick
      /\ \/ UNCHANGED phase
         \/ \E t \in Threads : /\ phase[t] = "unborn"
                               /\ phase' = [phase EXCEPT ![t] = "running"]
  BY <1>0, IdleSteps
<1>3. UNCHANGED <<Merged(opt), MeterReport, MeterOutput>>
  BY <1>2, SameReport DEF Points
<1>4. CASE Tick
  <2>1. opt.time_run /\ now' = now + 1 /\ UNCHANGED phase
    BY <1>4 DEF Tick
  <2>2. UNCHANGED <<Running, Measuring, Current>> /\ Empty(td[Main])
    BY <1>0, <1>2, <2>1 DEF Running, Measuring, OpenRegions, Current, Prepared
  <2>3. Empty(td[Main])'
    BY <1>2, <2>2 DEF Empty, Held
  <2>4. /\ Executed = [flops |-> 0, bytes |-> 0, time |-> now]
        /\ Executed' = [flops |-> 0, bytes |-> 0, time |-> now + 1]
    BY <1>2, <2>1 DEF Executed
  <2>5. CASE Measuring
    <3>0. Running /\ Running' /\ Measuring'
      BY <2>2, <2>5 DEF Measuring
    <3>1. Meas = [flops |-> 0, bytes |-> 0, time |-> now - Current.start]
      BY <1>0, <2>1, <2>2, <2>5, <3>0 DEF MeasuredSoFar
    <3>2. Meas' = [flops |-> 0, bytes |-> 0, time |-> now' - Current'.start]
      BY <1>1, <1>2, <2>1, <2>3, <3>0 DEF MeasuredSoFar
    <3>3. Meas' = Meter!Plus(Meas, Meter!Minus(Executed', Executed))
      BY <1>0, <2>1, <2>2, <2>4, <3>1, <3>2 DEF Meter!Plus, Meter!Minus, Numbers
    <3> QED
      BY <1>3, <2>2, <2>5, <3>3 DEF MeterStep, Meter!Next, Meter!Work, MeterReport, MeterOutput
  <2>6. CASE ~Measuring
    <3>1. Meas' = Meas
      BY <1>0, <1>1, <1>2, <2>1, <2>2, <2>3, <2>6 DEF MeasuredSoFar
    <3> QED
      BY <1>3, <2>2, <2>6, <3>1 DEF MeterStep, Meter!Next, Meter!Rest, MeterReport, MeterOutput
  <2> QED
    BY <2>5, <2>6
<1>5. CASE UNCHANGED now /\ phase'[Main] = phase[Main]
  <2>1. UNCHANGED <<Running, Measuring, Current, Executed>>
    BY <1>2, <1>5 DEF Running, Measuring, OpenRegions, Current, Executed
  <2>2. Meas' = Meas
    BY <1>2, <1>5, <2>1 DEF Meas, Pending, Elapsed
  <2> QED
    BY <1>3, <2>1, <2>2, MeterVars DEF MeterStep, Meter!meter, MeterReport, MeterOutput
<1>6. CASE UNCHANGED now /\ phase[Main] = "unborn"
  <2>1. td[Main] = NewThreadData /\ at = "app" /\ open = <<>>
    BY <1>0, <1>6 DEF NothingBeforeInit, Prepared
  <2>2. ~Measuring /\ ~Measuring' /\ UNCHANGED Measuring
    BY <1>2, <2>1, EmptySeq DEF Measuring, OpenRegions
  <2>3. Meas = [flops |-> 0, bytes |-> 0, time |-> 0]
    BY <1>6 DEF Meas, Running
  <2>4. Empty(td[Main]) /\ Current.end - Current.start = 0 /\ Current.flops = 0 /\ Current.bytes = 0
    BY <2>1 DEF Empty, Held, Current, NewThreadData, InitPoint
  <2>5. Empty(td[Main])' /\ UNCHANGED Current
    BY <1>2, <2>4 DEF Empty, Held, Current
  <2>6. Meas' = [flops |-> 0, bytes |-> 0, time |-> 0]
    BY <1>1, <2>2, <2>4, <2>5 DEF MeasuredSoFar
  <2>7. UNCHANGED Executed
    BY <1>2, <1>6 DEF Executed
  <2> QED
    BY <1>3, <2>2, <2>3, <2>6, <2>7, MeterVars DEF MeterStep, Meter!meter, MeterReport, MeterOutput
<1>7. phase'[Main] = phase[Main] \/ phase[Main] = "unborn"
  BY <1>0, <1>2, ConstantTypes DEF TypeOK
<1> QED
  BY <1>2, <1>4, <1>5, <1>6, <1>7
\* Main executes a block: the meter advances inside a region and rests
\* outside.
LEMMA BlockMeter ==
  ASSUME Exact, Sound, TypeOK', NEW b \in Blocks, ExecuteBlock(Main, b)
  PROVE  MeterStep
<1> DEFINE fp == b.fp
           bytes == Wanted(opt, b.head) + Wanted(opt, b.body)
<1>0. TypeOK /\ Numbers /\ MeasuredSoFar /\ td[Main] \in ThreadDataType /\ opt \in Option
  BY MeterNumbers, MeasuredIs, ConstantTypes DEF Sound, TypeOK
<1>1. MeasuredSoFar' /\ Numbers'
  BY MeasuredIs, MeterNumbers, PTL
<1>2. /\ UNCHANGED <<opt, phase, at, open, out_file>> /\ ~opt.time_run
      /\ process = "running" /\ phase[Main] = "running"
      /\ ran' = RanBlock(b)
  BY DEF ExecuteBlock, CanExecute
<1>3. b \in Block /\ (b.excl => b.fp = 0) /\ b.fp \in Nat
      /\ Wanted(opt, b.head) \in Nat /\ Wanted(opt, b.body) \in Nat
  BY <1>0, ConstantTypes, RecordedType DEF Exact, Block
<1>4. td'[Main] = BlockRest(BlockEntry(td[Main], b), b)
  BY <1>0, ConstantTypes DEF ExecuteBlock, TypeOK
<1>5. /\ Points' = Points
      /\ ~in_roi => Current' = Current
      /\ in_roi => /\ Gathered(td'[Main])
                        = Gathered(td[Main]) + Wanted(opt, b.head) + Wanted(opt, b.body)
                   /\ Current'.flops = Current.flops + b.fp
  BY <1>0, <1>2, <1>3, <1>4, BlockGathers DEF Points, Current
<1>6. UNCHANGED <<Merged(opt), MeterReport, MeterOutput>>
  BY <1>2, <1>5, SameReport
<1>7. /\ UNCHANGED <<Running, Measuring>> /\ Running /\ (in_roi <=> Measuring)
  BY <1>2, FlagIsMeasuring DEF Running, Measuring, OpenRegions, Sound
<1>8. /\ Executed = [flops |-> ran.flops, bytes |-> ran.bytes, time |-> 0]
      /\ Executed' = [flops |-> ran.flops + fp, bytes |-> ran.bytes + bytes, time |-> 0]
  <2>1. ran \in [flops : Nat, bytes : Nat]
    BY <1>0 DEF TypeOK
  <2>2. ran'.flops = ran.flops + b.fp
        /\ ran'.bytes = ran.bytes + Wanted(opt, b.head) + Wanted(opt, b.body)
    BY <1>2, <2>1 DEF RanBlock
  <2>3. ran.bytes + Wanted(opt, b.head) + Wanted(opt, b.body) = ran.bytes + bytes
    BY <1>3, <2>1
  <2> QED
    BY <1>2, <2>2, <2>3 DEF Executed
<1>9. CASE in_roi
  <2>1. Meas = [flops |-> Current.flops, bytes |-> Gathered(td[Main]), time |-> 0]
    BY <1>0, <1>2, <1>7, <1>9 DEF MeasuredSoFar
  <2>2. Meas' = [flops |-> Current'.flops, bytes |-> Gathered(td'[Main]), time |-> 0]
    BY <1>1, <1>2, <1>7, <1>9 DEF MeasuredSoFar
  <2>3. Meas' = Meter!Plus(Meas, Meter!Minus(Executed', Executed))
    BY <1>0, <1>3, <1>5, <1>8, <1>9, <2>1, <2>2 DEF Meter!Plus, Meter!Minus, Numbers
  <2> QED
    BY <1>6, <1>7, <1>9, <2>3 DEF MeterStep, Meter!Next, Meter!Work, MeterReport, MeterOutput
<1>10. CASE ~in_roi
  <2>1. Meas = [flops |-> Current.flops, bytes |-> Current.bytes, time |-> 0]
    BY <1>0, <1>2, <1>7, <1>10 DEF MeasuredSoFar
  <2>2. Meas' = [flops |-> Current.flops, bytes |-> Current.bytes, time |-> 0]
    BY <1>1, <1>2, <1>5, <1>7, <1>10 DEF MeasuredSoFar
  <2> QED
    BY <1>6, <1>7, <1>10, <2>1, <2>2 DEF MeterStep, Meter!Next, Meter!Rest, MeterReport, MeterOutput
<1> QED
  BY <1>9, <1>10

\* Main enters a delimiter: its clean call adds what the region before it did.
LEMMA EnterMeter ==
  ASSUME MaxDepth = 1, Exact, Sound, TypeOK', NEW b \in DelimBlocks,
         (\E l \in Labels : EnterStart(b, l)) \/ EnterEnd(b)
  PROVE  MeterStep
<1>0. /\ TypeOK /\ Numbers /\ MeasuredSoFar /\ Prepared
      /\ td[Main] \in ThreadDataType /\ opt \in Option /\ opt.time_run \in BOOLEAN
  BY MeterNumbers, MeasuredIs, ConstantTypes DEF Sound, TypeOK, Option
<1>1. MeasuredSoFar' /\ Numbers'
  BY MeasuredIs, MeterNumbers, PTL
<1>2. /\ UNCHANGED <<opt, phase, out_file, now>> /\ at = "app"
      /\ process = "running" /\ phase[Main] = "running"
      /\ ran' = RanEntry(b) /\ td'[Main] = BlockEntry(td[Main], b)
  BY <1>0, ConstantTypes DEF EnterStart, EnterEnd, CanExecute, TypeOK
<1>3. b \in Block /\ ~b.excl /\ b.fp = 0 /\ Wanted(opt, b.head) \in Nat
  BY <1>0, ConstantTypes, RecordedType DEF Exact, Block
<1>4. Running /\ Running' /\ UNCHANGED Measuring
  <2>1. CASE \E l \in Labels : EnterStart(b, l)
    <3>1. PICK l \in Labels : EnterStart(b, l)
      BY <2>1
    <3>2. open \in Seq(Labels) /\ Len(<<l>> \o open) = Len(open) + 1
      BY <1>0, ConcatProperties DEF TypeOK
    <3>3. at' = "init" /\ open' = <<l>> \o open
      BY <3>1 DEF EnterStart
    <3> QED
      BY <1>2, <3>2, <3>3 DEF Running, Measuring, OpenRegions
  <2>2. CASE EnterEnd(b)
    BY <1>2, <2>2 DEF EnterEnd, Running, Measuring, OpenRegions
  <2> QED
    BY <2>1, <2>2
<1>5. in_roi <=> Measuring
  BY <1>2, FlagIsMeasuring DEF Sound
<1>6. CASE opt.time_run
  <2>1. td'[Main] = td[Main] /\ Empty(td[Main])
    BY <1>0, <1>2, <1>6, NothingInserted DEF Prepared
  <2>2. UNCHANGED <<Merged(opt), MeterReport, MeterOutput, Executed>>
    BY <1>2, <1>6, <2>1, SameReport DEF Points, Executed
  <2>3. Meas' = Meas
    BY <1>2, <1>4, <2>1 DEF Meas, Pending, Elapsed, Current
  <2> QED
    BY <1>4, <2>2, <2>3, MeterVars DEF MeterStep, Meter!meter, MeterReport, MeterOutput
<1>7. CASE ~opt.time_run
  <2>1. /\ Points' = Points
        /\ ~in_roi => Current' = Current
        /\ in_roi => /\ Gathered(td'[Main]) = Gathered(td[Main]) + Wanted(opt, b.head)
                     /\ Current'.flops = Current.flops
    BY <1>0, <1>2, <1>3, <1>7, EntryGathers DEF Points, Current, Numbers
  <2>2. UNCHANGED <<Merged(opt), MeterReport, MeterOutput>>
    BY <1>2, <2>1, SameReport
  <2>3. /\ Executed = [flops |-> ran.flops, bytes |-> ran.bytes, time |-> 0]
        /\ Executed' = [flops |-> ran.flops, bytes |-> ran.bytes + Wanted(opt, b.head), time |-> 0]
    BY <1>0, <1>2, <1>3, <1>7 DEF Executed, RanEntry, Numbers, TypeOK
  <2>4. CASE in_roi
    <3>1. Meas = [flops |-> Current.flops, bytes |-> Gathered(td[Main]), time |-> 0]
      BY <1>0, <1>4, <1>5, <1>7, <2>4 DEF MeasuredSoFar
    <3>2. Meas' = [flops |-> Current'.flops, bytes |-> Gathered(td'[Main]), time |-> 0]
      BY <1>1, <1>2, <1>4, <1>5, <1>7, <2>4 DEF MeasuredSoFar
    <3>3. Meas' = Meter!Plus(Meas, Meter!Minus(Executed', Executed))
      BY <1>0, <1>3, <2>1, <2>3, <2>4, <3>1, <3>2 DEF Meter!Plus, Meter!Minus, Numbers
    <3> QED
      BY <1>4, <1>5, <2>2, <2>4, <3>3
      DEF MeterStep, Meter!Next, Meter!Work, MeterReport, MeterOutput
  <2>5. CASE ~in_roi
    <3>1. Meas = [flops |-> Current.flops, bytes |-> Current.bytes, time |-> 0]
      BY <1>0, <1>4, <1>5, <1>7, <2>5 DEF MeasuredSoFar
    <3>2. Meas' = [flops |-> Current.flops, bytes |-> Current.bytes, time |-> 0]
      BY <1>1, <1>2, <1>4, <1>5, <1>7, <2>1, <2>5 DEF MeasuredSoFar
    <3> QED
      BY <1>4, <1>5, <2>2, <2>5, <3>1, <3>2
      DEF MeterStep, Meter!Next, Meter!Rest, MeterReport, MeterOutput
  <2> QED
    BY <2>4, <2>5
<1> QED
  BY <1>0, <1>6, <1>7
\* A start callback: the meter begins, from zero or from the merged amount.
LEMMA StartMeter ==
  ASSUME Exact, Sound, TypeOK', StartCallback
  PROVE  MeterStep
<1>0. /\ TypeOK /\ Numbers /\ MeasuredSoFar /\ Prepared /\ InCallbackOpen /\ Unnested
      /\ td[Main] \in ThreadDataType /\ opt \in Option /\ opt.time_run \in BOOLEAN
  BY MeterNumbers, MeasuredIs, ConstantTypes DEF Sound, TypeOK, Option
<1>1. MeasuredSoFar' /\ Numbers'
  BY MeasuredIs, MeterNumbers, PTL
<1>2. PICK d \in ThreadDataType :
        /\ RoiInit(d) /\ d.buffer = td[Main].buffer /\ d.point_list = Points
        /\ ~Merged(opt) => Held(d)
        /\ Merged(opt) => d.cur_point.flops = Current.flops /\ d.cur_point.bytes = Current.bytes
  BY <1>0, StartedPoint
<1>3. at = "init" /\ phase[Main] = "running" /\ process = "running"
  BY <1>0, StartedPoint DEF InCallback
<1>4. /\ UNCHANGED <<opt, phase, open, out_file, now>> /\ at' = "app"
      /\ ran' = RanRest(block)
      /\ td'[Main] = BlockRest(StartTime(d), block)
  BY <1>0, <1>2, ConstantTypes DEF RoiInit, Resume, TypeOK
<1>5. /\ block \in Block /\ block.fp = 0 /\ Wanted(opt, block.body) \in Nat
      /\ td[Main].buffer = NoRefs
  BY <1>0, <1>3, ConstantTypes, RecordedType DEF Prepared, Exact, Block
<1>6. Running /\ Running' /\ ~Measuring /\ Measuring'
  <2>1. Len(open) = 1
    BY <1>0, <1>3, OneOpen
  <2> QED
    BY <1>3, <1>4, <2>1 DEF Running, Measuring, OpenRegions
<1>7. MeterOutput = <<>> /\ Points' = Points
  <2>1. MainDocuments = {}
    BY <1>0, <1>3 DEF Prepared
  <2>2. MeterOutput = <<>>
    BY <2>1 DEF MeterOutput
  <2>3. StartTime(d) \in ThreadDataType /\ StartTime(d).point_list = d.point_list
    <3>1. <<>> \in Text
      BY DEF Text
    <3> QED
      BY <1>0, <3>1, PointOpType, InsertedCodeKeepsLabels DEF StartTime, SameLabels, Numbers
  <2>4. BlockRest(StartTime(d), block).point_list = StartTime(d).point_list
    BY <2>3, InsertedCodeKeepsLabels DEF SameLabels
  <2> QED
    BY <1>2, <1>4, <2>2, <2>3, <2>4 DEF Points
<1>8. UNCHANGED <<Merged(opt), MeterReport, MeterOutput>>
  BY <1>4, <1>7, SameReport
<1>9. CASE opt.time_run
  <2>1. ~Merged(opt) /\ Held(d) /\ d.buffer = NoRefs
    BY <1>0, <1>2, <1>5, <1>9 DEF Exact, TypeOK
  <2>2. td'[Main] = SetTimeStart(d, now)
    BY <1>4, <1>9, NothingInserted DEF StartTime
  <2>3. Current'.start = now
    BY <2>2 DEF Current, SetTimeStart, ThreadDataType, Point
  <2>4. Empty(td'[Main])
    <3>1. <<>> \in Text
      BY DEF Text
    <3> QED
      BY <1>0, <2>1, <2>2, <3>1, PointsStartEmpty DEF Empty, Numbers
  <2>5. Meas' = [flops |-> 0, bytes |-> 0, time |-> now' - Current'.start]
    BY <1>1, <1>4, <1>6, <1>9, <2>4 DEF MeasuredSoFar
  <2>6. Meas' = [flops |-> 0, bytes |-> 0, time |-> 0]
    BY <1>0, <1>4, <2>3, <2>5 DEF Numbers
  <2>7. /\ Executed = [flops |-> 0, bytes |-> 0, time |-> now]
        /\ Executed' = [flops |-> 0, bytes |-> 0, time |-> now]
    BY <1>4, <1>9 DEF Executed
  <2>8. Meas' = Meter!Plus(Meter!Zero, Meter!Minus(Executed', Executed))
    BY <1>0, <2>6, <2>7 DEF Meter!Plus, Meter!Minus, Meter!Zero, Numbers
  <2> QED
    BY <1>6, <1>7, <1>8, <2>1, <2>8
    DEF MeterStep, Meter!Next, Meter!Begin, MeterReport, MeterOutput
<1>10. CASE ~opt.time_run
  <2>1. td'[Main] = BlockRest(d, block)
    BY <1>4, <1>10 DEF StartTime
  <2>2. /\ Gathered(td'[Main]) = Gathered(d) + Wanted(opt, block.body)
        /\ Current'.flops = d.cur_point.flops
    BY <1>0, <1>5, <1>10, <2>1, RestGathers DEF Current
  <2>3. d.cur_point.bytes \in Nat /\ d.cur_point.flops \in Nat
    BY DEF ThreadDataType, Point
  <2>4. Gathered(d) = d.cur_point.bytes
    BY <1>2, <1>5, <2>3 DEF Gathered, NoRefs
  <2>5. Meas' = [flops |-> d.cur_point.flops,
                 bytes |-> d.cur_point.bytes + Wanted(opt, block.body), time |-> 0]
    BY <1>1, <1>4, <1>6, <1>10, <2>2, <2>4 DEF MeasuredSoFar
  <2>6. Meas = [flops |-> Current.flops, bytes |-> Current.bytes, time |-> 0]
    BY <1>0, <1>6, <1>10 DEF MeasuredSoFar
  <2>7. /\ Executed = [flops |-> ran.flops, bytes |-> ran.bytes, time |-> 0]
        /\ Executed' = [flops |-> ran.flops,
                        bytes |-> ran.bytes + Wanted(opt, block.body), time |-> 0]
    BY <1>0, <1>4, <1>5, <1>10 DEF Executed, RanRest, Numbers, TypeOK
  <2>8. Meter!Minus(Executed', Executed)
          = [flops |-> 0, bytes |-> Wanted(opt, block.body), time |-> 0]
    BY <1>0, <1>5, <2>7 DEF Meter!Minus, Numbers
  <2>9. Meas' = Meter!Plus(IF Merged(opt) THEN Meas ELSE Meter!Zero,
                           Meter!Minus(Executed', Executed))
    <3>1. CASE Merged(opt)
      BY <1>0, <1>2, <1>5, <2>5, <2>6, <2>8, <3>1 DEF Meter!Plus, Numbers
    <3>2. CASE ~Merged(opt)
      BY <1>2, <1>5, <2>5, <2>8, <3>2 DEF Meter!Plus, Meter!Zero, Held
    <3> QED
      BY <3>1, <3>2
  <2> QED
    BY <1>6, <1>7, <1>8, <2>9
    DEF MeterStep, Meter!Next, Meter!Begin, MeterReport, MeterOutput
<1> QED
  BY <1>0, <1>9, <1>10

\* An end callback: the meter ends, with an entry more or the amount kept.
LEMMA EndMeter ==
  ASSUME Exact, Sound, TypeOK', EndCallback
  PROVE  MeterStep
<1>0. /\ TypeOK /\ Numbers /\ MeasuredSoFar /\ Prepared /\ InCallbackOpen /\ Unnested
      /\ td[Main] \in ThreadDataType /\ opt \in Option /\ opt.time_run \in BOOLEAN
  BY MeterNumbers, MeasuredIs, ConstantTypes DEF Sound, TypeOK, Option
<1>1. MeasuredSoFar' /\ Numbers'
  BY MeasuredIs, MeterNumbers, PTL
<1>2. PICK d \in ThreadDataType :
        /\ RoiEnd(d) /\ d.buffer = td[Main].buffer
        /\ Merged(opt) =>
             /\ d.point_list = Points
             /\ d.cur_point.flops = Current.flops /\ d.cur_point.bytes = Current.bytes
        /\ ~Merged(opt) =>
             /\ d.point_list = Append(Points, StopTime(td[Main]).cur_point)
             /\ Held(d) /\ d.cur_point.start = 0 /\ d.cur_point.end = 0
  BY <1>0, SavedPoint
<1>3. at = "end" /\ phase[Main] = "running" /\ process = "running"
  BY <1>0, SavedPoint DEF InCallback
<1>4. /\ UNCHANGED <<opt, phase, out_file, now>> /\ at' = "app" /\ open' = Tail(open)
      /\ td'[Main] = BlockRest(d, block)
  BY <1>0, <1>2, ConstantTypes DEF RoiEnd, Resume, TypeOK
<1>5. block \in Block /\ td[Main].buffer = NoRefs
  BY <1>0, <1>3, ConstantTypes DEF Prepared
<1>6. Running /\ Running' /\ Measuring /\ ~Measuring'
  <2>1. open \in Seq(Labels) /\ open # <<>> /\ Len(open) = 1
    BY <1>0, <1>3, OneOpen DEF TypeOK, InCallbackOpen
  <2>2. Len(open') = 0
    BY <1>4, <2>1, HeadTailProperties
  <2> QED
    BY <1>3, <1>4, <2>1, <2>2 DEF Running, Measuring, OpenRegions
<1>7. Points' = d.point_list
  BY <1>4, InsertedCodeKeepsLabels DEF SameLabels, Points
<1>8. UNCHANGED <<Merged(opt), MeterOutput>>
  BY <1>4, SameReport
<1>9. Current' = d.cur_point
  <2>1. CASE opt.time_run
    BY <1>4, <2>1, NothingInserted DEF Current
  <2>2. CASE ~opt.time_run
    BY <1>0, <1>4, <1>5, <2>2, RestGathers DEF Current
  <2> QED
    BY <2>1, <2>2
<1>10. CASE Merged(opt)
  <2>1. ~opt.time_run
    BY <1>0, <1>10 DEF Exact, TypeOK
  <2>2. Meas = [flops |-> Current.flops, bytes |-> Gathered(td[Main]), time |-> 0]
    BY <1>0, <1>6, <2>1 DEF MeasuredSoFar
  <2>3. Meas' = [flops |-> Current.flops, bytes |-> Current.bytes, time |-> 0]
    BY <1>1, <1>2, <1>4, <1>6, <1>9, <1>10, <2>1 DEF MeasuredSoFar
  <2>4. Meas' = Meas
    BY <1>0, <1>5, <2>2, <2>3 DEF Numbers
  <2>5. UNCHANGED MeterReport
    BY <1>2, <1>4, <1>7, <1>10, SameReport
  <2> QED
    BY <1>6, <1>8, <1>10, <2>4, <2>5
    DEF MeterStep, Meter!Next, Meter!End, MeterReport, MeterOutput
<1>11. CASE ~Merged(opt)
  <2> DEFINE p == StopTime(td[Main]).cur_point
  <2>1. p = IF opt.time_run THEN [Current EXCEPT !.end = now] ELSE Current
    BY <1>0 DEF StopTime, SetTimeEnd, Current, ThreadDataType
  <2>2. Current \in Point /\ Points \in Seq(Point)
    BY <1>0 DEF Current, Points, ThreadDataType
  <2>3. p \in Point /\ p.start = Current.start /\ (opt.time_run => p.end = now)
        /\ p.flops = Current.flops /\ p.bytes = Current.bytes
    BY <1>0, <2>1, <2>2 DEF Point, Numbers
  <2> HIDE DEF p
  <2>4. PointAmount(p, opt.time_run) = Meas
    <3>1. CASE opt.time_run
      BY <1>0, <1>6, <2>3, <3>1 DEF MeasuredSoFar, PointAmount, Prepared
    <3>2. CASE ~opt.time_run
      BY <1>0, <1>5, <1>6, <2>3, <3>2 DEF MeasuredSoFar, PointAmount, Numbers
    <3> QED
      BY <1>0, <3>1, <3>2
  <2>5. MeterReport' = Append(MeterReport, Meas)
    <3>1. Points' = Append(Points, p)
      BY <1>2, <1>7, <1>11 DEF p
    <3>2. Report(SaveToFile(Append(Points, p), opt.time_run))
            = Append(Report(SaveToFile(Points, opt.time_run)), PointAmount(p, opt.time_run))
      BY <1>0, <2>2, <2>3, ReportGrows
    <3>3. MeterReport' = Report(SaveToFile(Append(Points, p), opt.time_run))
      BY <1>4, <3>1 DEF MeterReport, Report, Amount
    <3> QED
      BY <2>4, <3>2, <3>3 DEF MeterReport
  <2>6. Meas' = Meter!Zero
    <3>1. CASE opt.time_run
      <4>1. Empty(td'[Main])
        BY <1>2, <1>4, <1>5, <1>11, <3>1, NothingInserted DEF Empty
      <4> QED
        BY <1>1, <1>2, <1>4, <1>6, <1>9, <1>11, <3>1, <4>1 DEF MeasuredSoFar, Meter!Zero
    <3>2. CASE ~opt.time_run
      BY <1>1, <1>2, <1>4, <1>6, <1>9, <1>11, <3>2 DEF MeasuredSoFar, Meter!Zero, Held
    <3> QED
      BY <1>0, <3>1, <3>2
  <2> QED
    BY <1>6, <1>8, <1>11, <2>5, <2>6
    DEF MeterStep, Meter!Next, Meter!End, MeterReport, MeterOutput
<1> QED
  BY <1>10, <1>11
\* A document as a report, when the command line is given by name.
Amounts(points, timing) ==
  [i \in DOMAIN points |->
     IF timing THEN [flops |-> 0, bytes |-> 0, time |-> points[i].time]
     ELSE [flops |-> points[i].flops, bytes |-> points[i].bytes, time |-> 0]]

ByAmounts ==
  /\ \A points : Report(points) = Amounts(points, opt.time_run)
  /\ MeterReport = Amounts(SaveToFile(Points, opt.time_run), opt.time_run)
  /\ MeterOutput = [i \in MainDocuments |-> Amounts(out_file[i].points, opt.time_run)]
\* The mapping's report is the one that Amounts names.
LEMMA InAmounts == ByAmounts
BY DEF ByAmounts, Report, Amount, Amounts, MeterReport, MeterOutput

\* Another thread exits: its document is none of the meter's.
LEMMA OtherExitMeter ==
  ASSUME Sound, NEW t \in Threads, t # Main, ThreadExit(t)
  PROVE  MeterStep
<1>0. TypeOK
  BY DEF Sound
<1>1. /\ UNCHANGED <<opt, at, open, ran, now>>
      /\ td'[Main] = td[Main] /\ phase'[Main] = phase[Main]
  BY <1>0, ConstantTypes DEF ThreadExit, TypeOK, app
<1>2. PICK points : out_file' = Append(out_file, [tid |-> t, points |-> points])
  BY DEF ThreadExit
<1>3. /\ DOMAIN out_file' = 1 .. Len(out_file) + 1 /\ DOMAIN out_file = 1 .. Len(out_file)
      /\ Len(out_file) \in Nat /\ out_file'[Len(out_file) + 1].tid = t
      /\ \A i \in 1 .. Len(out_file) : out_file'[i] = out_file[i]
  BY <1>0, <1>2 DEF TypeOK
<1>4. MainDocuments' = MainDocuments /\ \A i \in MainDocuments : out_file'[i] = out_file[i]
  BY <1>3 DEF MainDocuments
<1>5. UNCHANGED MeterOutput
  <2>1. ByAmounts'
    BY InAmounts, PTL
  <2>2. MeterOutput' = [i \in MainDocuments' |-> Amounts(out_file'[i].points, opt'.time_run)]
    BY <2>1 DEF ByAmounts
  <2> QED
    BY <1>1, <1>4, <2>2, InAmounts DEF ByAmounts
<1>6. UNCHANGED <<Merged(opt), MeterReport>>
  BY <1>1, SameReport DEF Points
<1>7. UNCHANGED <<Executed, Measuring, Meas>>
  BY <1>1 DEF Executed, Meas, Running, Measuring, OpenRegions, Pending, Elapsed, Current
<1> QED
  BY <1>5, <1>6, <1>7, MeterVars DEF MeterStep, Meter!meter, MeterReport, MeterOutput

\* Main exits: the meter finishes with a document.
LEMMA ExitMeter ==
  ASSUME Exact, Sound, TypeOK', ThreadExit(Main)
  PROVE  MeterStep
<1> DEFINE d == FinalData(td[Main])
           points == SaveToFile(d.point_list, opt.time_run)
<1>0. /\ TypeOK /\ Numbers /\ MeasuredSoFar /\ Prepared
      /\ td[Main] \in ThreadDataType /\ opt \in Option /\ opt.time_run \in BOOLEAN
  BY MeterNumbers, MeasuredIs, ConstantTypes DEF Sound, TypeOK, Option
<1>1. /\ MeasuredSoFar'
      /\ MeterReport' = Amounts(SaveToFile(Points', opt'.time_run), opt'.time_run)
      /\ MeterOutput' = [i \in MainDocuments' |-> Amounts(out_file'[i].points, opt'.time_run)]
  <2>1. MeasuredSoFar' /\ ByAmounts'
    BY MeasuredIs, InAmounts, PTL
  <2> QED
    BY <2>1 DEF ByAmounts
<1>2. /\ UNCHANGED <<opt, ran, now>> /\ phase[Main] = "running" /\ phase'[Main] = "exited"
      /\ td'[Main] = d
      /\ out_file' = Append(out_file, [tid |-> Main, points |-> points])
  BY <1>0, ConstantTypes DEF ThreadExit, TypeOK, app
<1>3. Running /\ ~Measuring' /\ Meas' = Meter!Zero
  BY <1>1, <1>2 DEF Running, Measuring, MeasuredSoFar, Meter!Zero
<1>4. UNCHANGED <<Merged(opt), Executed>>
  BY <1>2 DEF Executed, Merged
<1>5. MainDocuments = {} /\ MeterOutput = <<>>
  <2>1. MainDocuments = {}
    BY <1>0, <1>2 DEF Prepared
  <2> QED
    BY <2>1 DEF MeterOutput
<1>6. MeterReport' = Amounts(points, opt.time_run)
  BY <1>1, <1>2 DEF Points
<1>7. \E place \in DOMAIN MeterOutput' : MeterOutput' = [i \in {place} |-> MeterReport']
  <2> DEFINE place == Len(out_file) + 1
  <2>1. /\ DOMAIN out_file' = 1 .. place /\ DOMAIN out_file = 1 .. Len(out_file)
        /\ Len(out_file) \in Nat /\ out_file'[place] = [tid |-> Main, points |-> points]
        /\ \A i \in 1 .. Len(out_file) : out_file'[i] = out_file[i]
    BY <1>0, <1>2 DEF TypeOK
  <2>2. MainDocuments' = {place}
    BY <1>5, <2>1 DEF MainDocuments
  <2>3. MeterOutput' = [i \in {place} |-> Amounts(out_file'[i].points, opt.time_run)]
    BY <1>1, <1>2, <2>2
  <2> HIDE DEF place
  <2> QED
    BY <1>6, <2>1, <2>3
<1>8. CASE Merged(opt)
  <2>1. ~opt.time_run
    BY <1>0, <1>8 DEF Exact, TypeOK
  <2>2. Points \in Seq(Point) /\ Current \in Point
    BY <1>0 DEF Points, Current, ThreadDataType
  <2>3. d.point_list = Append(Points, Current)
    BY <1>0, <1>8 DEF FinalData, SavePoint, Points, Current, ThreadDataType
  <2> DEFINE last == PointAmount(Current, opt.time_run)
  <2>4. /\ Report(SaveToFile(Append(Points, Current), opt.time_run)) = Append(MeterReport, last)
        /\ Len(MeterReport) = Len(Points)
        /\ MeterReport = [i \in 1 .. Len(Points) |-> PointAmount(Points[i], opt.time_run)]
    BY <1>0, <2>2, ReportGrows, ReportIs DEF MeterReport
  <2>5. MeterReport' = Append(MeterReport, last)
    <3>1. MeterReport' = Report(points)
      BY <1>6, InAmounts DEF ByAmounts
    <3> QED
      BY <2>3, <2>4, <3>1
  <2>6. Meter!Remainder(last)
    <3>1. last = [flops |-> Current.flops, bytes |-> Current.bytes, time |-> 0]
      BY <2>1 DEF PointAmount
    <3>2. Meas = [flops |-> Current.flops,
                  bytes |-> IF Measuring THEN Gathered(td[Main]) ELSE Current.bytes,
                  time |-> 0]
      BY <1>0, <1>3, <2>1 DEF MeasuredSoFar
    <3> QED
      BY <1>0, <3>1, <3>2 DEF Meter!Remainder, Numbers
  <2>7. /\ Len(MeterReport') = Len(MeterReport) + 1
        /\ SubSeq(MeterReport', 1, Len(MeterReport)) = MeterReport
        /\ MeterReport'[Len(MeterReport')] = last
    <3> DEFINE S == {MeterReport[i] : i \in DOMAIN MeterReport} \cup {last}
    <3>1. MeterReport \in Seq(S) /\ last \in S
      <4>1. Len(Points) \in Nat
        BY <2>2
      <4> QED
        BY <2>4, <4>1
    <3> HIDE DEF S, last
    <3> QED
      BY <2>5, <3>1, AppendProperties
  <2> QED
    BY <1>3, <1>4, <1>5, <1>7, <1>8, <2>6, <2>7
    DEF MeterStep, Meter!Next, Meter!Finish, MeterReport, MeterOutput
<1>9. CASE ~Merged(opt)
  <2>1. Points' = Points
    BY <1>2, <1>9 DEF FinalData, Points
  <2>2. UNCHANGED MeterReport
    BY <1>2, <2>1, SameReport
  <2> QED
    BY <1>3, <1>4, <1>5, <1>7, <1>9, <2>2
    DEF MeterStep, Meter!Next, Meter!Finish, MeterReport, MeterOutput
<1> QED
  BY <1>8, <1>9

(***************************************************************************)
(* The client is a meter.  When regions do not nest, for every             *)
(* application, every sequence of blocks and regions, every number of      *)
(* threads and every command line: Main's document says exactly what Main  *)
(* executed inside its regions, whatever the other threads do and whenever *)
(* the process exits.  Exact names the applications and command lines for  *)
(* which the code can keep this promise.                                   *)
(***************************************************************************)
THEOREM ClientIsAMeter ==
  ASSUME MaxDepth = 1, Exact
  PROVE  Spec => MeterSpec
<1>1. Init => Meter!Init
  <2> SUFFICES ASSUME Init PROVE Meter!Init
    OBVIOUS
  <2>1. /\ ~Running /\ ran = [flops |-> 0, bytes |-> 0] /\ Points = <<>> /\ MainDocuments = {}
        /\ td[Main] = NewThreadData
    BY ConstantTypes, EmptySeq
    DEF Init, Running, Points, MainDocuments, NewThreadData
  <2>2. ~Measuring /\ Measuring = FALSE /\ Meas = Meter!Zero
    BY <2>1 DEF Measuring, Meas, Meter!Zero
  <2>3. Executed.flops = 0 /\ Executed.bytes = 0
    BY <2>1 DEF Executed
  <2>4. MeterOutput = <<>>
    BY <2>1 DEF MeterOutput
  <2>5. MeterReport = <<>>
    <3>1. opt.time_run \in BOOLEAN
      BY ConstantTypes DEF Init, Option
    <3>2. Points \in Seq(Point) /\ Len(Points) = 0
      BY <2>1
    <3>3. MeterReport = [i \in 1 .. Len(Points) |-> PointAmount(Points[i], opt.time_run)]
      BY <3>1, <3>2, ReportIs DEF MeterReport
    <3>4. 1 .. Len(Points) = {}
      BY <3>2
    <3> QED
      BY <3>3, <3>4
  <2> QED
    BY <2>2, <2>3, <2>4, <2>5 DEF Meter!Init, MeterReport, MeterOutput
<1>2. Sound /\ Sound' /\ [Next]_vars => [Meter!Next]_(Meter!meter)
  <2> SUFFICES ASSUME Sound, Sound', [Next]_vars PROVE MeterStep
    BY DEF MeterStep
  <2>1. TypeOK'
    BY DEF Sound
  <2>2. CASE \/ \E t \in Threads : Idle(t)
             \/ Tick \/ EventExit \/ RoiInitAbort \/ UNCHANGED vars
    BY <2>1, <2>2, IdleMeter
  <2>3. ASSUME NEW b \in Blocks, ExecuteBlock(Main, b) PROVE MeterStep
    BY <2>1, <2>3, BlockMeter
  <2>4. ASSUME NEW b \in DelimBlocks, (\E l \in Labels : EnterStart(b, l)) \/ EnterEnd(b)
        PROVE  MeterStep
    BY <2>1, <2>4, EnterMeter
  <2>5. StartCallback => MeterStep
    BY <2>1, StartMeter
  <2>6. EndCallback => MeterStep
    BY <2>1, EndMeter
  <2>7. ASSUME NEW t \in Threads, ThreadExit(t) PROVE MeterStep
    BY <2>1, <2>7, ExitMeter, OtherExitMeter
  <2> QED
    BY <2>2, <2>3, <2>4, <2>5, <2>6, <2>7
    DEF Next, Terminated, Idle, StartCallback, EndCallback
<1> QED
  BY <1>1, <1>2, AlwaysSound, PTL DEF Spec, MeterSpec, Meter!Spec
=============================================================================
