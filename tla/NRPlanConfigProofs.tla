------------------------- MODULE NRPlanConfigProofs -------------------------
(***************************************************************************)
(* Proofs about NRPlanConfig for every choice of record lists, recorders,  *)
(* settings and failures, in three parts: the configuration stays well     *)
(* formed under every sequence of calls (the walk is not expanded); a walk *)
(* of the whole network reads every image where its predecessor left it,   *)
(* by induction over its records; so every frame runs the network.         *)
(***************************************************************************)
EXTENDS NRPlanConfig, FiniteSetTheorems, WellFoundedInduction, TLAPS

-----------------------------------------------------------------------------
(* The network's tables *)

\* The three families of records are disjoint.
LEMMA RecordRanges ==
    /\ WideRecords \subseteq 1 .. 69
    /\ SplitRecords \subseteq 1 .. 69
    /\ VitRecords \subseteq 1 .. 69
    /\ WideRecords # {} /\ SplitRecords # {} /\ VitRecords # {}
    /\ WideRecords \cap SplitRecords = {}
    /\ WideRecords \cap VitRecords = {}
    /\ SplitRecords \cap VitRecords = {}
  BY DEF WideRecords, SplitRecords, VitRecords

\* A stage descriptor of the family declares its record's channels, and no
\* descriptor declares more than 256.
LEMMA StageWidths ==
    /\ \A r : StageChannels(r) \in {32, 64, 128, 256}
    /\ \A r \in WideRecords : StageChannels(r) = Channels(r)
  BY DEF StageChannels, Channels, WideRecords, SplitRecords

\* Every scale has a level.
LEMMA LevelRange == \A ch : Level(ch) \in 1 .. 5
  BY DEF Level

\* The scratch a list needs is the level of one of its blocks.
LEMMA ScratchRange ==
    ASSUME NEW channels, channels # {}
    PROVE  ListScratch(channels) \in 0 .. 5
<1> DEFINE Levels == {Level(ch) : ch \in channels}
<1> DEFINE IsTop(n) == n \in Levels /\ \A m \in Levels : m <= n
<1>1. Levels \subseteq 1 .. 5 /\ Levels # {}
  BY LevelRange
<1>2. \E n \in 0 .. 5 : IsTop(n)
  <2> HIDE DEF Levels
  <2>1. CASE 5 \in Levels  BY <1>1, <2>1
  <2>2. CASE 5 \notin Levels /\ 4 \in Levels  BY <1>1, <2>2
  <2>3. CASE 5 \notin Levels /\ 4 \notin Levels /\ 3 \in Levels  BY <1>1, <2>3
  <2>4. CASE 5 \notin Levels /\ 4 \notin Levels /\ 3 \notin Levels /\ 2 \in Levels
    BY <1>1, <2>4
  <2>5. CASE 5 \notin Levels /\ 4 \notin Levels /\ 3 \notin Levels /\ 2 \notin Levels
    <3>1. \A n \in Levels : n = 1  BY <1>1, <2>5
    <3>2. 1 \in Levels  BY <1>1, <3>1
    <3> QED  BY <3>1, <3>2
  <2> QED  BY <2>1, <2>2, <2>3, <2>4, <2>5
<1>3. \E n \in 0 .. 5 : /\ \E ch \in channels : Level(ch) = n
                        /\ \A ch \in channels : Level(ch) <= n
  BY <1>2
<1> QED  BY <1>3 DEF ListScratch

\* A buffer that only grows keeps its range.
LEMMA LargerRange ==
    ASSUME NEW a \in 0 .. 5, NEW b \in 0 .. 5
    PROVE  Larger(a, b) \in 0 .. 5
  BY DEF Larger

\* The eight transitions are four encoder and four decoder anchors.
LEMMA Transitions ==
    /\ \A a \in EncoderAnchors : <<"down", a>> \in ScaleTransitions
    /\ \A d \in DecoderAnchors : <<"up", d>> \in ScaleTransitions
    /\ \A a, d : ScaleTransitions # {<<"down", a>>, <<"up", d>>}
    /\ ScaleTransitions # {}
    /\ ScaleTransitions \in SUBSET ({"down", "up"} \X (1 .. 69))
  BY DEF ScaleTransitions, EncoderAnchors, DecoderAnchors

\* Two transitions at most are not eight.
LEMMA FewAreNotEight ==
    ASSUME NEW T, NEW x, NEW y, T \subseteq {x, y}
    PROVE  Cardinality(T) # 8
<1>1. IsFiniteSet({x}) /\ Cardinality({x}) = 1  BY FS_Singleton
<1>2. IsFiniteSet({x} \cup {y}) /\ Cardinality({x} \cup {y}) \in {1, 2}
  BY <1>1, FS_AddElement
<1>3. T \in SUBSET ({x} \cup {y})  OBVIOUS
<1>4. Cardinality(T) <= Cardinality({x} \cup {y})  BY <1>2, <1>3, FS_Subset
<1> QED  BY <1>2, <1>4

\* An interval has as many elements as its bounds say.
LEMMA IntervalSize ==
    ASSUME NEW a \in Int, NEW b \in Int, a <= b, NEW n, n = b - a + 1
    PROVE  IsFiniteSet(a .. b) /\ Cardinality(a .. b) = n
  BY FS_Interval

\* The sizes of the code's two lists, and of the stage records a plan that
\* holds the other lists can still name.
LEMMA StageSize == IsFiniteSet(WideRecords \cup {39}) /\ Cardinality(WideRecords \cup {39}) = 45
<1>1. IsFiniteSet(1 .. 22) /\ Cardinality(1 .. 22) = 22
  <2>1. 1 \in Int /\ 22 \in Int /\ 1 <= 22 /\ 22 = 22 - 1 + 1
    OBVIOUS
  <2> QED  BY <2>1, IntervalSize, Zenon
<1>2. IsFiniteSet(48 .. 69) /\ Cardinality(48 .. 69) = 22
  <2>1. 48 \in Int /\ 69 \in Int /\ 48 <= 69 /\ 22 = 69 - 48 + 1
    OBVIOUS
  <2> QED  BY <2>1, IntervalSize, Zenon
<1>3. (1 .. 22) \cap (48 .. 69) = {} /\ Cardinality({}) = 0
  BY FS_EmptySet
<1>4. IsFiniteSet(WideRecords) /\ Cardinality(WideRecords) = 44
  BY <1>1, <1>2, <1>3, FS_Union DEF WideRecords
<1>5. 39 \notin WideRecords  BY DEF WideRecords
<1> QED  BY <1>4, <1>5, FS_AddElement

\* The sixteen blocks of 512 channels.
LEMMA SplitSize == IsFiniteSet(SplitRecords) /\ Cardinality(SplitRecords) = 16
<1>1. IsFiniteSet(23 .. 30) /\ Cardinality(23 .. 30) = 8
  <2>1. 23 \in Int /\ 30 \in Int /\ 23 <= 30 /\ 8 = 30 - 23 + 1
    OBVIOUS
  <2> QED  BY <2>1, IntervalSize, Zenon
<1>2. IsFiniteSet(40 .. 47) /\ Cardinality(40 .. 47) = 8
  <2>1. 40 \in Int /\ 47 \in Int /\ 40 <= 47 /\ 8 = 47 - 40 + 1
    OBVIOUS
  <2> QED  BY <2>1, IntervalSize, Zenon
<1>3. (23 .. 30) \cap (40 .. 47) = {} /\ Cardinality({}) = 0
  BY FS_EmptySet
<1> QED  BY <1>1, <1>2, <1>3, FS_Union DEF SplitRecords

-----------------------------------------------------------------------------
(* A well-formed configuration, and what a call that edits it must show.   *)

OneRecorder(p) ==
    /\ p.recorder # "none" =>
         /\ p.stage = {} /\ p.split = {} /\ ~p.vit /\ ~p.bottleneck /\ ~p.pre /\ ~p.head
         /\ p.transitions = {}
    /\ p.transitions # {} => p.stage # {}

Disjoint(p) ==
    /\ p.stage \cap p.split = {}
    /\ p.vit => VitRecords \cap (p.stage \cup p.split) = {}

(* The transitions are the network's eight, or a pair under bring-up.      *)
DrawnWhole(p) ==
    p.transitions = ScaleTransitions \/ \E x, y : p.transitions \subseteq {x, y}

WellFormed(p) ==
    /\ p \in PlanType
    /\ p.complete => IsComplete(p)
    /\ OneRecorder(p)
    /\ Disjoint(p)
    /\ DrawnWhole(p)

(* The inductive invariant: the configuration is well formed, and an       *)
(* adopted graph has no built-in part or recorder beside it.               *)
ConfigInv ==
    /\ WellFormed(plan)
    /\ graph.state = "adopted" => ~Builtin /\ plan.recorder = "none"

\* The invariant gives the properties.
LEMMA ConfigInvIsEnough ==
    ConfigInv => plan \in PlanType /\ OneTopology /\ NoRecordTwice
  BY DEF ConfigInv, WellFormed, OneRecorder, Disjoint, OneTopology, NoRecordTwice, Builtin

\* A call that edits the configuration only has to keep it well formed.
LEMMA ConfigureKeeps ==
    ASSUME NEW new, Configure(new), WellFormed(new)
    PROVE  ConfigInv'
  BY DEF Configure, ConfigInv, finalized

\* A new plan is well formed.
LEMMA ConfigInit == Init => ConfigInv
<1> SUFFICES ASSUME Init PROVE ConfigInv
  OBVIOUS
<1>1. plan \in PlanType
  BY ConfigAssumption DEF Init, PlanType
<1> QED
  BY <1>1 DEF Init, NoGraph, ConfigInv, WellFormed, OneRecorder, Disjoint, DrawnWhole

(* Settings, weights, arena and shape leave every part as it was.          *)
PartsOf(p) == <<p.recorder, p.stage, p.split, p.vit, p.bottleneck,
                p.transitions, p.pre, p.head, p.complete>>

\* A call that leaves the parts alone keeps the configuration well formed.
LEMMA SamePartsKeep ==
    ASSUME NEW p, NEW q, WellFormed(p), q \in PlanType, PartsOf(q) = PartsOf(p)
    PROVE  WellFormed(q)
<1>1. /\ q.recorder = p.recorder /\ q.stage = p.stage /\ q.split = p.split
      /\ q.vit = p.vit /\ q.bottleneck = p.bottleneck
      /\ q.transitions = p.transitions /\ q.pre = p.pre /\ q.head = p.head
      /\ q.complete = p.complete
  BY DEF PartsOf
<1> QED
  BY <1>1 DEF WellFormed, IsComplete, OneRecorder, Disjoint, DrawnWhole

\* A call that edits several fields keeps the type one field at a time.
LEMMA FieldEdits ==
    ASSUME NEW p \in PlanType
    PROVE  /\ \A x \in {"strict_fp16", "approx_fp8"} :
             [p EXCEPT !.precision = x] \in PlanType
           /\ \A x \in {"graph", "fixed"} : [p EXCEPT !.execution_mode = x] \in PlanType
           /\ \A x \in BOOLEAN : [p EXCEPT !.host_boundaries = x] \in PlanType
           /\ \A x \in {"none", "allocated", "raw", "strict_fp16", "approx_fp8"} :
             [p EXCEPT !.weights = x] \in PlanType
           /\ \A x \in BOOLEAN : [p EXCEPT !.arena = x] \in PlanType
           /\ \A x \in {"none", "v1", "v3"} : [p EXCEPT !.recorder = x] \in PlanType
           /\ \A x \in SUBSET (1 .. 69) : [p EXCEPT !.stage = x] \in PlanType
           /\ \A x \in SUBSET SplitRecords : [p EXCEPT !.split = x] \in PlanType
           /\ \A x \in SUBSET ({"down", "up"} \X (1 .. 69)) :
             [p EXCEPT !.transitions = x] \in PlanType
           /\ \A x \in BOOLEAN : [p EXCEPT !.complete = x] \in PlanType
           /\ \A x \in 0 .. 5 : [p EXCEPT !.scratch = x] \in PlanType
           /\ \A x \in 0 .. 5 : [p EXCEPT !.target = x] \in PlanType
           /\ \A x \in SUBSET {32, 64, 128, 256} : [p EXCEPT !.skips = x] \in PlanType
           /\ \A x \in BOOLEAN : [p EXCEPT !.vit_scratch = x] \in PlanType
           /\ \A x \in BOOLEAN : [p EXCEPT !.bottleneck_skip = x] \in PlanType
           /\ [p EXCEPT !.prepared = TRUE] \in PlanType
           /\ [p EXCEPT !.lut = TRUE] \in PlanType
           /\ [p EXCEPT !.vit = TRUE] \in PlanType
           /\ [p EXCEPT !.bottleneck = TRUE] \in PlanType
           /\ [p EXCEPT !.pre = TRUE] \in PlanType
           /\ [p EXCEPT !.head = TRUE] \in PlanType
           /\ [p EXCEPT !.edge = TRUE] \in PlanType
           /\ [p EXCEPT !.complete = FALSE] \in PlanType
<1>1. \A x \in {"strict_fp16", "approx_fp8"} :
             [p EXCEPT !.precision = x] \in PlanType
  BY DEF PlanType
<1>2. \A x \in {"graph", "fixed"} : [p EXCEPT !.execution_mode = x] \in PlanType
  BY DEF PlanType
<1>3. \A x \in BOOLEAN : [p EXCEPT !.host_boundaries = x] \in PlanType
  BY DEF PlanType
<1>4. \A x \in {"none", "allocated", "raw", "strict_fp16", "approx_fp8"} :
             [p EXCEPT !.weights = x] \in PlanType
  BY DEF PlanType
<1>5. \A x \in BOOLEAN : [p EXCEPT !.arena = x] \in PlanType
  BY DEF PlanType
<1>6. \A x \in {"none", "v1", "v3"} : [p EXCEPT !.recorder = x] \in PlanType
  BY DEF PlanType
<1>7. \A x \in SUBSET (1 .. 69) : [p EXCEPT !.stage = x] \in PlanType
  BY DEF PlanType
<1>8. \A x \in SUBSET SplitRecords : [p EXCEPT !.split = x] \in PlanType
  BY DEF PlanType
<1>9. \A x \in SUBSET ({"down", "up"} \X (1 .. 69)) :
             [p EXCEPT !.transitions = x] \in PlanType
  BY DEF PlanType
<1>10. \A x \in BOOLEAN : [p EXCEPT !.complete = x] \in PlanType
  BY DEF PlanType
<1>11. \A x \in 0 .. 5 : [p EXCEPT !.scratch = x] \in PlanType
  BY DEF PlanType
<1>12. \A x \in 0 .. 5 : [p EXCEPT !.target = x] \in PlanType
  BY DEF PlanType
<1>13. \A x \in SUBSET {32, 64, 128, 256} : [p EXCEPT !.skips = x] \in PlanType
  BY DEF PlanType
<1>14. \A x \in BOOLEAN : [p EXCEPT !.vit_scratch = x] \in PlanType
  BY DEF PlanType
<1>15. \A x \in BOOLEAN : [p EXCEPT !.bottleneck_skip = x] \in PlanType
  BY DEF PlanType
<1>16. [p EXCEPT !.prepared = TRUE] \in PlanType
  <2>1. \A x \in BOOLEAN : [p EXCEPT !.prepared = x] \in PlanType
    BY DEF PlanType
  <2> QED  BY <2>1
<1>17. [p EXCEPT !.lut = TRUE] \in PlanType
  <2>1. \A x \in BOOLEAN : [p EXCEPT !.lut = x] \in PlanType
    BY DEF PlanType
  <2> QED  BY <2>1
<1>18. [p EXCEPT !.vit = TRUE] \in PlanType
  <2>1. \A x \in BOOLEAN : [p EXCEPT !.vit = x] \in PlanType
    BY DEF PlanType
  <2> QED  BY <2>1
<1>19. [p EXCEPT !.bottleneck = TRUE] \in PlanType
  <2>1. \A x \in BOOLEAN : [p EXCEPT !.bottleneck = x] \in PlanType
    BY DEF PlanType
  <2> QED  BY <2>1
<1>20. [p EXCEPT !.pre = TRUE] \in PlanType
  <2>1. \A x \in BOOLEAN : [p EXCEPT !.pre = x] \in PlanType
    BY DEF PlanType
  <2> QED  BY <2>1
<1>21. [p EXCEPT !.head = TRUE] \in PlanType
  <2>1. \A x \in BOOLEAN : [p EXCEPT !.head = x] \in PlanType
    BY DEF PlanType
  <2> QED  BY <2>1
<1>22. [p EXCEPT !.edge = TRUE] \in PlanType
  <2>1. \A x \in BOOLEAN : [p EXCEPT !.edge = x] \in PlanType
    BY DEF PlanType
  <2> QED  BY <2>1
<1>23. [p EXCEPT !.complete = FALSE] \in PlanType
  <2>1. \A x \in BOOLEAN : [p EXCEPT !.complete = x] \in PlanType
    BY DEF PlanType
  <2> QED  BY <2>1
<1> QED
  BY <1>1, <1>2, <1>3, <1>4, <1>5, <1>6, <1>7, <1>8, <1>9, <1>10, <1>11, <1>12,
     <1>13, <1>14, <1>15, <1>16, <1>17, <1>18, <1>19, <1>20, <1>21, <1>22, <1>23

\* Settings, weights, arena and shape.
LEMMA SettingsKeep ==
    ASSUME ConfigInv,
           \/ SetPrecisionProfile \/ SetExecutionMode \/ SetFixedHostBoundaries
           \/ UploadWeights \/ LoadModelPackage \/ ConfigureArena \/ PrepareShape
    PROVE  ConfigInv'
<1>0. WellFormed(plan) /\ plan \in PlanType
  BY DEF ConfigInv, WellFormed
<1>1. CASE SetPrecisionProfile
  <2> PICK profile \in Profiles : Configure([plan EXCEPT !.precision = profile])
    BY <1>1 DEF SetPrecisionProfile
  <2>1. [plan EXCEPT !.precision = profile] \in PlanType
    BY <1>0, FieldEdits, ConfigAssumption
  <2>2. PartsOf([plan EXCEPT !.precision = profile]) = PartsOf(plan)
    BY <1>0 DEF PlanType, PartsOf
  <2> QED  BY <1>0, <2>1, <2>2, SamePartsKeep, ConfigureKeeps
<1>2. CASE SetExecutionMode
  <2> PICK mode \in Modes : Configure([plan EXCEPT !.execution_mode = mode])
    BY <1>2 DEF SetExecutionMode
  <2>1. [plan EXCEPT !.execution_mode = mode] \in PlanType
    BY <1>0, FieldEdits, ConfigAssumption
  <2>2. PartsOf([plan EXCEPT !.execution_mode = mode]) = PartsOf(plan)
    BY <1>0 DEF PlanType, PartsOf
  <2> QED  BY <1>0, <2>1, <2>2, SamePartsKeep, ConfigureKeeps
<1>3. CASE SetFixedHostBoundaries
  <2> PICK flag \in BoundaryFlags : Configure([plan EXCEPT !.host_boundaries = flag])
    BY <1>3 DEF SetFixedHostBoundaries
  <2>1. [plan EXCEPT !.host_boundaries = flag] \in PlanType
    BY <1>0, FieldEdits, ConfigAssumption
  <2>2. PartsOf([plan EXCEPT !.host_boundaries = flag]) = PartsOf(plan)
    BY <1>0 DEF PlanType, PartsOf
  <2> QED  BY <1>0, <2>1, <2>2, SamePartsKeep, ConfigureKeeps
<1>4. CASE UploadWeights
  <2>1. [plan EXCEPT !.weights = "raw"] \in PlanType
    BY <1>0, FieldEdits, ConfigAssumption
  <2>2. PartsOf([plan EXCEPT !.weights = "raw"]) = PartsOf(plan)
    BY <1>0 DEF PlanType, PartsOf
  <2> QED  BY <1>4, <1>0, <2>1, <2>2, SamePartsKeep, ConfigureKeeps DEF UploadWeights
<1>5. CASE LoadModelPackage
  <2>1. [plan EXCEPT !.weights = plan.precision] \in PlanType
    <3>1. plan.precision \in {"strict_fp16", "approx_fp8"}  BY <1>0 DEF PlanType
    <3> QED  BY <1>0, <3>1, FieldEdits
  <2>2. PartsOf([plan EXCEPT !.weights = plan.precision]) = PartsOf(plan)
    BY <1>0 DEF PlanType, PartsOf
  <2> QED  BY <1>5, <1>0, <2>1, <2>2, SamePartsKeep, ConfigureKeeps DEF LoadModelPackage
<1>6. CASE ConfigureArena
  <2> PICK regions \in ArenaCalls : Configure([plan EXCEPT !.arena = regions])
    BY <1>6 DEF ConfigureArena
  <2>1. [plan EXCEPT !.arena = regions] \in PlanType
    BY <1>0, FieldEdits, ConfigAssumption
  <2>2. PartsOf([plan EXCEPT !.arena = regions]) = PartsOf(plan)
    BY <1>0 DEF PlanType, PartsOf
  <2> QED  BY <1>0, <2>1, <2>2, SamePartsKeep, ConfigureKeeps
<1>7. CASE PrepareShape
  <2>1. [plan EXCEPT !.prepared = TRUE] \in PlanType
    BY <1>0, FieldEdits, ConfigAssumption
  <2>2. PartsOf([plan EXCEPT !.prepared = TRUE]) = PartsOf(plan)
    BY <1>0 DEF PlanType, PartsOf
  <2> QED  BY <1>7, <1>0, <2>1, <2>2, SamePartsKeep, ConfigureKeeps DEF PrepareShape
<1> QED
  BY <1>1, <1>2, <1>3, <1>4, <1>5, <1>6, <1>7

-----------------------------------------------------------------------------
(* The recorder and the parts of the built-in topology.                    *)

\* An external recorder is only installed beside no built-in part.
LEMMA RecorderKeeps ==
    ASSUME ConfigInv, SetRecorder
    PROVE  ConfigInv'
<1> PICK abi \in Recorders : /\ plan.recorder \in {"none", abi}
                            /\ ~Builtin
                            /\ Configure([plan EXCEPT !.recorder = abi])
  BY DEF SetRecorder
<1>1. WellFormed([plan EXCEPT !.recorder = abi])
  <2>1. plan \in PlanType /\ WellFormed(plan)  BY DEF ConfigInv, WellFormed
  <2>2. [plan EXCEPT !.recorder = abi] \in PlanType
    BY <2>1, FieldEdits, ConfigAssumption
  <2> QED
    BY <2>1, <2>2 DEF PlanType, WellFormed, IsComplete, OneRecorder, Disjoint, DrawnWhole,
                      Builtin
<1> QED  BY <1>1, ConfigureKeeps

\* A refused list leaves the table of E4M3 values behind.
LEMMA TableKeeps ==
    ASSUME WellFormed(plan)
    PROVE  WellFormed([plan EXCEPT !.lut = TRUE])
<1>1. plan \in PlanType  BY DEF WellFormed
<1>2. [plan EXCEPT !.lut = TRUE] \in PlanType  BY <1>1, FieldEdits
<1>3. PartsOf([plan EXCEPT !.lut = TRUE]) = PartsOf(plan)
  BY <1>1 DEF PlanType, PartsOf
<1> QED  BY <1>2, <1>3, SamePartsKeep

\* A stage list replaces the last one, or is refused.
LEMMA StageKeeps ==
    ASSUME ConfigInv, ConfigureStageBlocks
    PROVE  ConfigInv'
<1> PICK list \in StageLists :
        ConfigureList([plan EXCEPT !.stage = list], list, ListChannels(list),
                      plan.split \cup VitSet)
  BY DEF ConfigureStageBlocks
<1> DEFINE new == [plan EXCEPT !.stage = list, !.lut = TRUE, !.complete = FALSE,
                     !.scratch = Larger(plan.scratch, ListScratch(ListChannels(list)))]
<1>1. WellFormed(plan) /\ plan \in PlanType  BY DEF ConfigInv, WellFormed
<1>2. list \in SUBSET (1 .. 69) /\ list # {}  BY ConfigAssumption
<1>3. \/ Configure([plan EXCEPT !.lut = TRUE])
      \/ list \cap (plan.split \cup VitSet) = {} /\ Configure(new)
  BY <1>1 DEF ConfigureList, PlanType
<1>4. plan.recorder = "none"  BY DEF ConfigureList, Fp8Ready
<1>5. CASE list \cap (plan.split \cup VitSet) = {} /\ Configure(new)
  <2>1. Larger(plan.scratch, ListScratch(ListChannels(list))) \in 0 .. 5
    BY <1>1, <1>2, ScratchRange, LargerRange DEF PlanType, ListChannels
  <2>2. new \in PlanType
    BY <1>1, <1>2, <2>1, FieldEdits
  <2>3. WellFormed(new)
    BY <1>1, <1>2, <1>4, <1>5, <2>2
       DEF PlanType, WellFormed, OneRecorder, Disjoint, DrawnWhole, VitSet
  <2> QED  BY <1>5, <2>3, ConfigureKeeps
<1> QED  BY <1>1, <1>3, <1>5, TableKeeps, ConfigureKeeps

\* A split list replaces the last one, or is refused.
LEMMA SplitKeeps ==
    ASSUME ConfigInv, ConfigureSplit512Blocks
    PROVE  ConfigInv'
<1> PICK list \in SplitLists :
        ConfigureList([plan EXCEPT !.split = list], list, {512}, plan.stage \cup VitSet)
  BY DEF ConfigureSplit512Blocks
<1> DEFINE scratch == Larger(plan.scratch, ListScratch({512}))
<1> DEFINE new == [plan EXCEPT !.split = list, !.lut = TRUE, !.complete = FALSE,
                     !.scratch = scratch]
<1>1. WellFormed(plan) /\ plan \in PlanType  BY DEF ConfigInv, WellFormed
<1>2. /\ list \in SUBSET SplitRecords
      /\ list \in SUBSET (1 .. 69) /\ list # {}
  BY ConfigAssumption, RecordRanges
<1>3. \/ Configure([plan EXCEPT !.lut = TRUE])
      \/ list \cap (plan.stage \cup VitSet) = {} /\ Configure(new)
  BY <1>1 DEF ConfigureList, PlanType
<1>4. plan.recorder = "none"  BY DEF ConfigureList, Fp8Ready
<1>5. CASE list \cap (plan.stage \cup VitSet) = {} /\ Configure(new)
  <2>1. scratch \in 0 .. 5
    BY <1>1, ScratchRange, LargerRange DEF PlanType
  <2> HIDE DEF scratch
  <2>2. new \in PlanType
    BY <1>1, <1>2, <2>1, FieldEdits
  <2>3. DrawnWhole(new)
    <3>1. new.transitions = plan.transitions  BY <1>1 DEF PlanType
    <3> HIDE DEF new
    <3> QED  BY <1>1, <3>1 DEF WellFormed, DrawnWhole
  <2>4. WellFormed(new)
    BY <1>1, <1>2, <1>4, <1>5, <2>2, <2>3
       DEF PlanType, WellFormed, OneRecorder, Disjoint, VitSet
  <2> QED  BY <1>5, <2>4, ConfigureKeeps
<1> QED  BY <1>1, <1>3, <1>5, TableKeeps, ConfigureKeeps

\* The ViT blocks.
LEMMA VitKeeps ==
    ASSUME ConfigInv, ConfigureVitBlocks
    PROVE  ConfigInv'
<1> DEFINE new == [plan EXCEPT !.vit = TRUE, !.complete = FALSE,
                     !.vit_scratch = @ \/ plan.execution_mode = "fixed"]
<1>1. WellFormed(plan) /\ plan \in PlanType  BY DEF ConfigInv, WellFormed
<1>2. /\ plan.recorder = "none" /\ Configure(new)
      /\ VitRecords \cap (plan.stage \cup plan.split) = {}
  BY DEF ConfigureVitBlocks, Fp8Ready
<1>3. new \in PlanType  BY <1>1, FieldEdits
<1>4. DrawnWhole(new)
  <2>1. new.transitions = plan.transitions  BY <1>1 DEF PlanType
  <2> HIDE DEF new
  <2> QED  BY <1>1, <2>1 DEF WellFormed, DrawnWhole
<1>5. WellFormed(new)
  BY <1>1, <1>2, <1>3, <1>4 DEF PlanType, WellFormed, OneRecorder, Disjoint
<1> QED  BY <1>2, <1>5, ConfigureKeeps

\* The bottleneck.
LEMMA BottleneckKeeps ==
    ASSUME ConfigInv, ConfigureBottleneck
    PROVE  ConfigInv'
<1> DEFINE fixed == plan.execution_mode = "fixed"
<1> DEFINE target == IF fixed THEN Larger(plan.target, Level(512)) ELSE plan.target
<1> DEFINE new == [plan EXCEPT !.bottleneck = TRUE, !.complete = FALSE,
                     !.bottleneck_skip = plan.bottleneck_skip \/ fixed,
                     !.target = target]
<1>1. WellFormed(plan) /\ plan \in PlanType  BY DEF ConfigInv, WellFormed
<1>2. plan.recorder = "none" /\ Configure(new)
  BY <1>1 DEF ConfigureBottleneck, Fp8Ready, PlanType
<1>3. target \in 0 .. 5
  BY <1>1, LargerRange DEF PlanType, Level
<1>4. new \in PlanType
  <2> HIDE DEF target
  <2> QED  BY <1>1, <1>3, FieldEdits
<1>5. WellFormed(new)
  BY <1>1, <1>2, <1>4 DEF PlanType, WellFormed, OneRecorder, Disjoint, DrawnWhole
<1> QED  BY <1>2, <1>5, ConfigureKeeps

\* The eight transitions.
LEMMA TransitionsKeep ==
    ASSUME ConfigInv, ConfigureScaleTransitions
    PROVE  ConfigInv'
<1> DEFINE new == [plan EXCEPT !.transitions = ScaleTransitions, !.complete = FALSE,
                     !.target = Level(32), !.skips = {32, 64, 128, 256}]
<1>1. WellFormed(plan) /\ plan \in PlanType  BY DEF ConfigInv, WellFormed
<1>2. plan.recorder = "none" /\ plan.stage # {} /\ Configure(new)
  BY FS_EmptySet DEF ConfigureScaleTransitions, Fp8Ready
<1>3. new \in PlanType
  <2> DEFINE drawn == [plan EXCEPT !.transitions = ScaleTransitions]
  <2> DEFINE unlabelled == [drawn EXCEPT !.complete = FALSE]
  <2> DEFINE sized == [unlabelled EXCEPT !.target = Level(32)]
  <2>1. Level(32) \in 0 .. 5  BY DEF Level
  <2>2. drawn \in PlanType  BY <1>1, Transitions, FieldEdits
  <2>3. unlabelled \in PlanType  BY <2>2, FieldEdits
  <2>4. sized \in PlanType
    <3> HIDE DEF unlabelled
    <3> QED  BY <2>1, <2>3, FieldEdits
  <2>5. [sized EXCEPT !.skips = {32, 64, 128, 256}] \in PlanType
    <3> HIDE DEF sized
    <3>1. \A x \in SUBSET {32, 64, 128, 256} : [sized EXCEPT !.skips = x] \in PlanType
      BY <2>4, FieldEdits
    <3>2. {32, 64, 128, 256} \in SUBSET {32, 64, 128, 256}
      OBVIOUS
    <3> QED  BY <3>1, <3>2, Zenon
  <2> QED  BY <2>5
<1>4. WellFormed(new)
  BY <1>1, <1>2, <1>3 DEF PlanType, WellFormed, OneRecorder, Disjoint, DrawnWhole
<1> QED  BY <1>2, <1>4, ConfigureKeeps

\* The edges refresh the label after they are configured.
LEMMA RefreshKeeps ==
    ASSUME NEW p \in PlanType, OneRecorder(p), Disjoint(p), DrawnWhole(p)
    PROVE  WellFormed(RefreshComplete(p))
<1>1. RefreshComplete(p) \in PlanType
  <2>1. IsComplete(p) \in BOOLEAN  BY DEF IsComplete, PlanType
  <2> QED  BY <2>1, FieldEdits DEF RefreshComplete
<1> QED
  BY <1>1 DEF PlanType, RefreshComplete, WellFormed, IsComplete, OneRecorder, Disjoint,
              DrawnWhole

\* Pre refreshes the label.
LEMMA PreKeeps ==
    ASSUME ConfigInv, ConfigurePre
    PROVE  ConfigInv'
<1> DEFINE new == [plan EXCEPT !.pre = TRUE, !.edge = TRUE,
                     !.target = Larger(plan.target, Level(32))]
<1>1. WellFormed(plan) /\ plan \in PlanType  BY DEF ConfigInv, WellFormed
<1>2. plan.recorder = "none" /\ Configure(RefreshComplete(new))
  BY <1>1 DEF ConfigurePre, EdgeReady, Fp8Ready, PlanType
<1>3. Larger(plan.target, Level(32)) \in 0 .. 5
  BY <1>1, LargerRange DEF PlanType, Level
<1>4. new \in PlanType  BY <1>1, <1>3, FieldEdits
<1>5. OneRecorder(new) /\ Disjoint(new) /\ DrawnWhole(new)
  BY <1>1, <1>2 DEF PlanType, WellFormed, OneRecorder, Disjoint, DrawnWhole
<1> HIDE DEF new
<1> QED  BY <1>2, <1>4, <1>5, RefreshKeeps, ConfigureKeeps

\* Head refreshes the label: it is the part that completes a network.
LEMMA HeadKeeps ==
    ASSUME ConfigInv, ConfigureHead
    PROVE  ConfigInv'
<1> DEFINE new == [plan EXCEPT !.head = TRUE]
<1>1. WellFormed(plan) /\ plan \in PlanType  BY DEF ConfigInv, WellFormed
<1>2. plan.recorder = "none" /\ Configure(RefreshComplete(new))
  BY DEF ConfigureHead, EdgeReady, Fp8Ready
<1>3. new \in PlanType  BY <1>1, FieldEdits
<1>4. OneRecorder(new) /\ Disjoint(new) /\ DrawnWhole(new)
  BY <1>1, <1>2 DEF PlanType, WellFormed, OneRecorder, Disjoint, DrawnWhole
<1> HIDE DEF new
<1> QED  BY <1>2, <1>3, <1>4, RefreshKeeps, ConfigureKeeps

-----------------------------------------------------------------------------
(* The single-scale debug calls leave the label alone when they append a   *)
(* decoder transition: two transitions are not the network's eight.        *)

\* The debug downsample removes the label.
LEMMA DebugEncoderKeeps ==
    ASSUME ConfigInv, DebugEncoderTransition
    PROVE  ConfigInv'
<1> PICK a \in DebugAnchors \cap plan.stage :
        Configure([plan EXCEPT !.transitions = {<<"down", a>>}, !.complete = FALSE,
                     !.target = Level(2 * StageChannels(a)), !.skips = {StageChannels(a)}])
  BY DEF DebugEncoderTransition
<1> DEFINE drawn == [plan EXCEPT !.transitions = {<<"down", a>>}]
<1> DEFINE unlabelled == [drawn EXCEPT !.complete = FALSE]
<1> DEFINE sized == [unlabelled EXCEPT !.target = Level(2 * StageChannels(a))]
<1> DEFINE new == [sized EXCEPT !.skips = {StageChannels(a)}]
<1>1. WellFormed(plan) /\ plan \in PlanType  BY DEF ConfigInv, WellFormed
<1>2. plan.recorder = "none"  BY DEF DebugEncoderTransition, Fp8Ready
<1>3. Level(2 * StageChannels(a)) \in 0 .. 5  BY DEF Level
<1>4. {StageChannels(a)} \in SUBSET {32, 64, 128, 256}
  BY StageWidths
<1>5. drawn \in PlanType
  <2>1. {<<"down", a>>} \in SUBSET ({"down", "up"} \X (1 .. 69))
    BY ConfigAssumption
  <2> QED  BY <1>1, <2>1, FieldEdits
<1>6. unlabelled \in PlanType
  <2> HIDE DEF drawn
  <2> QED  BY <1>5, FieldEdits
<1>7. sized \in PlanType
  <2> HIDE DEF unlabelled
  <2> QED  BY <1>3, <1>6, FieldEdits
<1>8. new \in PlanType
  <2> HIDE DEF sized
  <2>1. \A x \in SUBSET {32, 64, 128, 256} : [sized EXCEPT !.skips = x] \in PlanType
    BY <1>7, FieldEdits
  <2> QED  BY <2>1, <1>4, Zenon
<1>9. DrawnWhole(new)
  <2>1. new.transitions = {<<"down", a>>}  BY <1>1 DEF PlanType
  <2>2. new.transitions \subseteq {<<"down", a>>, <<"down", a>>}  BY <2>1
  <2> HIDE DEF new
  <2> QED  BY <2>2 DEF DrawnWhole
<1>10. WellFormed(new)
  BY <1>1, <1>2, <1>8, <1>9 DEF PlanType, WellFormed, OneRecorder, Disjoint
<1> QED  BY <1>10, ConfigureKeeps

\* The debug upsample keeps a label that is not there.
LEMMA DebugDecoderKeeps ==
    ASSUME ConfigInv, DebugAppendDecoderTransition
    PROVE  ConfigInv'
<1> PICK a \in 1 .. 69, d \in DebugAnchors \cap plan.stage :
        /\ plan.transitions = {<<"down", a>>}
        /\ Configure([plan EXCEPT !.transitions = @ \cup {<<"up", d>>},
                        !.target = Larger(@, Level(StageChannels(d)))])
  BY DEF DebugAppendDecoderTransition
<1> DEFINE drawn == [plan EXCEPT !.transitions = plan.transitions \cup {<<"up", d>>}]
<1> DEFINE target == Larger(plan.target, Level(StageChannels(d)))
<1> DEFINE new == [drawn EXCEPT !.target = target]
<1>1. WellFormed(plan) /\ plan \in PlanType  BY DEF ConfigInv, WellFormed
<1>2. plan.recorder = "none" /\ Configure(new)
  BY <1>1 DEF DebugAppendDecoderTransition, Fp8Ready, PlanType
<1>3. target \in 0 .. 5
  <2>1. Level(StageChannels(d)) \in 0 .. 5  BY DEF Level
  <2>2. plan.target \in 0 .. 5  BY <1>1 DEF PlanType
  <2> QED  BY <2>1, <2>2, LargerRange
<1>4. drawn \in PlanType
  <2>1. plan.transitions \cup {<<"up", d>>} \in SUBSET ({"down", "up"} \X (1 .. 69))
    BY ConfigAssumption
  <2> QED  BY <1>1, <2>1, FieldEdits
<1>5. new \in PlanType
  <2> HIDE DEF drawn, target
  <2> QED  BY <1>3, <1>4, FieldEdits
<1>6. ~plan.complete
  <2>1. plan.transitions \subseteq {<<"down", a>>, <<"down", a>>}  OBVIOUS
  <2>2. Cardinality(plan.transitions) # 8  BY <2>1, FewAreNotEight
  <2> QED  BY <1>1, <2>2 DEF WellFormed, IsComplete
<1>7. DrawnWhole(new)
  <2>1. new.transitions = {<<"down", a>>} \cup {<<"up", d>>}  BY <1>1 DEF PlanType
  <2>2. new.transitions \subseteq {<<"down", a>>, <<"up", d>>}  BY <2>1
  <2> HIDE DEF new
  <2> QED  BY <2>2 DEF DrawnWhole
<1>8. WellFormed(new)
  <2> HIDE DEF target
  <2> QED
    BY <1>1, <1>2, <1>5, <1>6, <1>7 DEF PlanType, WellFormed, OneRecorder, Disjoint
<1> QED  BY <1>2, <1>8, ConfigureKeeps

-----------------------------------------------------------------------------
(* Finalize, adoption and frames touch the graph, the chain and the frame. *)

\* None of the three edits the configuration, and only a bare plan adopts.
LEMMA GraphKeeps ==
    ASSUME ConfigInv, Finalize \/ AdoptGraph \/ Submit
    PROVE  ConfigInv'
<1>1. CASE Finalize
  <2>1. plan' = plan  BY <1>1 DEF Finalize
  <2>2. graph'.state = "adopted" => graph.state = "adopted"
    <3>1. \/ graph' = graph
          \/ \E w : graph' = [state |-> "owned", wrong |-> w]
      BY <1>1 DEF Finalize
    <3> QED  BY <3>1
  <2> QED  BY <2>1, <2>2 DEF ConfigInv, Builtin
<1>2. CASE AdoptGraph
  <2>1. plan' = plan /\ plan.recorder = "none" /\ ~Builtin
    BY <1>2 DEF AdoptGraph
  <2> QED  BY <2>1 DEF ConfigInv, Builtin
<1>3. CASE Submit
  <2>1. plan' = plan /\ graph' = graph  BY <1>3 DEF Submit
  <2> QED  BY <2>1 DEF ConfigInv, Builtin
<1> QED  BY <1>1, <1>2, <1>3

\* Every step keeps the configuration well formed.
LEMMA ConfigStep == ConfigInv /\ [Next]_vars => ConfigInv'
<1> SUFFICES ASSUME ConfigInv, [Next]_vars PROVE ConfigInv'
  OBVIOUS
<1>1. CASE UNCHANGED vars
  BY <1>1 DEF vars, ConfigInv, Builtin
<1>2. CASE \/ SetPrecisionProfile \/ SetExecutionMode \/ SetFixedHostBoundaries
           \/ UploadWeights \/ LoadModelPackage \/ ConfigureArena \/ PrepareShape
  BY <1>2, SettingsKeep
<1>3. CASE SetRecorder  BY <1>3, RecorderKeeps
<1>4. CASE ConfigureStageBlocks  BY <1>4, StageKeeps
<1>5. CASE ConfigureSplit512Blocks  BY <1>5, SplitKeeps
<1>6. CASE ConfigureVitBlocks  BY <1>6, VitKeeps
<1>7. CASE ConfigureBottleneck  BY <1>7, BottleneckKeeps
<1>8. CASE ConfigureScaleTransitions  BY <1>8, TransitionsKeep
<1>9. CASE ConfigurePre  BY <1>9, PreKeeps
<1>10. CASE ConfigureHead  BY <1>10, HeadKeeps
<1>11. CASE DebugEncoderTransition  BY <1>11, DebugEncoderKeeps
<1>12. CASE DebugAppendDecoderTransition  BY <1>12, DebugDecoderKeeps
<1>13. CASE Finalize \/ AdoptGraph \/ Submit  BY <1>13, GraphKeeps
<1> QED
  BY <1>1, <1>2, <1>3, <1>4, <1>5, <1>6, <1>7, <1>8, <1>9, <1>10, <1>11,
     <1>12, <1>13 DEF Next

\* The configuration stays well formed under every sequence of calls,
\* refusals and failures (nrPlanSet*, nrPlanConfigure*, nrPlanFinalize).
THEOREM ConfigInvariant == Spec => []ConfigInv
  BY ConfigInit, ConfigStep, PTL DEF Spec

\* The configuration fields of struct NRPlan keep their types.
THEOREM PlanTypeCorrect == Spec => [](plan \in PlanType)
  BY ConfigInvariant, ConfigInvIsEnough, PTL

\* A plan the code labels complete has every part of the network but, at
\* most, one block between the first and the last, in whose place the stage
\* list holds record 39.
LEMMA LabelOf ==
    ASSUME NEW p, WellFormed(p), p.complete
    PROVE  /\ \/ p.stage = WideRecords
              \/ \E r \in WideRecords \ {1, 69} : p.stage = (WideRecords \ {r}) \cup {39}
           /\ p.split = SplitRecords /\ p.vit /\ p.bottleneck
           /\ p.transitions = ScaleTransitions
           /\ p.pre /\ p.head
<1>1. IsComplete(p) /\ p \in PlanType  BY DEF WellFormed
<1>2. p.split = SplitRecords
  <2>1. p.split \in SUBSET SplitRecords  BY <1>1 DEF PlanType
  <2>2. Cardinality(p.split) = 16  BY <1>1 DEF IsComplete
  <2> QED  BY <2>1, <2>2, SplitSize, FS_Subset
<1>3. p.transitions = ScaleTransitions
  <2>1. Cardinality(p.transitions) = 8  BY <1>1 DEF IsComplete
  <2> QED  BY <2>1, FewAreNotEight DEF WellFormed, DrawnWhole
<1>4. p.vit /\ p.bottleneck /\ p.pre /\ p.head  BY <1>1 DEF IsComplete
<1>5. p.stage \in SUBSET (WideRecords \cup {39})
  <2>1. p.stage \in SUBSET (1 .. 69)  BY <1>1 DEF PlanType
  <2>2. p.stage \cap SplitRecords = {} /\ p.stage \cap VitRecords = {}
    BY <1>2, <1>4 DEF WellFormed, Disjoint
  <2>3. \A r \in 1 .. 69 :
          r \in WideRecords \/ r = 39 \/ r \in SplitRecords \/ r \in VitRecords
    BY DEF WideRecords, SplitRecords, VitRecords
  <2> QED  BY <2>1, <2>2, <2>3
<1>6. Cardinality(p.stage) = 44 /\ 1 \in p.stage /\ 69 \in p.stage
  BY <1>1 DEF IsComplete
<1>7. PICK x : (WideRecords \cup {39}) \ p.stage = {x}
  <2> DEFINE all == WideRecords \cup {39}
  <2>1. IsFiniteSet(all) /\ Cardinality(all) = 45  BY StageSize
  <2>2. all \cap p.stage = p.stage  BY <1>5
  <2> HIDE DEF all
  <2>3. IsFiniteSet(all \ p.stage) /\ Cardinality(all \ p.stage) = 1
    <3>1. /\ IsFiniteSet(all \ p.stage)
          /\ Cardinality(all \ p.stage) = Cardinality(all) - Cardinality(all \cap p.stage)
      BY <2>1, FS_Difference
    <3> QED  BY <1>6, <2>1, <2>2, <3>1
  <2>4. \E x : all \ p.stage = {x}  BY <2>3, FS_Singleton
  <2> QED  BY <2>4 DEF all
<1>8. p.stage = (WideRecords \cup {39}) \ {x} /\ x \notin {1, 69}
  BY <1>5, <1>6, <1>7
<1>9. 39 \notin WideRecords  BY DEF WideRecords
<1>10. CASE x = 39
  <2>1. p.stage = WideRecords  BY <1>8, <1>9, <1>10
  <2> QED  BY <1>2, <1>3, <1>4, <2>1
<1>11. CASE x # 39
  <2>1. x \in WideRecords \ {1, 69}  BY <1>7, <1>8, <1>11
  <2>2. p.stage = (WideRecords \ {x}) \cup {39}  BY <1>8, <1>9, <1>11
  <2> QED  BY <1>2, <1>3, <1>4, <2>1, <2>2
<1> QED  BY <1>10, <1>11

\* complete_native_topology, on which the deployment gate rests, is only on
\* a plan that holds the whole network or misses a single block of it, for
\* which its stage list names record 39, however the plan was configured:
\* refresh_complete_native_topology counts the blocks and looks at two of them.
THEOREM LabelIsWorth == Spec => []LabelMissesAtMostOne
<1>1. ConfigInv => LabelMissesAtMostOne
  BY LabelOf DEF ConfigInv, LabelMissesAtMostOne
<1> QED  BY <1>1, ConfigInvariant, PTL

\* A plan never mixes an external recorder, an adopted graph and the
\* built-in topology.
THEOREM OneTopologyHolds == Spec => []OneTopology
  BY ConfigInvariant, ConfigInvIsEnough, PTL

\* No two lists of a plan hold the same record, so no walk runs one twice.
THEOREM NoRecordTwiceHolds == Spec => []NoRecordTwice
  BY ConfigInvariant, ConfigInvIsEnough, PTL

-----------------------------------------------------------------------------
(* The walk over a whole network.  Before block r runs, the image it is to *)
(* read lies in Source; after it, its own image lies in Sink; the images   *)
(* the decoder adds back lie where the encoder left them.                  *)

Images == {"stale", "input", "pre", "block", "encoder", "decoder", "down", "up", "head"}
          \X (0 .. 70)
Widths == {32, 64, 128, 256, 512, 1024}
ChannelCounts == {0} \cup Widths
ChainType == [buffer : Buffers, channels : ChannelCounts]
WalkType == [ok : BOOLEAN, chain : ChainType, wrong : SUBSET Images,
             mem : [Buffers -> Images]]

(* A plan whose walk covers the network: the whole trunk, the edges only   *)
(* where the walk is resident, the pools sized for the eight transitions.  *)
TrunkOf(p) ==
    /\ p.stage = WideRecords /\ p.split = SplitRecords
    /\ p.vit /\ p.bottleneck
    /\ p.transitions = ScaleTransitions

Walkable(p, resident) ==
    /\ p \in PlanType /\ TrunkOf(p)
    /\ p.target = 5 /\ p.skips = {32, 64, 128, 256}
    /\ p.head => p.pre
    /\ p.pre => resident

(* Every other buffer a resident walk needs.                               *)
Sized(p) == p.scratch = 5 /\ p.vit_scratch /\ p.bottleneck_skip /\ p.edge /\ p.lut

Source(p, resident, r) ==
    IF resident
    THEN CASE r = 1 -> IF p.pre THEN Target ELSE Ping(32)
           [] r \in DecoderAnchors \cup {5, 9, 15, 23, 40} -> Target
           [] r \in VitRecords -> VitSlot
           [] OTHER -> Scratch
    ELSE IF r \in VitRecords THEN VitInput(r) ELSE Ping(Channels(r))

Sink(resident, r) ==
    IF resident THEN IF r \in VitRecords THEN VitSlot ELSE Scratch
    ELSE IF r \in VitRecords THEN VitOutput(r) ELSE Ping(Channels(r))

Fed(p, resident, r, m) ==
    /\ m.mem[Source(p, resident, r)] = Feeds(p, r)
    /\ resident => m.chain = IF r = 1 /\ ~p.pre THEN NoChain
                             ELSE Chain(Source(p, resident, r), Channels(r))

Made(resident, r, m) ==
    /\ m.mem[Sink(resident, r)] = Block(r)
    /\ r \notin VitRecords => m.mem[Fp16] = Block(r)
    /\ resident => m.chain = Chain(Sink(resident, r), Channels(r))

SkipOf(resident, ch) == IF resident THEN Pool(ch) ELSE Skip(ch)
CentralOf(resident) == IF resident THEN CentralSkip ELSE Skip(512)

Kept(p, resident, r, m) ==
    /\ \A a \in EncoderAnchors : a < r => m.mem[SkipOf(resident, Channels(a))] = Block(a)
    /\ r > 30 => m.mem[CentralOf(resident)] = Block(30)
    /\ p.pre => m.mem[PreSkip] = <<"pre", 0>>

(* What holds once record r is done: the next block is fed, or its         *)
(* upsample will feed it.  There is no record 39.                          *)
Following(r) == IF r = 38 THEN 40 ELSE r + 1

Passed(p, resident, r, m) ==
    IF r = 69 \/ r + 1 \in DecoderAnchors THEN Made(resident, r, m)
    ELSE Fed(p, resident, Following(r), m)

Right(p, resident, fault, r, m) ==
    /\ m \in WalkType
    /\ m.wrong = {}
    /\ m.ok => Passed(p, resident, r, m) /\ Kept(p, resident, r + 1, m)
    /\ Sized(p) /\ fault = NoFault => m.ok

(* What a block, or a whole record, makes of a walk that was fed.          *)
Ran(p, resident, fault, r, m, n) ==
    /\ n.wrong = m.wrong
    /\ n.ok => Made(resident, r, n) /\ Kept(p, resident, r, n)
    /\ Sized(p) /\ fault = NoFault => n.ok

Advanced(p, resident, fault, r, m, n) ==
    /\ n \in WalkType
    /\ n.wrong = m.wrong
    /\ n.ok => Passed(p, resident, r, n) /\ Kept(p, resident, r + 1, n)
    /\ Sized(p) /\ fault = NoFault => n.ok
-----------------------------------------------------------------------------
(* Induction over the records of a walk, as a fact about sets.             *)

\* A set of numbers that holds 0 and every successor holds them all.
LEMMA SetInduction ==
    ASSUME NEW T \in SUBSET Nat, 0 \in T, \A n \in T : n + 1 \in T
    PROVE  T = Nat
<1> DEFINE R == {ss \in Nat \X Nat : ss[1] < ss[2]}
<1> DEFINE Missing == Nat \ T
<1>1. IsWellFoundedOn(R, Nat)
  BY NatLessThanWellFounded DEF OpToRel
<1>2. ASSUME Missing # {} PROVE FALSE
  <2>1. \E x \in Missing : \A y \in Missing : ~(<<y, x>> \in R)
    <3> DEFINE V == Missing
    <3>1. V \subseteq Nat /\ V # {}  BY <1>2
    <3> HIDE DEF R, V
    <3>2. \E x \in V : \A y \in V : ~(<<y, x>> \in R)
      BY <3>1, <1>1, WFMin
    <3> QED  BY <3>2 DEF V
  <2>2. PICK x \in Missing : \A y \in Missing : ~(<<y, x>> \in R)
    BY <2>1
  <2>3. x # 0 /\ x - 1 \in Nat /\ x - 1 < x  OBVIOUS
  <2>4. x - 1 \in T  BY <2>2, <2>3
  <2>5. (x - 1) + 1 = x  BY <2>3
  <2> QED  BY <2>4, <2>5
<1> QED  BY <1>2

\* The same up to a bound.
LEMMA BoundedInduction ==
    ASSUME NEW k \in Nat, NEW T \in SUBSET (0 .. k), 0 \in T,
           \A n \in T : n < k => n + 1 \in T
    PROVE  T = 0 .. k
<1> DEFINE S == T \cup {n \in Nat : n > k}
<1>1. S \in SUBSET Nat /\ 0 \in S
  <2>1. \A n \in T : n \in 0 .. k  OBVIOUS
  <2>2. \A n \in S : n \in Nat  BY <2>1
  <2>3. S \subseteq Nat  BY <2>2
  <2> QED  BY <2>3
<1>3. ASSUME NEW n \in S PROVE n + 1 \in S
  <2>1. CASE n > k  BY <2>1, <1>1
  <2>2. CASE n \in T /\ n < k  BY <2>2
  <2>3. CASE n \in T /\ n = k  BY <2>3
  <2> QED  BY <2>1, <2>2, <2>3, <1>1
<1>2. S = Nat
  <2> HIDE DEF S
  <2> QED  BY <1>1, <1>3, SetInduction
<1>4. \A n \in 0 .. k : n \in S /\ ~(n > k)
  <2> HIDE DEF S
  <2> QED  BY <1>2
<1>5. \A n \in 0 .. k : n \in T  BY <1>4
<1> QED  BY <1>5

\* The walk is defined for every record: it unfolds one record at a time.
LEMMA WalkUnfolds ==
    ASSUME NEW p, NEW start, NEW recording, NEW fault
    PROVE  LET walk == Walked(p, start, recording, fault)
           IN  walk = [r \in 0 .. 69 |->
                 IF r = 0 THEN RecordPre(p, fault, Start(p, start, recording))
                 ELSE LET m == walk[r - 1]
                      IN  IF m.ok /\ r \in Records(p)
                          THEN At(p, Resident(p, recording), fault, r, m) ELSE m]
<1> DEFINE First == RecordPre(p, fault, Start(p, start, recording))
<1> DEFINE Then(r, m) == IF m.ok /\ r \in Records(p)
                         THEN At(p, Resident(p, recording), fault, r, m) ELSE m
<1> DEFINE Unfolds(g, k) ==
             g = [r \in 0 .. k |-> IF r = 0 THEN First ELSE Then(r, g[r - 1])]
<1> DEFINE T == {k \in 0 .. 69 : \E g : Unfolds(g, k)}
<1> HIDE DEF First, Then
<1>1. 0 \in T
  <2> DEFINE h == [r \in 0 .. 0 |-> First]
  <2>1. Unfolds(h, 0)
    <3>1. \A r \in 0 .. 0 : First = IF r = 0 THEN First ELSE Then(r, h[r - 1])
      OBVIOUS
    <3> QED  BY <3>1
  <2>2. \E g : Unfolds(g, 0)
    <3> HIDE DEF h
    <3> QED  BY <2>1
  <2> QED  BY <2>2
<1>2. ASSUME NEW n \in T, n < 69 PROVE n + 1 \in T
  <2>0. n \in 0 .. 69  OBVIOUS
  <2>1. PICK g : Unfolds(g, n)  OBVIOUS
  <2> DEFINE h == [r \in 0 .. n + 1 |-> IF r <= n THEN g[r] ELSE Then(r, g[n])]
  <2>2. \A r \in 0 .. n + 1 : h[r] = IF r = 0 THEN First ELSE Then(r, h[r - 1])
    <3> TAKE r \in 0 .. n + 1
    <3>1. CASE r = 0  BY <2>1, <3>1
    <3>2. CASE r # 0 /\ r <= n
      <4>1. r - 1 \in 0 .. n /\ r \in 0 .. n  BY <3>2
      <4>2. h[r] = g[r] /\ h[r - 1] = g[r - 1]
        <5>1. r \in 0 .. n + 1 /\ r - 1 \in 0 .. n + 1 /\ r - 1 <= n
          BY <2>0, <3>2
        <5> QED  BY <3>2, <5>1
      <4>3. g[r] = Then(r, g[r - 1])  BY <2>1, <3>2, <4>1
      <4> QED  BY <3>2, <4>2, <4>3
    <3>3. CASE r = n + 1
      <4>1. r - 1 = n /\ h[r] = Then(r, g[n]) /\ h[n] = g[n]  BY <3>3
      <4> QED  BY <3>3, <4>1
    <3>4. r = 0 \/ (r # 0 /\ r <= n) \/ r = n + 1  BY <2>0
    <3> QED  BY <3>1, <3>2, <3>3, <3>4
  <2>3. Unfolds(h, n + 1)
    <3> HIDE DEF h
    <3>1. h = [r \in 0 .. n + 1 |-> h[r]]  BY DEF h
    <3> QED  BY <3>1, <2>2
  <2>4. n + 1 \in 0 .. 69  BY <1>2
  <2>5. \E f : Unfolds(f, n + 1)
    <3> HIDE DEF h
    <3> QED  BY <2>3
  <2> QED  BY <2>4, <2>5
<1>3. T = 0 .. 69
  <2>1. T \in SUBSET (0 .. 69)  OBVIOUS
  <2> HIDE DEF T
  <2> QED  BY <1>1, <1>2, <2>1, BoundedInduction
<1>4. \E g : Unfolds(g, 69)
  <2>1. 69 \in T
    <3> HIDE DEF T
    <3> QED  BY <1>3
  <2> QED  BY <2>1
<1> QED
  BY <1>4 DEF Walked, First, Then
-----------------------------------------------------------------------------
(* Images, buffers and one launch.                                         *)

\* Every operation of the network names an image.
LEMMA ImageNames ==
    /\ \A r \in 0 .. 70 :
         \A name \in {"pre", "block", "encoder", "decoder", "down", "up", "head"} :
           <<name, r>> \in Images
    /\ \A r \in 0 .. 70 : Block(r) \in Images
    /\ Stale \in Images /\ Input \in Images
<1>1. \A r \in 0 .. 70 :
         \A name \in {"stale", "input", "pre", "block", "encoder", "decoder", "down",
                       "up", "head"} :
           <<name, r>> \in Images
  BY DEF Images
<1> HIDE DEF Images
<1>2. \A r \in 0 .. 70 : Block(r) \in Images  BY <1>1 DEF Block
<1>3. Stale \in Images /\ Input \in Images
  <2>1. 0 \in 0 .. 70  OBVIOUS
  <2>2. <<"stale", 0>> \in Images /\ <<"input", 0>> \in Images  BY <1>1, <2>1
  <2> QED  BY <2>2 DEF Stale, Input
<1> QED  BY <1>1, <1>2, <1>3

\* Every arena region and every plan-owned allocation is a buffer.
LEMMA BufferNames ==
    /\ \A ch \in {32, 64, 128, 256, 512, 1024} : Ping(ch) \in Buffers
    /\ \A ch \in {32, 64, 128, 256, 512} : Skip(ch) \in Buffers
    /\ \A ch \in {32, 64, 128, 256} : Pool(ch) \in Buffers
    /\ {Fp16, Pong, Scratch, Target, VitSlot, CentralSkip, PreSkip, Output} \subseteq Buffers
  BY DEF Buffers

\* The buffers are distinct.
LEMMA BuffersDiffer ==
    /\ \A c, d : /\ Ping(c) # Skip(d) /\ Ping(c) # Pool(d) /\ Skip(c) # Pool(d)
                 /\ Ping(c) = Ping(d) => c = d
                 /\ Skip(c) = Skip(d) => c = d
                 /\ Pool(c) = Pool(d) => c = d
    /\ \A c : \A b \in {Fp16, Pong, Scratch, Target, VitSlot, CentralSkip, PreSkip, Output} :
         Ping(c) # b /\ Skip(c) # b /\ Pool(c) # b
    /\ Fp16 # Pong /\ Fp16 # Scratch /\ Fp16 # Target /\ Fp16 # VitSlot
    /\ Fp16 # CentralSkip /\ Fp16 # PreSkip /\ Fp16 # Output
    /\ Pong # Scratch /\ Pong # Target /\ Pong # VitSlot /\ Pong # CentralSkip
    /\ Pong # PreSkip /\ Pong # Output
    /\ Scratch # Target /\ Scratch # VitSlot /\ Scratch # CentralSkip
    /\ Scratch # PreSkip /\ Scratch # Output
    /\ Target # VitSlot /\ Target # CentralSkip /\ Target # PreSkip /\ Target # Output
    /\ VitSlot # CentralSkip /\ VitSlot # PreSkip /\ VitSlot # Output
    /\ CentralSkip # PreSkip /\ CentralSkip # Output /\ PreSkip # Output
  BY DEF Ping, Skip, Pool, Fp16, Pong, Scratch, Target, VitSlot, CentralSkip, PreSkip,
         Output

\* The channel counts of the records, family by family and at the anchors.
LEMMA ChannelRange ==
    /\ \A r \in 0 .. 70 : Channels(r) \in {32, 64, 128, 256, 512, 1024}
    /\ \A r \in WideRecords : Channels(r) \in {32, 64, 128, 256}
    /\ \A r \in SplitRecords : Channels(r) = 512
    /\ \A r \in VitRecords : Channels(r) = 1024
    /\ Channels(1) = 32 /\ Channels(69) = 32
    /\ Channels(4) = 32 /\ Channels(8) = 64 /\ Channels(14) = 128 /\ Channels(22) = 256
    /\ Channels(48) = 256 /\ Channels(56) = 128 /\ Channels(62) = 64 /\ Channels(66) = 32
  BY DEF Channels, WideRecords, SplitRecords, VitRecords

\* A launch that does not fault writes, moves the chain, and is right when
\* every buffer it reads holds the image it should.
LEMMA Launched ==
    ASSUME NEW m \in WalkType, m.ok, NEW op \in Images, NEW fault, NEW reads,
           NEW mem \in [Buffers -> Images],
           NEW c \in ChainType
    PROVE  /\ Launch(m, op, fault, reads, mem, c) \in WalkType
           /\ Launch(m, op, fault, reads, mem, c).ok = (op # fault)
           /\ op # fault =>
                /\ Launch(m, op, fault, reads, mem, c).mem = mem
                /\ Launch(m, op, fault, reads, mem, c).chain = c
           /\ op = fault => Launch(m, op, fault, reads, mem, c).chain = m.chain
           /\ (\A read \in reads : m.mem[read[1]] = read[2]) =>
                Launch(m, op, fault, reads, mem, c).wrong = m.wrong
<1>1. CASE op = fault
  BY <1>1 DEF Launch, Refuse, WalkType
<1>2. CASE op # fault
  <2> DEFINE w == IF \A read \in reads : m.mem[read[1]] = read[2]
                  THEN m.wrong ELSE m.wrong \cup {op}
  <2>1. w \in SUBSET Images  BY DEF WalkType
  <2>2. Launch(m, op, fault, reads, mem, c) =
          [m EXCEPT !.mem = mem, !.chain = c, !.wrong = w]
    BY <1>2 DEF Launch, WalkType
  <2> HIDE DEF w
  <2>3. [m EXCEPT !.mem = mem, !.chain = c, !.wrong = w] \in WalkType
    BY <2>1 DEF WalkType
  <2>4. /\ [m EXCEPT !.mem = mem, !.chain = c, !.wrong = w].ok = m.ok
        /\ [m EXCEPT !.mem = mem, !.chain = c, !.wrong = w].mem = mem
        /\ [m EXCEPT !.mem = mem, !.chain = c, !.wrong = w].chain = c
        /\ [m EXCEPT !.mem = mem, !.chain = c, !.wrong = w].wrong = w
    BY DEF WalkType
  <2> QED  BY <1>2, <2>2, <2>3, <2>4 DEF w
<1> QED  BY <1>1, <1>2

\* A launch that does not fault goes on.
LEMMA LaunchGoes ==
    ASSUME NEW m \in WalkType, m.ok, NEW op \in Images, NEW fault, op # fault, NEW reads,
           NEW mem \in [Buffers -> Images],
           NEW c \in ChainType
    PROVE  /\ Launch(m, op, fault, reads, mem, c).ok
           /\ Launch(m, op, fault, reads, mem, c).chain = c
<1>1. Launch(m, op, fault, reads, mem, c).ok = (op # fault)  BY Launched
<1>2. Launch(m, op, fault, reads, mem, c).ok  BY <1>1, Zenon
<1>3. Launch(m, op, fault, reads, mem, c).chain = c  BY Launched
<1> QED  BY <1>2, <1>3

\* A refused walk is over, and has read nothing more.
LEMMA Refused ==
    ASSUME NEW m \in WalkType
    PROVE  /\ Refuse(m) \in WalkType
           /\ ~Refuse(m).ok
           /\ Refuse(m).wrong = m.wrong /\ Refuse(m).chain = m.chain
           /\ Refuse(m).mem = m.mem
  BY DEF Refuse, WalkType

-----------------------------------------------------------------------------
(* Whatever the plan, a walk keeps its type.                               *)

\* A buffer and a scale make a chain.
LEMMA ChainTyped ==
    ASSUME NEW b \in Buffers, NEW ch \in ChannelCounts
    PROVE  Chain(b, ch) \in ChainType
  BY DEF Chain, ChainType

\* The fields of a walk in progress.
LEMMA WalkFields ==
    ASSUME NEW m \in WalkType
    PROVE  /\ m.ok \in BOOLEAN /\ m.chain \in ChainType
           /\ m.chain.buffer \in Buffers /\ m.chain.channels \in ChannelCounts
           /\ m.mem \in [Buffers -> Images] /\ m.wrong \in SUBSET Images
  BY DEF WalkType, ChainType

\* One image, or two, written.
LEMMA WriteTyped ==
    ASSUME NEW mem \in [Buffers -> Images], NEW b \in Buffers, NEW i \in Images,
           NEW c \in Buffers, NEW j \in Images
    PROVE  /\ [mem EXCEPT ![b] = i] \in [Buffers -> Images]
           /\ [mem EXCEPT ![b] = i, ![c] = j] \in [Buffers -> Images]
           /\ \A x \in Buffers : [mem EXCEPT ![b] = i][x] = IF x = b THEN i ELSE mem[x]
           /\ \A x \in Buffers : [mem EXCEPT ![b] = i, ![c] = j][x] =
                IF x = c THEN j ELSE IF x = b THEN i ELSE mem[x]
  OBVIOUS

\* What a block is to read is an image.
LEMMA FeedsTyped ==
    ASSUME NEW p, NEW r \in 1 .. 69
    PROVE  Feeds(p, r) \in Images
<1>1. r - 1 \in 0 .. 70 /\ r \in 0 .. 70 /\ 30 \in 0 .. 70 /\ 38 \in 0 .. 70 /\ 0 \in 0 .. 70
  OBVIOUS
<1>2. /\ <<"up", r>> \in Images /\ <<"down", r - 1>> \in Images
      /\ <<"encoder", 30>> \in Images /\ <<"decoder", 38>> \in Images
      /\ <<"pre", 0>> \in Images /\ Block(r - 1) \in Images /\ Input \in Images
  BY <1>1, ImageNames
<1> HIDE DEF Images
<1> QED  BY <1>2 DEF Feeds

\* A Swin block, wide or split, keeps the type.
LEMMA SwinTyped ==
    ASSUME NEW p, NEW resident \in BOOLEAN, NEW fault, NEW r \in 1 .. 69,
           NEW ch \in Widths, NEW m \in WalkType, m.ok
    PROVE  /\ SwinBlock(p, resident, fault, r, ch, m) \in WalkType
           /\ resident /\ ~(p.scratch < Level(ch)) /\ Block(r) # fault =>
                /\ SwinBlock(p, resident, fault, r, ch, m).ok
                /\ SwinBlock(p, resident, fault, r, ch, m).chain = Chain(Scratch, ch)
<1> DEFINE in == IF resident /\ m.chain.channels = ch THEN m.chain.buffer ELSE Ping(ch)
<1> DEFINE out == IF resident THEN Scratch ELSE Ping(ch)
<1> DEFINE mem == [m.mem EXCEPT ![out] = Block(r), ![Fp16] = Block(r)]
<1> DEFINE c == IF resident THEN Chain(Scratch, ch) ELSE m.chain
<1> DEFINE reads == {<<in, Feeds(p, r)>>}
<1>1. out \in Buffers /\ Fp16 \in Buffers /\ Scratch \in Buffers
  BY BufferNames DEF Widths
<1>2. Block(r) \in Images
  <2>1. r \in 0 .. 70  OBVIOUS
  <2> QED  BY <2>1, ImageNames
<1>3. m.mem \in [Buffers -> Images] /\ m.chain \in ChainType  BY WalkFields
<1>4. mem \in [Buffers -> Images]
  <2> HIDE DEF out
  <2> QED  BY <1>1, <1>2, <1>3, WriteTyped
<1>5. c \in ChainType
  BY <1>1, <1>3, ChainTyped DEF ChannelCounts, Widths
<1>6. SwinBlock(p, resident, fault, r, ch, m) =
        IF resident /\ p.scratch < Level(ch) THEN Refuse(m)
        ELSE Launch(m, Block(r), fault, reads, mem, c)
  BY DEF SwinBlock
<1>7. resident => c = Chain(Scratch, ch)  OBVIOUS
<1> HIDE DEF mem, c, reads
<1> QED  BY <1>2, <1>4, <1>5, <1>6, <1>7, Launched, Refused

\* What a resident ViT block insists on.
VitReady(p, resident, m) == resident /\ p.vit_scratch /\ m.chain.channels = 1024

\* A ViT block keeps the type.
LEMMA VitTyped ==
    ASSUME NEW p, NEW resident \in BOOLEAN, NEW fault, NEW r, Block(r) \in Images,
           NEW m \in WalkType, m.ok
    PROVE  /\ VitBlock(p, resident, fault, r, m) \in WalkType
           /\ VitReady(p, resident, m) /\ Block(r) # fault =>
                /\ VitBlock(p, resident, fault, r, m).ok
                /\ VitBlock(p, resident, fault, r, m).chain = Chain(VitSlot, 1024)
<1>1. Block(r) \in Images  OBVIOUS
<1>2. m.mem \in [Buffers -> Images] /\ m.chain \in ChainType  BY WalkFields
<1>3. VitOutput(r) \in Buffers /\ VitSlot \in Buffers
  BY BufferNames DEF VitOutput
<1>4. /\ [m.mem EXCEPT ![VitOutput(r)] = Block(r)] \in [Buffers -> Images]
      /\ [m.mem EXCEPT ![VitSlot] = Block(r)] \in [Buffers -> Images]
  BY <1>1, <1>2, <1>3, WriteTyped
<1>5. Chain(VitSlot, 1024) \in ChainType  BY <1>3, ChainTyped DEF ChannelCounts, Widths
<1> QED
  BY <1>1, <1>2, <1>4, <1>5, Launched, Refused DEF VitBlock, VitReady

\* Whichever list holds it, a block keeps the type.
LEMMA BlockTyped ==
    ASSUME NEW p \in PlanType, NEW resident \in BOOLEAN, NEW fault, NEW r \in 1 .. 69,
           NEW m \in WalkType
    PROVE  RecordBlock(p, resident, fault, r, m) \in WalkType
<1>1. BlockChannels(p, r) \in Widths /\ 512 \in Widths
  BY ChannelRange, StageWidths DEF BlockChannels, Widths
<1>2. CASE m.ok
  <2>1. StageBlock(p, resident, fault, r, m) \in WalkType
    <3>1. SwinBlock(p, resident, fault, r, BlockChannels(p, r), m) \in WalkType
      BY <1>1, <1>2, SwinTyped
    <3> QED  BY <3>1 DEF StageBlock
  <2>3. Split512Block(p, resident, fault, r, m) \in WalkType
    <3>1. \A ch \in Widths : SwinBlock(p, resident, fault, r, ch, m) \in WalkType
      BY <1>2, SwinTyped
    <3> QED  BY <1>1, <3>1 DEF Split512Block
  <2>2. VitBlock(p, resident, fault, r, m) \in WalkType
    <3>1. r \in 0 .. 70  OBVIOUS
    <3>2. Block(r) \in Images  BY <3>1, ImageNames
    <3> QED  BY <1>2, <3>2, VitTyped
  <2> QED  BY <1>2, <2>1, <2>2, <2>3 DEF RecordBlock
<1> QED  BY <1>2 DEF RecordBlock

\* The step into the ViT keeps the type.
LEMMA EncoderBottleneckTyped ==
    ASSUME NEW p, NEW resident \in BOOLEAN, NEW fault, NEW m \in WalkType, m.ok
    PROVE  /\ EncoderBottleneck(p, resident, fault, m) \in WalkType
           /\ resident /\ m.chain.channels = 512 /\ p.bottleneck_skip /\ p.vit_scratch /\ <<"encoder", 30>> # fault =>
                /\ EncoderBottleneck(p, resident, fault, m).ok
                /\ EncoderBottleneck(p, resident, fault, m).chain = Chain(VitSlot, 1024)
<1> DEFINE op == <<"encoder", 30>>
<1>1. op \in Images  BY ImageNames
<1>2. m.mem \in [Buffers -> Images] /\ m.chain \in ChainType /\ m.chain.buffer \in Buffers
  BY WalkFields
<1>3. {Ping(512), Skip(512), Ping(1024), CentralSkip, VitSlot} \subseteq Buffers
  BY BufferNames
<1>4. m.mem[Ping(512)] \in Images /\ m.mem[m.chain.buffer] \in Images
  BY <1>2, <1>3
<1> HIDE DEF op
<1>5. /\ [m.mem EXCEPT ![Skip(512)] = m.mem[Ping(512)], ![Ping(1024)] = op]
           \in [Buffers -> Images]
      /\ [m.mem EXCEPT ![CentralSkip] = m.mem[m.chain.buffer], ![VitSlot] = op]
           \in [Buffers -> Images]
  <2>1. [m.mem EXCEPT ![Skip(512)] = m.mem[Ping(512)], ![Ping(1024)] = op]
          \in [Buffers -> Images]
    BY <1>1, <1>2, <1>3, <1>4, WriteTyped
  <2>2. [m.mem EXCEPT ![CentralSkip] = m.mem[m.chain.buffer], ![VitSlot] = op]
          \in [Buffers -> Images]
    BY <1>1, <1>2, <1>3, <1>4, WriteTyped
  <2> QED  BY <2>1, <2>2
<1>6. Chain(VitSlot, 1024) \in ChainType  BY <1>3, ChainTyped DEF ChannelCounts, Widths
<1>7. EncoderBottleneck(p, resident, fault, m) \in
        {Refuse(m),
         Launch(m, op, fault, {<<Ping(512), Block(30)>>},
           [m.mem EXCEPT ![Skip(512)] = m.mem[Ping(512)], ![Ping(1024)] = op], m.chain),
         Launch(m, op, fault, {<<m.chain.buffer, Block(30)>>},
           [m.mem EXCEPT ![CentralSkip] = m.mem[m.chain.buffer], ![VitSlot] = op],
           Chain(VitSlot, 1024))}
  BY DEF EncoderBottleneck, op
<1>8. ASSUME resident, m.chain.channels = 512, p.bottleneck_skip, p.vit_scratch
      PROVE  EncoderBottleneck(p, resident, fault, m) =
               Launch(m, op, fault, {<<m.chain.buffer, Block(30)>>},
                      [m.mem EXCEPT ![CentralSkip] = m.mem[m.chain.buffer], ![VitSlot] = op], Chain(VitSlot, 1024))
  BY <1>8 DEF EncoderBottleneck, op
<1>9. EncoderBottleneck(p, resident, fault, m) \in WalkType
  BY <1>1, <1>2, <1>5, <1>6, <1>7, Launched, Refused
<1> QED  BY <1>1, <1>2, <1>5, <1>6, <1>8, <1>9, Launched DEF op

\* The step out of the ViT keeps the type.
LEMMA DecoderBottleneckTyped ==
    ASSUME NEW p, NEW resident \in BOOLEAN, NEW fault, NEW m \in WalkType, m.ok
    PROVE  /\ DecoderBottleneck(p, resident, fault, m) \in WalkType
           /\ resident /\ m.chain.channels = 1024 /\ p.bottleneck_skip
                /\ ~(p.target < Level(512)) /\ <<"decoder", 38>> # fault =>
                /\ DecoderBottleneck(p, resident, fault, m).ok
                /\ DecoderBottleneck(p, resident, fault, m).chain = Chain(Target, 512)
<1> DEFINE op == <<"decoder", 38>>
<1>1. op \in Images  BY ImageNames
<1>2. m.mem \in [Buffers -> Images] /\ m.chain \in ChainType
  BY WalkFields
<1>3. {Ping(512), Target} \subseteq Buffers
  BY BufferNames
<1> HIDE DEF op
<1>5. /\ [m.mem EXCEPT ![Ping(512)] = op] \in [Buffers -> Images]
      /\ [m.mem EXCEPT ![Target] = op] \in [Buffers -> Images]
  BY <1>1, <1>2, <1>3, WriteTyped
<1>6. Chain(Target, 512) \in ChainType  BY <1>3, ChainTyped DEF ChannelCounts, Widths
<1>7. DecoderBottleneck(p, resident, fault, m) \in
        {Refuse(m),
         Launch(m, op, fault, {<<Ping(1024), Block(38)>>, <<Skip(512), Block(30)>>},
                [m.mem EXCEPT ![Ping(512)] = op], m.chain),
         Launch(m, op, fault, {<<m.chain.buffer, Block(38)>>, <<CentralSkip, Block(30)>>},
                [m.mem EXCEPT ![Target] = op], Chain(Target, 512))}
  BY DEF DecoderBottleneck, op
<1>8. ASSUME resident, m.chain.channels = 1024, p.bottleneck_skip
             , ~(p.target < Level(512))
      PROVE  DecoderBottleneck(p, resident, fault, m) =
               Launch(m, op, fault, {<<m.chain.buffer, Block(38)>>, <<CentralSkip, Block(30)>>},
                      [m.mem EXCEPT ![Target] = op], Chain(Target, 512))
  BY <1>8 DEF DecoderBottleneck, op
<1>9. DecoderBottleneck(p, resident, fault, m) \in WalkType
  BY <1>1, <1>2, <1>5, <1>6, <1>7, Launched, Refused
<1> QED  BY <1>1, <1>2, <1>5, <1>6, <1>8, <1>9, Launched DEF op

\* The bottleneck keeps the type at every record.
LEMMA BottleneckTyped ==
    ASSUME NEW p, NEW resident \in BOOLEAN, NEW fault, NEW r, NEW m \in WalkType
    PROVE  RecordBottleneck(p, resident, fault, r, m) \in WalkType
  BY EncoderBottleneckTyped, DecoderBottleneckTyped DEF RecordBottleneck

\* Dropping the chain keeps the type.
LEMMA DroppedTyped ==
    ASSUME NEW resident \in BOOLEAN, NEW m \in WalkType
    PROVE  /\ Dropped(resident, m) \in WalkType
           /\ Dropped(resident, m).ok = m.ok
           /\ Dropped(resident, m).wrong = m.wrong /\ Dropped(resident, m).mem = m.mem
           /\ ~resident => Dropped(resident, m) = m
<1>1. NoChain \in ChainType
  <2>1. Output \in Buffers  BY BufferNames
  <2> QED  BY <2>1 DEF NoChain, ChainType, ChannelCounts
<1> QED  BY <1>1 DEF Dropped, WalkType

\* A downsample keeps the type on both routes.
LEMMA DownTyped ==
    ASSUME NEW p, NEW resident \in BOOLEAN, NEW fault, NEW a \in 1 .. 69,
           NEW m \in WalkType, m.ok
    PROVE  /\ Downsample(p, resident, fault, a, m) \in WalkType
           /\ <<"down", a>> # fault => Downsample(p, resident, fault, a, m).ok
<1> DEFINE op == <<"down", a>>
<1> DEFINE ch == StageChannels(a)
<1> DEFINE held == [m.mem EXCEPT ![Pool(ch)] = m.mem[m.chain.buffer], ![Target] = op]
<1> DEFINE arena == [m.mem EXCEPT ![Skip(ch)] = m.mem[Ping(ch)], ![Ping(2 * ch)] = op]
<1>1. op \in Images /\ ch \in {32, 64, 128, 256}
  <2>1. a \in 0 .. 70  OBVIOUS
  <2>2. op \in Images  BY <2>1, ImageNames
  <2>3. StageChannels(a) \in {32, 64, 128, 256}  BY StageWidths
  <2> QED  BY <2>2, <2>3
<1>2. m.mem \in [Buffers -> Images] /\ m.chain \in ChainType /\ m.chain.buffer \in Buffers
  BY WalkFields
<1>3. {Ping(ch), Skip(ch), Pool(ch), Ping(2 * ch), Target} \subseteq Buffers
  BY <1>1, BufferNames
<1>4. m.mem[Ping(ch)] \in Images /\ m.mem[m.chain.buffer] \in Images
  BY <1>2, <1>3
<1>5. held \in [Buffers -> Images] /\ arena \in [Buffers -> Images]
  <2> HIDE DEF op, ch
  <2> QED  BY <1>1, <1>2, <1>3, <1>4, WriteTyped
<1>6. Chain(Target, 2 * ch) \in ChainType
  BY <1>1, <1>3, ChainTyped DEF ChannelCounts, Widths
<1> DEFINE inchain == Launch(m, op, fault, {<<m.chain.buffer, Block(a)>>, <<Fp16, Block(a)>>},
                             held, Chain(Target, 2 * ch))
<1> DEFINE inarena == Launch(m, op, fault, {<<Ping(ch), Block(a)>>, <<Fp16, Block(a)>>},
                             arena, m.chain)
<1>7. /\ inchain \in WalkType /\ inarena \in WalkType
      /\ op # fault => inchain.ok /\ inarena.ok
  <2> HIDE DEF op, held, arena
  <2>1. inchain \in WalkType /\ inarena \in WalkType
    BY <1>1, <1>2, <1>5, <1>6, Launched
  <2>2. ASSUME op # fault PROVE inchain.ok
    BY <1>1, <1>2, <1>5, <1>6, <2>2, LaunchGoes
  <2>3. ASSUME op # fault PROVE inarena.ok
    BY <1>1, <1>2, <1>5, <1>6, <2>3, LaunchGoes
  <2> QED  BY <2>1, <2>2, <2>3
<1>8. Downsample(p, resident, fault, a, m) \in
        {inchain, Dropped(resident, inchain), Dropped(resident, inarena),
         Dropped(resident, Dropped(resident, inarena))}
  BY DEF Downsample
<1> HIDE DEF inchain, inarena, op
<1>9. /\ Downsample(p, resident, fault, a, m) \in WalkType
      /\ op # fault => Downsample(p, resident, fault, a, m).ok
  BY <1>7, <1>8, DroppedTyped
<1> QED  BY <1>9 DEF op

\* An upsample keeps the type on both routes.
LEMMA UpTyped ==
    ASSUME NEW p, NEW resident \in BOOLEAN, NEW fault, NEW a \in 1 .. 69,
           NEW m \in WalkType, m.ok
    PROVE  /\ Upsample(p, resident, fault, a, m) \in WalkType
           /\ <<"up", a>> # fault => Upsample(p, resident, fault, a, m).ok
<1> DEFINE op == <<"up", a>>
<1> DEFINE ch == StageChannels(a)
<1> DEFINE skipped == Block(SkippedBlock(a))
<1>1. op \in Images /\ ch \in {32, 64, 128, 256}
  <2>1. a \in 0 .. 70  OBVIOUS
  <2>2. op \in Images  BY <2>1, ImageNames
  <2>3. StageChannels(a) \in {32, 64, 128, 256}  BY StageWidths
  <2> QED  BY <2>2, <2>3
<1>2. m.mem \in [Buffers -> Images] /\ m.chain \in ChainType
  BY WalkFields
<1>3. {Ping(ch), Target} \subseteq Buffers
  BY <1>1, BufferNames
<1>5. /\ [m.mem EXCEPT ![Target] = op] \in [Buffers -> Images]
      /\ [m.mem EXCEPT ![Ping(ch)] = op] \in [Buffers -> Images]
  <2> HIDE DEF op, ch
  <2> QED  BY <1>1, <1>2, <1>3, WriteTyped
<1>6. Chain(Target, ch) \in ChainType
  BY <1>1, <1>3, ChainTyped DEF ChannelCounts, Widths
<1> DEFINE inchain == Launch(m, op, fault,
                             {<<m.chain.buffer, Block(a - 1)>>, <<Pool(ch), skipped>>},
                             [m.mem EXCEPT ![Target] = op], Chain(Target, ch))
<1> DEFINE inarena == Launch(m, op, fault,
                             {<<Ping(2 * ch), Block(a - 1)>>, <<Skip(ch), skipped>>},
                             [m.mem EXCEPT ![Ping(ch)] = op], m.chain)
<1>7. /\ inchain \in WalkType /\ inarena \in WalkType
      /\ op # fault => inchain.ok /\ inarena.ok
  <2> HIDE DEF op, ch
  <2>1. inchain \in WalkType /\ inarena \in WalkType
    BY <1>1, <1>2, <1>5, <1>6, Launched
  <2>2. ASSUME op # fault PROVE inchain.ok
    BY <1>1, <1>2, <1>5, <1>6, <2>2, LaunchGoes
  <2>3. ASSUME op # fault PROVE inarena.ok
    BY <1>1, <1>2, <1>5, <1>6, <2>3, LaunchGoes
  <2> QED  BY <2>1, <2>2, <2>3
<1>8. Upsample(p, resident, fault, a, m) \in
        {inchain, Dropped(resident, inchain), Dropped(resident, inarena),
         Dropped(resident, Dropped(resident, inarena))}
  BY DEF Upsample
<1> HIDE DEF inchain, inarena, op
<1>9. /\ Upsample(p, resident, fault, a, m) \in WalkType
      /\ op # fault => Upsample(p, resident, fault, a, m).ok
  BY <1>7, <1>8, DroppedTyped
<1> QED  BY <1>9 DEF op

\* A configured transition keeps the type, and one not configured is none.
LEMMA TransitionTyped ==
    ASSUME NEW p \in PlanType, NEW resident \in BOOLEAN, NEW fault,
           NEW direction \in {"down", "up"}, NEW r, NEW m \in WalkType
    PROVE  /\ RecordTransition(p, resident, fault, direction, r, m) \in WalkType
           /\ m.ok /\ <<direction, r>> # fault =>
                RecordTransition(p, resident, fault, direction, r, m).ok
           /\ <<direction, r>> \notin p.transitions =>
                RecordTransition(p, resident, fault, direction, r, m) = m
<1>1. CASE ~m.ok \/ <<direction, r>> \notin p.transitions
  BY <1>1 DEF RecordTransition
<1>2. CASE m.ok /\ <<direction, r>> \in p.transitions
  <2>1. r \in 1 .. 69  BY <1>2 DEF PlanType
  <2>2. CASE direction = "down"
    <3>1. /\ Downsample(p, resident, fault, r, m) \in WalkType
          /\ <<direction, r>> # fault => Downsample(p, resident, fault, r, m).ok
      BY <2>2, <1>2, <2>1, DownTyped
    <3> QED  BY <2>2, <3>1, <1>2 DEF RecordTransition
  <2>3. CASE direction = "up"
    <3>1. /\ Upsample(p, resident, fault, r, m) \in WalkType
          /\ <<direction, r>> # fault => Upsample(p, resident, fault, r, m).ok
      BY <2>3, <1>2, <2>1, UpTyped
    <3> QED  BY <2>3, <3>1, <1>2 DEF RecordTransition
  <2> QED  BY <2>2, <2>3
<1> QED  BY <1>1, <1>2

\* A walk starts with its input in the arena and no image of this walk.
LEMMA StartTyped ==
    ASSUME NEW p, NEW start \in ChainType, NEW recording
    PROVE  /\ Start(p, start, recording) \in WalkType
           /\ Start(p, start, recording).ok /\ Start(p, start, recording).wrong = {}
           /\ Start(p, start, recording).mem[Ping(32)] = Input
           /\ Start(p, start, recording).chain =
                IF Resident(p, recording) THEN NoChain ELSE start
<1>1. NoChain \in ChainType
  <2>1. Output \in Buffers  BY BufferNames
  <2> QED  BY <2>1 DEF NoChain, ChainType, ChannelCounts
<1> DEFINE mem == [b \in Buffers |-> IF b = Ping(32) THEN Input ELSE Stale]
<1>2. mem \in [Buffers -> Images] /\ mem[Ping(32)] = Input
  <2>1. Input \in Images /\ Stale \in Images /\ Ping(32) \in Buffers
    BY ImageNames, BufferNames
  <2> HIDE DEF Images, Buffers
  <2> QED  BY <2>1
<1> HIDE DEF mem
<1>3. Start(p, start, recording) =
        [ok |-> TRUE, chain |-> IF Resident(p, recording) THEN NoChain ELSE start,
         wrong |-> {}, mem |-> mem]
  BY DEF Start, StartChain, mem
<1> QED  BY <1>1, <1>2, <1>3 DEF WalkType

\* Pre keeps the type.
LEMMA PreTyped ==
    ASSUME NEW p, NEW fault, NEW m \in WalkType, m.ok
    PROVE  /\ RecordPre(p, fault, m) \in WalkType
           /\ p.edge /\ p.lut /\ ~(p.target < Level(32)) /\ <<"pre", 0>> # fault =>
                RecordPre(p, fault, m).ok
<1> DEFINE op == <<"pre", 0>>
<1>1. op \in Images /\ PreSkip \in Buffers /\ Target \in Buffers
  BY ImageNames, BufferNames
<1>2. m.mem \in [Buffers -> Images]  BY WalkFields
<1> HIDE DEF op
<1>3. [m.mem EXCEPT ![PreSkip] = op, ![Target] = op] \in [Buffers -> Images]
  BY <1>1, <1>2, WriteTyped
<1>4. Chain(Target, 32) \in ChainType  BY <1>1, ChainTyped DEF ChannelCounts, Widths
<1>5. RecordPre(p, fault, m) \in
        {m, Refuse(m), Launch(m, op, fault, {},
           [m.mem EXCEPT ![PreSkip] = op, ![Target] = op], Chain(Target, 32))}
  BY DEF RecordPre, op
<1>6. ASSUME p.edge, p.lut, ~(p.target < Level(32))
      PROVE  RecordPre(p, fault, m) \in
               {m, Launch(m, op, fault, {},
                          [m.mem EXCEPT ![PreSkip] = op, ![Target] = op], Chain(Target, 32))}
  BY <1>6 DEF RecordPre, op
<1>7. RecordPre(p, fault, m) \in WalkType
  BY <1>1, <1>3, <1>4, <1>5, Launched, Refused
<1>8. ASSUME p.edge, p.lut, ~(p.target < Level(32)), op # fault
      PROVE  RecordPre(p, fault, m).ok
  <2> DEFINE mem == [m.mem EXCEPT ![PreSkip] = op, ![Target] = op]
  <2>1. Launch(m, op, fault, {}, mem, Chain(Target, 32)).ok
    <3> HIDE DEF mem
    <3> QED  BY <1>1, <1>3, <1>4, <1>8, LaunchGoes DEF mem
  <2> QED  BY <2>1, <1>6, <1>8
<1> QED  BY <1>7, <1>8 DEF op

\* Head keeps the type.
LEMMA HeadTyped ==
    ASSUME NEW p, NEW fault, NEW m \in WalkType
    PROVE  /\ RecordHead(p, fault, m) \in WalkType
           /\ p.edge /\ p.lut /\ m.ok /\ m.chain.channels = 32 /\ <<"head", 70>> # fault =>
                RecordHead(p, fault, m).ok
<1> DEFINE op == <<"head", 70>>
<1> DEFINE reads == {<<m.chain.buffer, Block(69)>>, <<PreSkip, <<"pre", 0>>>>}
<1>1. op \in Images /\ Output \in Buffers
  BY ImageNames, BufferNames
<1>2. m.mem \in [Buffers -> Images] /\ m.chain \in ChainType  BY WalkFields
<1>3. [m.mem EXCEPT ![Output] = op] \in [Buffers -> Images]
  <2> HIDE DEF op
  <2> QED  BY <1>1, <1>2, WriteTyped
<1>4. \/ RecordHead(p, fault, m) \in {m, Refuse(m)}
      \/ /\ m.ok
         /\ RecordHead(p, fault, m) =
              Launch(m, op, fault, reads, [m.mem EXCEPT ![Output] = op], m.chain)
  BY DEF RecordHead
<1>5. p.edge /\ p.lut /\ m.ok /\ m.chain.channels = 32 =>
        RecordHead(p, fault, m) \in
          {m, Launch(m, op, fault, reads, [m.mem EXCEPT ![Output] = op], m.chain)}
  BY DEF RecordHead
<1> HIDE DEF op, reads
<1>6. RecordHead(p, fault, m) \in WalkType
  BY <1>1, <1>2, <1>3, <1>4, Launched, Refused
<1>7. ASSUME p.edge, p.lut, m.ok, m.chain.channels = 32, op # fault
      PROVE  RecordHead(p, fault, m).ok
  <2> DEFINE mem == [m.mem EXCEPT ![Output] = op]
  <2>1. mem \in [Buffers -> Images]  BY <1>3
  <2>2. Launch(m, op, fault, reads, mem, m.chain).ok
    <3> HIDE DEF mem
    <3> QED  BY <1>1, <1>2, <2>1, <1>7, LaunchGoes
  <2> QED  BY <2>2, <1>5, <1>7
<1> QED  BY <1>6, <1>7 DEF op

\* One record of the walk keeps the type.
LEMMA AtTyped ==
    ASSUME NEW p \in PlanType, NEW resident \in BOOLEAN, NEW fault, NEW r \in 1 .. 69,
           NEW m \in WalkType
    PROVE  At(p, resident, fault, r, m) \in WalkType
<1>1. RecordTransition(p, resident, fault, "up", r, m) \in WalkType
  BY TransitionTyped
<1> DEFINE m1 == RecordTransition(p, resident, fault, "up", r, m)
<1> HIDE DEF m1
<1>2. RecordBlock(p, resident, fault, r, m1) \in WalkType
  BY <1>1, BlockTyped DEF m1
<1> DEFINE m2 == RecordBlock(p, resident, fault, r, m1)
<1> HIDE DEF m2
<1>3. RecordTransition(p, resident, fault, "down", r, m2) \in WalkType
  BY <1>2, TransitionTyped DEF m2
<1> QED  BY <1>3, BottleneckTyped DEF At, m1, m2

\* A walk keeps its type, whatever the plan, the starting chain and the fault.
LEMMA WalkTyped ==
    ASSUME NEW p \in PlanType, NEW start \in ChainType, NEW recording \in BOOLEAN, NEW fault
    PROVE  \A r \in 0 .. 69 : Walked(p, start, recording, fault)[r] \in WalkType
<1> DEFINE walk == Walked(p, start, recording, fault)
<1> DEFINE T == {r \in 0 .. 69 : walk[r] \in WalkType}
<1>1. \A r \in 0 .. 69 : walk[r] =
        IF r = 0 THEN RecordPre(p, fault, Start(p, start, recording))
        ELSE IF walk[r - 1].ok /\ r \in Records(p)
             THEN At(p, Resident(p, recording), fault, r, walk[r - 1]) ELSE walk[r - 1]
  BY WalkUnfolds
<1>2. Resident(p, recording) \in BOOLEAN  BY DEF Resident, PlanType
<1> HIDE DEF walk
<1>3. 0 \in T  BY <1>1, StartTyped, PreTyped
<1>4. ASSUME NEW n \in T, n < 69 PROVE n + 1 \in T
  <2>1. n + 1 \in 1 .. 69 /\ n + 1 \in 0 .. 69 /\ (n + 1) - 1 = n /\ walk[n] \in WalkType
    BY <1>4
  <2>2. \/ walk[n + 1] = walk[n]
        \/ walk[n + 1] = At(p, Resident(p, recording), fault, n + 1, walk[n])
    BY <1>1, <2>1
  <2>3. walk[n + 1] \in WalkType
    BY <1>2, <2>1, <2>2, AtTyped
  <2> QED  BY <2>1, <2>3
<1>5. T = 0 .. 69
  <2>1. T \in SUBSET (0 .. 69)  OBVIOUS
  <2> HIDE DEF T
  <2> QED  BY <1>3, <1>4, <2>1, BoundedInduction
<1> QED  BY <1>5 DEF walk
-----------------------------------------------------------------------------
(* The operations, one at a time, on a walk that has been right so far.    *)

(* The buffers a walk overwrites: never one that keeps an image for the    *)
(* decoder.                                                                *)
Transient == {Fp16, Pong, Scratch, Target, VitSlot, Output} \cup {Ping(ch) : ch \in Widths}

\* The buffers a block may overwrite.
LEMMA TransientBuffers ==
    /\ Transient \subseteq Buffers
    /\ \A ch \in Widths : Ping(ch) \in Transient
    /\ {Fp16, Pong, Scratch, Target, VitSlot, Output} \subseteq Transient
  BY DEF Transient, Buffers, Widths

\* The buffers that hold what the decoder reads later are none of those.
LEMMA KeepingBuffers ==
    ASSUME NEW resident \in BOOLEAN
    PROVE  /\ \A a \in EncoderAnchors :
                SkipOf(resident, Channels(a)) \in Buffers \ Transient
           /\ CentralOf(resident) \in Buffers \ Transient
           /\ PreSkip \in Buffers \ Transient
           /\ \A a \in EncoderAnchors : SkipOf(resident, Channels(a)) # CentralOf(resident)
           /\ \A a \in EncoderAnchors : SkipOf(resident, Channels(a)) # PreSkip
           /\ CentralOf(resident) # PreSkip
           /\ \A a, b \in EncoderAnchors :
                SkipOf(resident, Channels(a)) = SkipOf(resident, Channels(b)) => a = b
<1>1. \A a \in EncoderAnchors : Channels(a) \in {32, 64, 128, 256}
  BY ChannelRange DEF EncoderAnchors
<1>2. \A a, b \in EncoderAnchors : Channels(a) = Channels(b) => a = b
  BY ChannelRange DEF EncoderAnchors
<1>3. \A ch \in {32, 64, 128, 256} : /\ Pool(ch) \in Buffers /\ Pool(ch) \notin Transient
                                     /\ Skip(ch) \in Buffers /\ Skip(ch) \notin Transient
  BY BufferNames, BuffersDiffer DEF Transient
<1>4. /\ CentralSkip \in Buffers /\ CentralSkip \notin Transient
      /\ Skip(512) \in Buffers /\ Skip(512) \notin Transient
      /\ PreSkip \in Buffers /\ PreSkip \notin Transient
  BY BufferNames, BuffersDiffer DEF Transient
<1>5. \A ch \in {32, 64, 128, 256} :
        /\ Pool(ch) # CentralSkip /\ Skip(ch) # Skip(512)
        /\ Pool(ch) # PreSkip /\ Skip(ch) # PreSkip
  BY BuffersDiffer
<1>6. CentralSkip # PreSkip /\ Skip(512) # PreSkip  BY BuffersDiffer
<1>7. \A c, d \in {32, 64, 128, 256} : /\ Pool(c) = Pool(d) => c = d
                                       /\ Skip(c) = Skip(d) => c = d
  BY BuffersDiffer
<1> QED  BY <1>1, <1>2, <1>3, <1>4, <1>5, <1>6, <1>7 DEF SkipOf, CentralOf

\* A block leaves the images kept for the decoder alone.
LEMMA KeptWhenTransientWritten ==
    ASSUME NEW p, NEW resident \in BOOLEAN, NEW r, NEW m, NEW n,
           Kept(p, resident, r, m),
           \A x \in Buffers \ Transient : n.mem[x] = m.mem[x]
    PROVE  Kept(p, resident, r, n)
  BY KeepingBuffers DEF Kept

\* An operation that reads one buffer.
LEMMA ReadOne ==
    ASSUME NEW mem, NEW b, NEW i, mem[b] = i
    PROVE  \A read \in {<<b, i>>} : mem[read[1]] = read[2]
  OBVIOUS

\* An operation that reads two.
LEMMA ReadTwo ==
    ASSUME NEW mem, NEW b, NEW i, NEW c, NEW j, mem[b] = i, mem[c] = j
    PROVE  \A read \in {<<b, i>>, <<c, j>>} : mem[read[1]] = read[2]
  OBVIOUS

\* No operation is named like the absence of a fault.
LEMMA NoFaultNames ==
    \A r : \A name \in {"pre", "block", "encoder", "decoder", "down", "up", "head"} :
      <<name, r>> # NoFault /\ Block(r) # NoFault
  BY DEF NoFault, Block

(* A Swin block that is fed makes its image.                               *)
LEMMA SwinRight ==
    ASSUME NEW p, NEW resident \in BOOLEAN, NEW fault,
           NEW r \in 1 .. 69, r \notin VitRecords,
           NEW m \in WalkType, m.ok,
           Fed(p, resident, r, m), Kept(p, resident, r, m),
           NEW n, n = SwinBlock(p, resident, fault, r, Channels(r), m)
    PROVE  Ran(p, resident, fault, r, m, n)
<1> DEFINE ch == Channels(r)
<1> DEFINE in == IF resident /\ m.chain.channels = ch THEN m.chain.buffer ELSE Ping(ch)
<1> DEFINE out == Sink(resident, r)
<1> DEFINE mem == [m.mem EXCEPT ![out] = Block(r), ![Fp16] = Block(r)]
<1> DEFINE c == IF resident THEN Chain(Scratch, ch) ELSE m.chain
<1> DEFINE reads == {<<in, Feeds(p, r)>>}
<1>0. ch \in Widths /\ ch # 0
  <2>1. r \in 0 .. 70  OBVIOUS
  <2> QED  BY <2>1, ChannelRange DEF Widths
<1>1. out \in Transient /\ Fp16 \in Transient /\ Scratch \in Transient
  BY <1>0, TransientBuffers DEF Sink
<1>2. Block(r) \in Images
  <2>1. r \in 0 .. 70  OBVIOUS
  <2> QED  BY <2>1, ImageNames
<1>3. m.mem \in [Buffers -> Images] /\ m.chain \in ChainType  BY WalkFields
<1>4. /\ mem \in [Buffers -> Images]
      /\ \A x \in Buffers : mem[x] = IF x \in {out, Fp16} THEN Block(r) ELSE m.mem[x]
  <2>1. out \in Buffers /\ Fp16 \in Buffers  BY <1>1, TransientBuffers
  <2> HIDE DEF out
  <2> QED  BY <2>1, <1>2, <1>3, WriteTyped
<1>5. c \in ChainType
  BY <1>0, <1>1, <1>3, ChainTyped, TransientBuffers DEF ChannelCounts
<1>6. in = Source(p, resident, r)
  <2>1. CASE ~resident  BY <2>1 DEF Source
  <2>2. CASE resident /\ r = 1 /\ ~p.pre
    <3>1. m.chain = NoChain  BY <2>2 DEF Fed
    <3>2. m.chain.channels = 0  BY <3>1 DEF NoChain
    <3>3. ch = 32  BY <2>2, ChannelRange
    <3>4. in = Ping(32)  BY <3>2, <3>3, <1>0
    <3>5. Source(p, resident, r) = Ping(32)
      <4>2. r \notin DecoderAnchors \cup {5, 9, 15, 23, 40} /\ r \notin VitRecords
        BY <2>2 DEF DecoderAnchors, VitRecords
      <4> QED  BY <2>2, <4>2 DEF Source
    <3> QED  BY <3>4, <3>5
  <2>3. CASE resident /\ ~(r = 1 /\ ~p.pre)
    <3>1. m.chain = Chain(Source(p, resident, r), ch)  BY <2>3 DEF Fed
    <3>2. m.chain.channels = ch /\ m.chain.buffer = Source(p, resident, r)
      BY <3>1 DEF Chain
    <3> QED  BY <2>3, <3>2
  <2> QED  BY <2>1, <2>2, <2>3
<1>7. \A read \in reads : m.mem[read[1]] = read[2]
  <2>1. m.mem[in] = Feeds(p, r)  BY <1>6 DEF Fed
  <2> HIDE DEF in
  <2> QED  BY <2>1, ReadOne
<1>8. n = IF resident /\ p.scratch < Level(ch) THEN Refuse(m)
          ELSE Launch(m, Block(r), fault, reads, mem, c)
  BY DEF SwinBlock, Sink
<1>9. CASE resident /\ p.scratch < Level(ch)
  <2>1. ~Sized(p)
    <3>1. Level(ch) <= 5  BY DEF Level
    <3> QED  BY <1>9, <3>1 DEF Sized, Level
  <2>2. n = Refuse(m)  BY <1>8, <1>9
  <2> QED  BY <2>1, <2>2, Refused DEF Ran
<1>10. CASE ~(resident /\ p.scratch < Level(ch))
  <2> DEFINE l == Launch(m, Block(r), fault, reads, mem, c)
  <2>1. n = l  BY <1>8, <1>10
  <2>2. /\ l.ok = (Block(r) # fault)
        /\ Block(r) # fault => l.mem = mem /\ l.chain = c
        /\ l.wrong = m.wrong
    <3> HIDE DEF mem, c, reads
    <3> QED  BY <1>2, <1>4, <1>5, <1>7, Launched
  <2> HIDE DEF l, reads
  <2>3. ASSUME n.ok PROVE Made(resident, r, n) /\ Kept(p, resident, r, n)
    <3>1. n.mem = mem /\ n.chain = c  BY <2>1, <2>2, <2>3
    <3> HIDE DEF mem
    <3>2. n.mem[out] = Block(r) /\ n.mem[Fp16] = Block(r)
      BY <3>1, <1>1, <1>4, TransientBuffers
    <3>3. resident => n.chain = Chain(Sink(resident, r), Channels(r))
      BY <3>1 DEF Sink
    <3>4. \A x \in Buffers \ Transient : n.mem[x] = m.mem[x]
      BY <3>1, <1>1, <1>4
    <3>5. Kept(p, resident, r, n)  BY <3>4, KeptWhenTransientWritten
    <3> QED  BY <3>2, <3>3, <3>5 DEF Made
  <2>4. fault = NoFault => n.ok  BY <2>1, <2>2, NoFaultNames
  <2> QED  BY <2>1, <2>2, <2>3, <2>4 DEF Ran
<1> QED  BY <1>9, <1>10

(* A ViT block that is fed makes its image.                                *)
LEMMA VitRight ==
    ASSUME NEW p, NEW resident \in BOOLEAN, NEW fault, NEW r \in VitRecords,
           NEW m \in WalkType, m.ok,
           Fed(p, resident, r, m), Kept(p, resident, r, m),
           NEW n, n = VitBlock(p, resident, fault, r, m)
    PROVE  Ran(p, resident, fault, r, m, n)
<1> DEFINE in == Source(p, resident, r)
<1> DEFINE out == Sink(resident, r)
<1> DEFINE mem == [m.mem EXCEPT ![out] = Block(r)]
<1> DEFINE c == IF resident THEN Chain(VitSlot, 1024) ELSE m.chain
<1> DEFINE reads == {<<in, Feeds(p, r)>>}
<1>0. r \in 1 .. 69 /\ r \in 0 .. 70 /\ r # 1 /\ Channels(r) = 1024 /\ 1024 \in Widths
  BY ChannelRange DEF VitRecords, Widths
<1>1. out \in Transient /\ VitSlot \in Transient
  BY <1>0, TransientBuffers DEF Sink, VitOutput
<1>2. Block(r) \in Images
  <2>1. r \in 0 .. 70  BY <1>0
  <2> QED  BY <2>1, ImageNames
<1>3. m.mem \in [Buffers -> Images] /\ m.chain \in ChainType  BY WalkFields
<1>4. /\ mem \in [Buffers -> Images]
      /\ \A x \in Buffers : mem[x] = IF x = out THEN Block(r) ELSE m.mem[x]
  <2>1. out \in Buffers  BY <1>1, TransientBuffers
  <2> HIDE DEF out
  <2> QED  BY <2>1, <1>2, <1>3, WriteTyped
<1>5. c \in ChainType
  <2>1. 1024 \in ChannelCounts  BY DEF ChannelCounts, Widths
  <2> QED  BY <2>1, <1>1, <1>3, ChainTyped, TransientBuffers
<1>6. m.mem[in] = Feeds(p, r)  BY DEF Fed
<1>7. \A read \in reads : m.mem[read[1]] = read[2]
  <2> HIDE DEF in
  <2> QED  BY <1>6, ReadOne
<1>8. resident => m.chain.buffer = in /\ m.chain.channels = 1024 /\ in = VitSlot
  <2>1. resident => m.chain = Chain(in, 1024)
    <3>1. resident => m.chain = Chain(in, Channels(r))
      <4>1. r # 1  BY <1>0
      <4> QED  BY <4>1 DEF Fed
    <3>2. Channels(r) = 1024  BY <1>0
    <3> HIDE DEF in
    <3> QED  BY <3>1, <3>2
  <2>2. r \notin DecoderAnchors \cup {5, 9, 15, 23, 40}
    BY DEF VitRecords, DecoderAnchors
  <2>3. resident => in = VitSlot  BY <1>0, <2>2 DEF Source
  <2> HIDE DEF in
  <2> QED  BY <2>1, <2>3 DEF Chain
<1>9. ~resident => in = VitInput(r) /\ out = VitOutput(r)
  BY DEF Source, Sink
<1>10. resident => out = VitSlot  BY DEF Sink
<1> DEFINE l == Launch(m, Block(r), fault, reads, mem, c)
<1>11. n = l \/ (n = Refuse(m) /\ resident /\ ~p.vit_scratch)
  <2>1. CASE resident
    <3>1. n = IF ~p.vit_scratch \/ m.chain.channels # 1024 THEN Refuse(m)
              ELSE Launch(m, Block(r), fault, {<<m.chain.buffer, Feeds(p, r)>>},
                          [m.mem EXCEPT ![VitSlot] = Block(r)], Chain(VitSlot, 1024))
      BY <2>1 DEF VitBlock
    <3>2. l = Launch(m, Block(r), fault, {<<m.chain.buffer, Feeds(p, r)>>},
                     [m.mem EXCEPT ![VitSlot] = Block(r)], Chain(VitSlot, 1024))
      <4>1. in = m.chain.buffer /\ out = VitSlot  BY <1>8, <1>10, <2>1
      <4> HIDE DEF in, out
      <4> QED  BY <4>1, <2>1
    <3>3. m.chain.channels = 1024  BY <1>8, <2>1
    <3> HIDE DEF l, in
    <3>4. n = IF ~p.vit_scratch THEN Refuse(m) ELSE l  BY <3>1, <3>2, <3>3
    <3> QED  BY <2>1, <3>4
  <2>2. CASE ~resident
    <3>1. n = Launch(m, Block(r), fault, {<<VitInput(r), Feeds(p, r)>>},
                     [m.mem EXCEPT ![VitOutput(r)] = Block(r)], m.chain)
      BY <2>2 DEF VitBlock
    <3> QED  BY <1>9, <2>2, <3>1
  <2> QED  BY <2>1, <2>2
<1>12. /\ l.ok = (Block(r) # fault)
       /\ Block(r) # fault => l.mem = mem /\ l.chain = c
       /\ l.wrong = m.wrong
  <2> HIDE DEF mem, c, reads
  <2> QED  BY <1>2, <1>4, <1>5, <1>7, Launched
<1>13. ASSUME n.ok PROVE Made(resident, r, n) /\ Kept(p, resident, r, n)
  <2>1. n.mem = mem /\ n.chain = c
    <3> HIDE DEF l, mem, c
    <3>1. ~Refuse(m).ok  BY Refused
    <3>2. n = l  BY <1>11, <1>13, <3>1
    <3>3. Block(r) # fault  BY <3>2, <1>12, <1>13
    <3> QED  BY <3>2, <3>3, <1>12
  <2> HIDE DEF mem
  <2>2. n.mem[out] = Block(r)
    BY <2>1, <1>1, <1>4, TransientBuffers
  <2>3. resident => n.chain = Chain(Sink(resident, r), Channels(r))
    <3>1. Sink(resident, r) = out  OBVIOUS
    <3> HIDE DEF out
    <3> QED  BY <2>1, <3>1, <1>0, <1>10
  <2>4. \A x \in Buffers \ Transient : n.mem[x] = m.mem[x]
    BY <2>1, <1>1, <1>4
  <2>5. Kept(p, resident, r, n)  BY <2>4, KeptWhenTransientWritten
  <2> QED  BY <2>2, <2>3, <2>5 DEF Made
<1>14. Sized(p) /\ fault = NoFault => n.ok
  <2> HIDE DEF l
  <2> QED  BY <1>11, <1>12, NoFaultNames DEF Sized
<1> HIDE DEF l
<1> QED  BY <1>11, <1>12, <1>13, <1>14, Refused DEF Ran

(* Blocks of the whole network.                                            *)
LEMMA BlockRight ==
    ASSUME NEW p, TrunkOf(p), NEW resident \in BOOLEAN, NEW fault,
           NEW r \in 1 .. 69, r # 39,
           NEW m \in WalkType, m.ok,
           Fed(p, resident, r, m), Kept(p, resident, r, m)
    PROVE  Ran(p, resident, fault, r, m, RecordBlock(p, resident, fault, r, m))
<1> DEFINE n == RecordBlock(p, resident, fault, r, m)
<1>1. CASE r \in WideRecords
  <2>1. r \notin VitRecords  BY <1>1, RecordRanges
  <2>2. n = SwinBlock(p, resident, fault, r, Channels(r), m)
    BY <1>1, StageWidths DEF RecordBlock, StageBlock, BlockChannels, TrunkOf
  <2> HIDE DEF n
  <2>3. Ran(p, resident, fault, r, m, n)  BY <2>1, <2>2, SwinRight
  <2> QED  BY <2>3 DEF n
<1>2. CASE r \in SplitRecords
  <2>1. r \notin VitRecords /\ r \notin WideRecords /\ Channels(r) = 512
    BY <1>2, RecordRanges, ChannelRange
  <2>2. n = SwinBlock(p, resident, fault, r, Channels(r), m)
    BY <1>2, <2>1 DEF RecordBlock, Split512Block, TrunkOf
  <2> HIDE DEF n
  <2>3. r \notin VitRecords  BY <2>1
  <2>4. Ran(p, resident, fault, r, m, n)  BY <2>2, <2>3, SwinRight
  <2> QED  BY <2>4 DEF n
<1>3. CASE r \in VitRecords
  <2>1. r \notin SplitRecords /\ r \notin WideRecords
    BY <1>3, RecordRanges
  <2>2. n = VitBlock(p, resident, fault, r, m)
    BY <1>3, <2>1 DEF RecordBlock, TrunkOf
  <2> HIDE DEF n
  <2>3. Ran(p, resident, fault, r, m, n)  BY <1>3, <2>2, VitRight
  <2> QED  BY <2>3 DEF n
<1>4. r \in WideRecords \/ r \in SplitRecords \/ r \in VitRecords
  BY DEF WideRecords, SplitRecords, VitRecords
<1> QED  BY <1>1, <1>2, <1>3, <1>4

\* Where each block's image comes from, record by record.
LEMMA FeedsTable ==
    ASSUME NEW p
    PROVE  /\ \A a \in EncoderAnchors : Feeds(p, a + 1) = <<"down", a>>
           /\ \A d \in DecoderAnchors : Feeds(p, d) = <<"up", d>>
           /\ Feeds(p, 31) = <<"encoder", 30>>
           /\ Feeds(p, 40) = <<"decoder", 38>>
           /\ p.pre => Feeds(p, 1) = <<"pre", 0>>
           /\ ~p.pre => Feeds(p, 1) = Input
           /\ \A r \in 1 .. 69 : r \notin DecoderAnchors /\ r - 1 \notin EncoderAnchors
                                 /\ r \notin {1, 31, 40} => Feeds(p, r) = Block(r - 1)
<1>1. \A a \in EncoderAnchors : Feeds(p, a + 1) = <<"down", a>>
  <2> TAKE a \in EncoderAnchors
  <2> DEFINE r == a + 1
  <2>1. r \notin DecoderAnchors /\ r - 1 = a /\ r # 1 /\ r # 31 /\ r # 40
    BY DEF EncoderAnchors, DecoderAnchors
  <2> HIDE DEF r
  <2>2. Feeds(p, r) = <<"down", r - 1>>  BY <2>1 DEF Feeds
  <2> QED  BY <2>1, <2>2 DEF r
<1>2. \A d \in DecoderAnchors : Feeds(p, d) = <<"up", d>>
  <2> TAKE d \in DecoderAnchors
  <2>1. d - 1 \notin EncoderAnchors /\ d # 1 /\ d # 31 /\ d # 40
    BY DEF EncoderAnchors, DecoderAnchors
  <2> QED  BY <2>1 DEF Feeds
<1>3. 31 \notin DecoderAnchors /\ 30 \notin EncoderAnchors
      /\ 40 \notin DecoderAnchors /\ 39 \notin EncoderAnchors
      /\ 1 \notin DecoderAnchors /\ 0 \notin EncoderAnchors
  BY DEF EncoderAnchors, DecoderAnchors
<1>4. Feeds(p, 31) = <<"encoder", 30>> /\ Feeds(p, 40) = <<"decoder", 38>>
  BY <1>3 DEF Feeds
<1>5. Feeds(p, 1) = IF p.pre THEN <<"pre", 0>> ELSE Input
  BY <1>3 DEF Feeds
<1>6. \A r \in 1 .. 69 : r \notin DecoderAnchors /\ r - 1 \notin EncoderAnchors
                         /\ r \notin {1, 31, 40} => Feeds(p, r) = Block(r - 1)
  BY DEF Feeds
<1> QED  BY <1>1, <1>2, <1>4, <1>5, <1>6

\* Where each block finds its image, record by record and route by route.
LEMMA SourceTable ==
    ASSUME NEW p
    PROVE  /\ p.pre => Source(p, TRUE, 1) = Target
           /\ \A r \in DecoderAnchors \cup {5, 9, 15, 23, 40} : Source(p, TRUE, r) = Target
           /\ \A r \in VitRecords : Source(p, TRUE, r) = VitSlot
           /\ \A r \in 2 .. 69 : r \notin DecoderAnchors \cup {5, 9, 15, 23, 40}
                                 /\ r \notin VitRecords => Source(p, TRUE, r) = Scratch
           /\ \A r \in VitRecords : Source(p, FALSE, r) = VitInput(r)
           /\ \A r \in 1 .. 69 : r \notin VitRecords => Source(p, FALSE, r) = Ping(Channels(r))
           /\ Source(p, TRUE, 31) = VitSlot /\ Source(p, FALSE, 31) = VitInput(31)
           /\ Source(p, TRUE, 40) = Target /\ Source(p, FALSE, 40) = Ping(Channels(40))
<1>1. \A r \in DecoderAnchors \cup {5, 9, 15, 23, 40} : r # 1 /\ r \notin VitRecords
  BY DEF DecoderAnchors, VitRecords
<1>2. \A r \in VitRecords : r # 1  BY DEF VitRecords
<1>3. p.pre => Source(p, TRUE, 1) = Target  BY <1>1, <1>2 DEF Source
<1>4. \A r \in DecoderAnchors \cup {5, 9, 15, 23, 40} : Source(p, TRUE, r) = Target
  BY <1>1 DEF Source
<1>5. \A r \in VitRecords : Source(p, TRUE, r) = VitSlot
  BY <1>1, <1>2 DEF Source
<1>6. \A r \in 2 .. 69 : r \notin DecoderAnchors \cup {5, 9, 15, 23, 40}
                         /\ r \notin VitRecords => Source(p, TRUE, r) = Scratch
  BY DEF Source
<1>7. /\ \A r \in VitRecords : Source(p, FALSE, r) = VitInput(r)
      /\ \A r \in 1 .. 69 : r \notin VitRecords => Source(p, FALSE, r) = Ping(Channels(r))
  BY DEF Source
<1>8. /\ 31 \in VitRecords /\ 40 \notin VitRecords
      /\ 31 \notin DecoderAnchors \cup {5, 9, 15, 23, 40}
  BY DEF VitRecords, DecoderAnchors
<1>9. Source(p, TRUE, 31) = VitSlot /\ Source(p, FALSE, 31) = VitInput(31)
  BY <1>8 DEF Source
<1>10. Source(p, TRUE, 40) = Target /\ Source(p, FALSE, 40) = Ping(Channels(40))
  BY <1>8 DEF Source
<1> QED  BY <1>3, <1>4, <1>5, <1>6, <1>7, <1>9, <1>10

\* What the anchors are like.
LEMMA EncoderAnchorFacts ==
    ASSUME NEW a \in EncoderAnchors
    PROVE  /\ a \in 1 .. 29 /\ a + 1 \in 2 .. 29 /\ a \notin VitRecords
           /\ a + 1 \in {5, 9, 15, 23} /\ a + 1 \notin VitRecords /\ a + 1 # 1
           /\ Channels(a) \in {32, 64, 128, 256} /\ Channels(a + 1) = 2 * Channels(a)
           /\ Channels(a) \in Widths /\ 2 * Channels(a) \in Widths
           /\ a \notin DecoderAnchors /\ StageChannels(a) = Channels(a)
  BY DEF EncoderAnchors, DecoderAnchors, Channels, StageChannels, WideRecords,
         SplitRecords, VitRecords, Widths

\* What tells the upsampling records apart.
LEMMA DecoderAnchorFacts ==
    ASSUME NEW d \in DecoderAnchors
    PROVE  /\ d \in 48 .. 66 /\ d - 1 \in 47 .. 65 /\ d \notin VitRecords
           /\ d - 1 \notin VitRecords /\ d # 1
           /\ Channels(d) \in {32, 64, 128, 256} /\ Channels(d - 1) = 2 * Channels(d)
           /\ Channels(d) \in Widths /\ 2 * Channels(d) \in Widths
           /\ d \notin EncoderAnchors /\ StageChannels(d) = Channels(d)
  BY DEF EncoderAnchors, DecoderAnchors, Channels, StageChannels, WideRecords,
         SplitRecords, VitRecords, Widths

\* The upsample adds back the image of the anchor with its channels.
LEMMA SkippedFacts ==
    ASSUME NEW d \in DecoderAnchors
    PROVE  /\ SkippedBlock(d) \in EncoderAnchors
           /\ Channels(SkippedBlock(d)) = Channels(d)
<1>1. \E a \in EncoderAnchors : Channels(a) = Channels(d)
  BY ChannelRange DEF EncoderAnchors, DecoderAnchors
<1> QED  BY <1>1, DecoderAnchorFacts DEF SkippedBlock

(* A downsample keeps the block's image for the decoder and feeds the next *)
(* block.                                                                  *)
LEMMA DownRight ==
    ASSUME NEW p, NEW resident \in BOOLEAN, Walkable(p, resident), NEW fault,
           NEW a \in EncoderAnchors, NEW m \in WalkType, m.ok,
           Made(resident, a, m), Kept(p, resident, a, m),
           NEW n, n = Downsample(p, resident, fault, a, m)
    PROVE  /\ n.wrong = m.wrong
           /\ n.ok => Fed(p, resident, a + 1, n) /\ Kept(p, resident, a + 1, n)
           /\ fault = NoFault => n.ok
<1> DEFINE op == <<"down", a>>
<1> DEFINE ch == StageChannels(a)
<1> DEFINE out == IF resident THEN Target ELSE Ping(2 * ch)
<1> DEFINE in == Sink(resident, a)
<1> DEFINE mem == [m.mem EXCEPT ![SkipOf(resident, ch)] = m.mem[in], ![out] = op]
<1> DEFINE c == IF resident THEN Chain(Target, 2 * ch) ELSE m.chain
<1> DEFINE reads == {<<in, Block(a)>>, <<Fp16, Block(a)>>}
<1> DEFINE l == Launch(m, op, fault, reads, mem, c)
<1>0. ch = Channels(a)  BY EncoderAnchorFacts
<1>1. /\ op \in Images /\ Block(a) \in Images
  <2>1. a \in 0 .. 70  BY EncoderAnchorFacts
  <2> QED  BY <2>1, ImageNames
<1>2. m.mem \in [Buffers -> Images] /\ m.chain \in ChainType  BY WalkFields
<1>3. in = IF resident THEN Scratch ELSE Ping(ch)
  BY EncoderAnchorFacts DEF Sink
<1>4. m.mem[in] = Block(a) /\ m.mem[Fp16] = Block(a)
  BY EncoderAnchorFacts DEF Made
<1>5. resident => m.chain.buffer = in /\ m.chain.channels = ch
  <2> HIDE DEF in
  <2>1. resident => m.chain = Chain(in, ch)  BY <1>0 DEF Made, in
  <2> QED  BY <2>1 DEF Chain
<1>6. out \in Transient /\ out \in Buffers
  BY EncoderAnchorFacts, TransientBuffers
<1>7. SkipOf(resident, ch) \in Buffers \ Transient  BY <1>0, KeepingBuffers
<1>8. /\ mem \in [Buffers -> Images]
      /\ \A x \in Buffers : mem[x] = IF x = out THEN op
                                     ELSE IF x = SkipOf(resident, ch) THEN Block(a)
                                     ELSE m.mem[x]
  <2> HIDE DEF out, in, op, ch
  <2> QED  BY <1>1, <1>2, <1>4, <1>6, <1>7, WriteTyped
<1>9. c \in ChainType
  <2>1. 2 * ch \in ChannelCounts  BY EncoderAnchorFacts DEF ChannelCounts
  <2>2. Target \in Buffers  BY BufferNames
  <2> QED  BY <2>1, <2>2, <1>2, ChainTyped
<1>10. \A read \in reads : m.mem[read[1]] = read[2]
  <2> HIDE DEF in
  <2> QED  BY <1>4, ReadTwo
<1>11. l \in WalkType /\ l.wrong = m.wrong /\ l.ok = (op # fault)
       /\ (op # fault => l.mem = mem /\ l.chain = c)
  <2> HIDE DEF op, mem, c, reads
  <2> QED  BY <1>1, <1>8, <1>9, <1>10, Launched
<1>12. n = IF l.ok THEN l ELSE Dropped(resident, l)
  <2>1. CASE resident
    <3>1. p.target > 0 /\ p.skips # {}  BY DEF Walkable
    <3>2. l = Launch(m, op, fault, {<<m.chain.buffer, Block(a)>>, <<Fp16, Block(a)>>},
                     [m.mem EXCEPT ![Pool(ch)] = m.mem[m.chain.buffer], ![Target] = op],
                     Chain(Target, 2 * ch))
      BY <2>1, <1>5 DEF SkipOf
    <3> HIDE DEF l
    <3>3. resident /\ m.chain.channels = ch /\ p.target > 0 /\ p.skips # {}
      BY <2>1, <3>1, <1>5
    <3> QED  BY <3>2, <3>3 DEF Downsample
  <2>2. CASE ~resident
    <3>1. l = Launch(m, op, fault, {<<Ping(ch), Block(a)>>, <<Fp16, Block(a)>>},
                     [m.mem EXCEPT ![Skip(ch)] = m.mem[Ping(ch)], ![Ping(2 * ch)] = op],
                     m.chain)
      BY <2>2, <1>3 DEF SkipOf
    <3> HIDE DEF l
    <3> QED  BY <2>2, <3>1, <1>11, DroppedTyped DEF Downsample
  <2> QED  BY <2>1, <2>2
<1> HIDE DEF l
<1>13. n.wrong = m.wrong /\ n.ok = l.ok
  BY <1>11, <1>12, DroppedTyped
<1>14. ASSUME n.ok PROVE Fed(p, resident, a + 1, n) /\ Kept(p, resident, a + 1, n)
  <2>1. n.mem = mem /\ n.chain = c  BY <1>11, <1>12, <1>13, <1>14
  <2> HIDE DEF mem
  <2>2. Source(p, resident, a + 1) = out
    <3>1. CASE resident = TRUE
      <4>1. a + 1 \in DecoderAnchors \cup {5, 9, 15, 23, 40}  BY EncoderAnchorFacts
      <4>2. Source(p, TRUE, a + 1) = Target  BY <4>1, SourceTable
      <4> QED  BY <3>1, <4>2
    <3>2. CASE resident = FALSE
      <4>1. a + 1 \in 1 .. 69 /\ a + 1 \notin VitRecords  BY EncoderAnchorFacts
      <4>2. Channels(a + 1) = 2 * ch  BY EncoderAnchorFacts
      <4>3. Source(p, FALSE, a + 1) = Ping(Channels(a + 1))  BY <4>1, SourceTable
      <4> QED  BY <3>2, <4>2, <4>3
    <3> QED  BY <3>1, <3>2
  <2>3. n.mem[out] = op /\ n.mem[SkipOf(resident, ch)] = Block(a)
    BY <2>1, <1>6, <1>7, <1>8
  <2>4. resident => n.chain = Chain(out, Channels(a + 1))
    BY <2>1, EncoderAnchorFacts
  <2>5. Fed(p, resident, a + 1, n)
    <3>1. Feeds(p, a + 1) = op  BY FeedsTable
    <3>2. a + 1 # 1  BY EncoderAnchorFacts
    <3> HIDE DEF out, op
    <3> QED  BY <2>2, <2>3, <2>4, <3>1, <3>2 DEF Fed
  <2>6. \A x \in Buffers \ Transient : x # SkipOf(resident, ch) => n.mem[x] = m.mem[x]
    BY <2>1, <1>6, <1>8
  <2>7. Kept(p, resident, a + 1, n)
    <3>1. ASSUME NEW b \in EncoderAnchors, b < a + 1
          PROVE  n.mem[SkipOf(resident, Channels(b))] = Block(b)
      <4>1. CASE b = a  BY <4>1, <2>3, <1>0
      <4>2. CASE b # a
        <5>1. b < a  BY <3>1, <4>2, EncoderAnchorFacts DEF EncoderAnchors
        <5>2. m.mem[SkipOf(resident, Channels(b))] = Block(b)  BY <5>1 DEF Kept
        <5>3. /\ SkipOf(resident, Channels(b)) \in Buffers \ Transient
              /\ SkipOf(resident, Channels(b)) # SkipOf(resident, ch)
          BY <4>2, <1>0, KeepingBuffers
        <5> QED  BY <5>2, <5>3, <2>6
      <4> QED  BY <4>1, <4>2
    <3>2. ~(a + 1 > 30)  BY EncoderAnchorFacts
    <3>3. p.pre => n.mem[PreSkip] = <<"pre", 0>>
      <4>1. PreSkip \in Buffers \ Transient /\ PreSkip # SkipOf(resident, ch)
        BY <1>0, KeepingBuffers
      <4> QED  BY <4>1, <2>6 DEF Kept
    <3> QED  BY <3>1, <3>2, <3>3 DEF Kept
  <2> QED  BY <2>5, <2>7
<1>15. fault = NoFault => n.ok
  <2>1. op # NoFault  BY NoFaultNames
  <2> QED  BY <2>1, <1>11, <1>13
<1> QED  BY <1>13, <1>14, <1>15

(* An upsample adds back the image its scale kept and feeds its block.     *)
LEMMA UpRight ==
    ASSUME NEW p, NEW resident \in BOOLEAN, Walkable(p, resident), NEW fault,
           NEW d \in DecoderAnchors, NEW m \in WalkType, m.ok,
           Made(resident, d - 1, m), Kept(p, resident, d, m),
           NEW n, n = Upsample(p, resident, fault, d, m)
    PROVE  /\ n.wrong = m.wrong
           /\ n.ok => Fed(p, resident, d, n) /\ Kept(p, resident, d, n)
           /\ fault = NoFault => n.ok
<1> DEFINE op == <<"up", d>>
<1> DEFINE ch == StageChannels(d)
<1> DEFINE skipped == Block(SkippedBlock(d))
<1> DEFINE out == IF resident THEN Target ELSE Ping(ch)
<1> DEFINE in == Sink(resident, d - 1)
<1> DEFINE mem == [m.mem EXCEPT ![out] = op]
<1> DEFINE c == IF resident THEN Chain(Target, ch) ELSE m.chain
<1> DEFINE reads == {<<in, Block(d - 1)>>, <<SkipOf(resident, ch), skipped>>}
<1> DEFINE l == Launch(m, op, fault, reads, mem, c)
<1>0. ch = Channels(d)  BY DecoderAnchorFacts
<1>1. op \in Images
  <2>1. d \in 0 .. 70  BY DecoderAnchorFacts
  <2> QED  BY <2>1, ImageNames
<1>2. m.mem \in [Buffers -> Images] /\ m.chain \in ChainType  BY WalkFields
<1>3. Channels(d - 1) = 2 * ch /\ d - 1 \notin VitRecords  BY DecoderAnchorFacts
<1>4. in = IF resident THEN Scratch ELSE Ping(2 * ch)
  BY <1>3 DEF Sink
<1>5. m.mem[in] = Block(d - 1) /\ m.mem[SkipOf(resident, ch)] = skipped
  <2>1. m.mem[in] = Block(d - 1)  BY DEF Made
  <2>2. SkippedBlock(d) \in EncoderAnchors /\ Channels(SkippedBlock(d)) = ch
    BY <1>0, SkippedFacts
  <2>3. SkippedBlock(d) < d
    BY <2>2, DecoderAnchorFacts, EncoderAnchorFacts
  <2> QED  BY <2>1, <2>2, <2>3 DEF Kept
<1>6. resident => m.chain.buffer = in /\ m.chain.channels = 2 * ch
  <2> HIDE DEF in, ch
  <2>1. resident => m.chain = Chain(in, Channels(d - 1))  BY DEF Made, in
  <2> QED  BY <1>3, <2>1 DEF Chain
<1>7. out \in Transient /\ out \in Buffers
  BY DecoderAnchorFacts, TransientBuffers
<1>8. /\ mem \in [Buffers -> Images]
      /\ \A x \in Buffers : mem[x] = IF x = out THEN op ELSE m.mem[x]
  <2> HIDE DEF out, op
  <2> QED  BY <1>1, <1>2, <1>7, WriteTyped
<1>9. c \in ChainType
  <2>1. ch \in ChannelCounts  BY DecoderAnchorFacts DEF ChannelCounts
  <2>2. Target \in Buffers  BY BufferNames
  <2> QED  BY <2>1, <2>2, <1>2, ChainTyped
<1>10. \A read \in reads : m.mem[read[1]] = read[2]
  <2> HIDE DEF in, ch, skipped
  <2> QED  BY <1>5, ReadTwo
<1>11. l \in WalkType /\ l.wrong = m.wrong /\ l.ok = (op # fault)
       /\ (op # fault => l.mem = mem /\ l.chain = c)
  <2> HIDE DEF op, mem, c, reads
  <2> QED  BY <1>1, <1>8, <1>9, <1>10, Launched
<1>12. n = IF l.ok THEN l ELSE Dropped(resident, l)
  <2>1. CASE resident
    <3>1. p.target > 0 /\ ch \in p.skips  BY DecoderAnchorFacts DEF Walkable
    <3>2. l = Launch(m, op, fault, {<<m.chain.buffer, Block(d - 1)>>, <<Pool(ch), skipped>>},
                     [m.mem EXCEPT ![Target] = op], Chain(Target, ch))
      BY <2>1, <1>6 DEF SkipOf
    <3> HIDE DEF l
    <3>3. resident /\ m.chain.channels = 2 * ch /\ p.target > 0 /\ ch \in p.skips
      BY <2>1, <3>1, <1>6
    <3> QED  BY <3>2, <3>3 DEF Upsample
  <2>2. CASE ~resident
    <3>1. l = Launch(m, op, fault, {<<Ping(2 * ch), Block(d - 1)>>, <<Skip(ch), skipped>>},
                     [m.mem EXCEPT ![Ping(ch)] = op], m.chain)
      BY <2>2, <1>4 DEF SkipOf
    <3> HIDE DEF l
    <3> QED  BY <2>2, <3>1, <1>11, DroppedTyped DEF Upsample
  <2> QED  BY <2>1, <2>2
<1> HIDE DEF l
<1>13. n.wrong = m.wrong /\ n.ok = l.ok
  BY <1>11, <1>12, DroppedTyped
<1>14. ASSUME n.ok PROVE Fed(p, resident, d, n) /\ Kept(p, resident, d, n)
  <2>1. n.mem = mem /\ n.chain = c  BY <1>11, <1>12, <1>13, <1>14
  <2> HIDE DEF mem
  <2>2. Source(p, resident, d) = out
    <3>1. CASE resident = TRUE
      <4>1. Source(p, TRUE, d) = Target  BY SourceTable
      <4> QED  BY <3>1, <4>1
    <3>2. CASE resident = FALSE
      <4>1. d \in 1 .. 69 /\ d \notin VitRecords  BY DecoderAnchorFacts
      <4>2. Source(p, FALSE, d) = Ping(ch)  BY <4>1, <1>0, SourceTable
      <4> QED  BY <3>2, <4>2
    <3> QED  BY <3>1, <3>2
  <2>3. n.mem[out] = op  BY <2>1, <1>7, <1>8
  <2>4. resident => n.chain = Chain(out, ch)  BY <2>1
  <2>5. Fed(p, resident, d, n)
    <3>1. Feeds(p, d) = op  BY FeedsTable
    <3>2. d # 1  BY DecoderAnchorFacts
    <3> HIDE DEF out, op
    <3> QED  BY <1>0, <2>2, <2>3, <2>4, <3>1, <3>2 DEF Fed
  <2>6. \A x \in Buffers \ Transient : n.mem[x] = m.mem[x]
    BY <2>1, <1>7, <1>8
  <2> QED  BY <2>5, <2>6, KeptWhenTransientWritten
<1>15. fault = NoFault => n.ok
  <2>1. op # NoFault  BY NoFaultNames
  <2> QED  BY <2>1, <1>11, <1>13
<1> QED  BY <1>13, <1>14, <1>15

(* The encoder bottleneck keeps block 30 and feeds the ViT.                *)
LEMMA EncoderBottleneckRight ==
    ASSUME NEW p, NEW resident \in BOOLEAN, NEW fault, NEW m \in WalkType, m.ok,
           Made(resident, 30, m), Kept(p, resident, 30, m),
           NEW n, n = EncoderBottleneck(p, resident, fault, m)
    PROVE  /\ n.wrong = m.wrong
           /\ n.ok => Fed(p, resident, 31, n) /\ Kept(p, resident, 31, n)
           /\ Sized(p) /\ fault = NoFault => n.ok
<1> DEFINE op == <<"encoder", 30>>
<1> DEFINE keep == CentralOf(resident)
<1> DEFINE out == IF resident THEN VitSlot ELSE Ping(1024)
<1> DEFINE in == Sink(resident, 30)
<1> DEFINE mem == [m.mem EXCEPT ![keep] = m.mem[in], ![out] = op]
<1> DEFINE c == IF resident THEN Chain(VitSlot, 1024) ELSE m.chain
<1> DEFINE reads == {<<in, Block(30)>>}
<1> DEFINE l == Launch(m, op, fault, reads, mem, c)
<1>0. /\ 30 \notin VitRecords /\ 31 \in VitRecords /\ 31 \in 1 .. 69
      /\ Channels(30) = 512 /\ Channels(31) = 1024 /\ 1024 \in Widths
  BY DEF VitRecords, Channels, SplitRecords, Widths
<1>1. op \in Images /\ Block(30) \in Images
  <2>1. 30 \in 0 .. 70  OBVIOUS
  <2>2. op \in Images  BY <2>1, ImageNames
  <2>3. Block(30) \in Images  BY <2>1, ImageNames
  <2> QED  BY <2>2, <2>3
<1>2. m.mem \in [Buffers -> Images] /\ m.chain \in ChainType  BY WalkFields
<1>3. in = IF resident THEN Scratch ELSE Ping(512)  BY <1>0 DEF Sink
<1>4. m.mem[in] = Block(30)  BY DEF Made
<1>5. resident => m.chain.buffer = in /\ m.chain.channels = 512
  <2> HIDE DEF in
  <2>1. resident => m.chain = Chain(in, Channels(30))  BY DEF Made, in
  <2> QED  BY <1>0, <2>1 DEF Chain
<1>6. out \in Transient /\ out \in Buffers
  BY <1>0, TransientBuffers
<1>7. keep \in Buffers \ Transient  BY KeepingBuffers
<1>8. /\ mem \in [Buffers -> Images]
      /\ \A x \in Buffers : mem[x] = IF x = out THEN op
                                     ELSE IF x = keep THEN Block(30) ELSE m.mem[x]
  <2> HIDE DEF out, in, op, keep
  <2> QED  BY <1>1, <1>2, <1>4, <1>6, <1>7, WriteTyped
<1>9. c \in ChainType
  <2>1. 1024 \in ChannelCounts  BY <1>0 DEF ChannelCounts
  <2>2. VitSlot \in Buffers  BY BufferNames
  <2> QED  BY <2>1, <2>2, <1>2, ChainTyped
<1>10. \A read \in reads : m.mem[read[1]] = read[2]
  <2> HIDE DEF in
  <2> QED  BY <1>4, ReadOne
<1>11. l \in WalkType /\ l.wrong = m.wrong /\ l.ok = (op # fault)
       /\ (op # fault => l.mem = mem /\ l.chain = c)
  <2> HIDE DEF op, mem, c, reads
  <2> QED  BY <1>1, <1>8, <1>9, <1>10, Launched
<1>12. n = l \/ (n = Refuse(m) /\ ~Sized(p))
  <2>1. CASE resident
    <3>1. l = Launch(m, op, fault, {<<m.chain.buffer, Block(30)>>},
                [m.mem EXCEPT ![CentralSkip] = m.mem[m.chain.buffer], ![VitSlot] = op],
                Chain(VitSlot, 1024))
      <4>1. in = m.chain.buffer /\ out = VitSlot /\ keep = CentralSkip
        BY <2>1, <1>5 DEF CentralOf
      <4> HIDE DEF in, out, keep
      <4> QED  BY <4>1, <2>1
    <3>2. m.chain.channels = 512  BY <2>1, <1>5
    <3> HIDE DEF l
    <3> QED  BY <2>1, <3>1, <3>2 DEF EncoderBottleneck, Sized
  <2>2. CASE ~resident
    <3>1. l = Launch(m, op, fault, {<<Ping(512), Block(30)>>},
                [m.mem EXCEPT ![Skip(512)] = m.mem[Ping(512)], ![Ping(1024)] = op],
                m.chain)
      BY <2>2, <1>3 DEF CentralOf
    <3> HIDE DEF l
    <3> QED  BY <2>2, <3>1 DEF EncoderBottleneck
  <2> QED  BY <2>1, <2>2
<1> HIDE DEF l
<1>13. n.wrong = m.wrong  BY <1>11, <1>12, Refused
<1>14. ASSUME n.ok PROVE Fed(p, resident, 31, n) /\ Kept(p, resident, 31, n)
  <2>1. n.mem = mem /\ n.chain = c
    <3>1. n = l  BY <1>12, <1>14, Refused
    <3> HIDE DEF mem, c
    <3> QED  BY <3>1, <1>11, <1>14
  <2> HIDE DEF mem
  <2>2. Source(p, resident, 31) = out
    <3>1. CASE resident = TRUE
      <4>1. Source(p, TRUE, 31) = VitSlot  BY SourceTable
      <4> QED  BY <3>1, <4>1
    <3>2. CASE resident = FALSE
      <4> DEFINE first == VitInput(31)
      <4>1. Source(p, FALSE, 31) = first  BY SourceTable
      <4>2. first = Ping(1024)  BY DEF VitInput
      <4>3. out = Ping(1024)  BY <3>2
      <4> HIDE DEF first, out
      <4>4. Source(p, resident, 31) = first  BY <3>2, <4>1
      <4> QED  BY <4>2, <4>3, <4>4
    <3> QED  BY <3>1, <3>2
  <2>3. n.mem[out] = op /\ n.mem[keep] = Block(30)
    BY <2>1, <1>6, <1>7, <1>8
  <2>4. resident => n.chain = Chain(out, Channels(31))
    BY <2>1, <1>0
  <2>5. Fed(p, resident, 31, n)
    <3>1. Feeds(p, 31) = op  BY FeedsTable
    <3> HIDE DEF out, op
    <3> QED  BY <2>2, <2>3, <2>4, <3>1 DEF Fed
  <2>6. \A x \in Buffers \ Transient : x # keep => n.mem[x] = m.mem[x]
    BY <2>1, <1>6, <1>8
  <2>7. Kept(p, resident, 31, n)
    <3>1. ASSUME NEW b \in EncoderAnchors
          PROVE  n.mem[SkipOf(resident, Channels(b))] = Block(b)
      <4>1. b < 30  BY EncoderAnchorFacts
      <4>2. m.mem[SkipOf(resident, Channels(b))] = Block(b)  BY <4>1 DEF Kept
      <4>3. /\ SkipOf(resident, Channels(b)) \in Buffers \ Transient
            /\ SkipOf(resident, Channels(b)) # keep
        BY KeepingBuffers
      <4> QED  BY <4>2, <4>3, <2>6
    <3>2. p.pre => n.mem[PreSkip] = <<"pre", 0>>
      <4>1. PreSkip \in Buffers \ Transient /\ PreSkip # keep  BY KeepingBuffers
      <4> QED  BY <4>1, <2>6 DEF Kept
    <3> QED  BY <3>1, <3>2, <2>3 DEF Kept
  <2> QED  BY <2>5, <2>7
<1>15. Sized(p) /\ fault = NoFault => n.ok
  <2>1. op # NoFault  BY NoFaultNames
  <2> QED  BY <2>1, <1>11, <1>12
<1> QED  BY <1>13, <1>14, <1>15

(* The decoder bottleneck adds block 30 back and feeds block 40.           *)
LEMMA DecoderBottleneckRight ==
    ASSUME NEW p, NEW resident \in BOOLEAN, Walkable(p, resident), NEW fault,
           NEW m \in WalkType, m.ok,
           Made(resident, 38, m), Kept(p, resident, 38, m),
           NEW n, n = DecoderBottleneck(p, resident, fault, m)
    PROVE  /\ n.wrong = m.wrong
           /\ n.ok => Fed(p, resident, 40, n) /\ Kept(p, resident, 38, n)
           /\ Sized(p) /\ fault = NoFault => n.ok
<1> DEFINE op == <<"decoder", 38>>
<1> DEFINE keep == CentralOf(resident)
<1> DEFINE out == IF resident THEN Target ELSE Ping(512)
<1> DEFINE in == Sink(resident, 38)
<1> DEFINE mem == [m.mem EXCEPT ![out] = op]
<1> DEFINE c == IF resident THEN Chain(Target, 512) ELSE m.chain
<1> DEFINE reads == {<<in, Block(38)>>, <<keep, Block(30)>>}
<1> DEFINE l == Launch(m, op, fault, reads, mem, c)
<1>0. /\ 38 \in VitRecords /\ 40 \notin VitRecords /\ 40 \in 1 .. 69
      /\ Channels(38) = 1024 /\ Channels(40) = 512 /\ 512 \in Widths
  BY DEF VitRecords, Channels, SplitRecords, Widths
<1>1. op \in Images  BY ImageNames
<1>2. m.mem \in [Buffers -> Images] /\ m.chain \in ChainType  BY WalkFields
<1>3. in = IF resident THEN VitSlot ELSE Ping(1024)
  BY <1>0 DEF Sink, VitOutput
<1>4. m.mem[in] = Block(38) /\ m.mem[keep] = Block(30)
  BY DEF Made, Kept
<1>5. resident => m.chain.buffer = in /\ m.chain.channels = 1024
  <2> HIDE DEF in
  <2>1. resident => m.chain = Chain(in, Channels(38))  BY DEF Made, in
  <2> QED  BY <1>0, <2>1 DEF Chain
<1>6. out \in Transient /\ out \in Buffers
  BY <1>0, TransientBuffers
<1>8. /\ mem \in [Buffers -> Images]
      /\ \A x \in Buffers : mem[x] = IF x = out THEN op ELSE m.mem[x]
  <2> HIDE DEF out, op
  <2> QED  BY <1>1, <1>2, <1>6, WriteTyped
<1>9. c \in ChainType
  <2>1. 512 \in ChannelCounts  BY <1>0 DEF ChannelCounts
  <2>2. Target \in Buffers  BY BufferNames
  <2> QED  BY <2>1, <2>2, <1>2, ChainTyped
<1>10. \A read \in reads : m.mem[read[1]] = read[2]
  <2> HIDE DEF in, keep
  <2> QED  BY <1>4, ReadTwo
<1>11. l \in WalkType /\ l.wrong = m.wrong /\ l.ok = (op # fault)
       /\ (op # fault => l.mem = mem /\ l.chain = c)
  <2> HIDE DEF op, mem, c, reads
  <2> QED  BY <1>1, <1>8, <1>9, <1>10, Launched
<1>12. n = l \/ (n = Refuse(m) /\ ~Sized(p))
  <2>1. CASE resident
    <3>1. l = Launch(m, op, fault, {<<m.chain.buffer, Block(38)>>, <<CentralSkip, Block(30)>>},
                [m.mem EXCEPT ![Target] = op], Chain(Target, 512))
      <4>1. in = m.chain.buffer  BY <2>1, <1>5
      <4>2. CentralOf(resident) = CentralSkip  BY <2>1 DEF CentralOf
      <4> HIDE DEF in
      <4> QED  BY <2>1, <4>1, <4>2
    <3>2. m.chain.channels = 1024  BY <2>1, <1>5
    <3>3. ~(p.target < Level(512))  BY DEF Walkable, Level
    <3> HIDE DEF l
    <3> QED  BY <2>1, <3>1, <3>2, <3>3 DEF DecoderBottleneck, Sized
  <2>2. CASE ~resident
    <3>1. l = Launch(m, op, fault, {<<Ping(1024), Block(38)>>, <<Skip(512), Block(30)>>},
                [m.mem EXCEPT ![Ping(512)] = op], m.chain)
      BY <2>2, <1>3 DEF CentralOf
    <3> HIDE DEF l
    <3> QED  BY <2>2, <3>1 DEF DecoderBottleneck
  <2> QED  BY <2>1, <2>2
<1> HIDE DEF l
<1>13. n.wrong = m.wrong  BY <1>11, <1>12, Refused
<1>14. ASSUME n.ok PROVE Fed(p, resident, 40, n) /\ Kept(p, resident, 38, n)
  <2>1. n.mem = mem /\ n.chain = c
    <3>1. n = l  BY <1>12, <1>14, Refused
    <3> HIDE DEF mem, c
    <3> QED  BY <3>1, <1>11, <1>14
  <2> HIDE DEF mem
  <2>2. Source(p, resident, 40) = out
    <3>1. CASE resident = TRUE
      <4>1. Source(p, TRUE, 40) = Target  BY SourceTable
      <4> QED  BY <3>1, <4>1
    <3>2. CASE resident = FALSE
      <4>1. Source(p, FALSE, 40) = Ping(Channels(40))  BY SourceTable
      <4>2. out = Ping(512)  BY <3>2
      <4>3. Source(p, FALSE, 40) = Ping(512)
        <5>1. Channels(40) = 512  BY <1>0
        <5> QED  BY <4>1, <5>1
      <4> HIDE DEF out
      <4> QED  BY <3>2, <4>2, <4>3
    <3> QED  BY <3>1, <3>2
  <2>3. n.mem[out] = op  BY <2>1, <1>6, <1>8
  <2>4. resident => n.chain = Chain(out, Channels(40))  BY <2>1, <1>0
  <2>5. Fed(p, resident, 40, n)
    <3>1. Feeds(p, 40) = op  BY FeedsTable
    <3> HIDE DEF out, op
    <3> QED  BY <2>2, <2>3, <2>4, <3>1 DEF Fed
  <2>6. \A x \in Buffers \ Transient : n.mem[x] = m.mem[x]
    BY <2>1, <1>6, <1>8
  <2> QED  BY <2>5, <2>6, KeptWhenTransientWritten
<1>15. Sized(p) /\ fault = NoFault => n.ok
  <2>1. op # NoFault  BY NoFaultNames
  <2> QED  BY <2>1, <1>11, <1>12
<1> QED  BY <1>13, <1>14, <1>15

\* Between two blocks that nothing separates, the image stays where it is.
LEMMA PlainNeighbours ==
    ASSUME NEW r \in 1 .. 68, r \notin EncoderAnchors, r \notin {30, 38, 39},
           r + 1 \notin DecoderAnchors
    PROVE  /\ r + 1 \in 2 .. 69 /\ r + 1 \in 1 .. 69 /\ (r + 1) - 1 = r
           /\ r + 1 \notin {1, 5, 9, 15, 23, 31, 40}
           /\ r + 1 \in VitRecords <=> r \in VitRecords
           /\ Channels(r + 1) = Channels(r)
<1>1. /\ r + 1 \in 2 .. 69 /\ r + 1 \in 1 .. 69 /\ (r + 1) - 1 = r
      /\ r + 1 \notin {1, 5, 9, 15, 23, 31, 40}
  BY DEF EncoderAnchors
<1>2. r + 1 \in VitRecords <=> r \in VitRecords
  BY DEF VitRecords
<1>3. Channels(r + 1) = Channels(r)
  BY DEF EncoderAnchors, DecoderAnchors, Channels, SplitRecords
<1> QED  BY <1>1, <1>2, <1>3

\* So the image a block left feeds the next one.
LEMMA PlainRight ==
    ASSUME NEW p, NEW resident \in BOOLEAN, NEW m,
           NEW r \in 1 .. 68, r \notin EncoderAnchors, r \notin {30, 38, 39},
           r + 1 \notin DecoderAnchors, Made(resident, r, m)
    PROVE  Fed(p, resident, r + 1, m)
<1> DEFINE s == r + 1
<1>1. /\ s \in 2 .. 69 /\ s \in 1 .. 69 /\ s - 1 = r /\ s # 1
      /\ s \notin {1, 31, 40} /\ s \notin DecoderAnchors \cup {5, 9, 15, 23, 40}
      /\ s \in VitRecords <=> r \in VitRecords
      /\ Channels(s) = Channels(r)
  BY PlainNeighbours
<1>2. Feeds(p, s) = Block(r)
  <2> HIDE DEF s
  <2>1. s \notin DecoderAnchors /\ s - 1 \notin EncoderAnchors  BY <1>1
  <2>2. Feeds(p, s) = Block(s - 1)  BY <1>1, <2>1, FeedsTable
  <2> QED  BY <1>1, <2>2
<1>3. Source(p, resident, s) = Sink(resident, r)
  <2>1. CASE resident = TRUE /\ r \in VitRecords
    <3> HIDE DEF s
    <3>1. Source(p, TRUE, s) = VitSlot  BY <1>1, <2>1, SourceTable
    <3> QED  BY <2>1, <3>1 DEF Sink
  <2>2. CASE resident = TRUE /\ r \notin VitRecords
    <3> HIDE DEF s
    <3>1. Source(p, TRUE, s) = Scratch  BY <1>1, <2>2, SourceTable
    <3> QED  BY <2>2, <3>1 DEF Sink
  <2>3. CASE resident = FALSE /\ r \in VitRecords
    <3>1. s % 2 = 1 <=> r % 2 # 1  OBVIOUS
    <3> HIDE DEF s
    <3>2. Source(p, FALSE, s) = VitInput(s)  BY <1>1, <2>3, SourceTable
    <3>3. VitInput(s) = VitOutput(r)  BY <3>1 DEF VitInput, VitOutput
    <3> QED  BY <2>3, <3>2, <3>3 DEF Sink
  <2>4. CASE resident = FALSE /\ r \notin VitRecords
    <3> HIDE DEF s
    <3>1. Source(p, FALSE, s) = Ping(Channels(s))  BY <1>1, <2>4, SourceTable
    <3> QED  BY <1>1, <2>4, <3>1 DEF Sink
  <2> QED  BY <2>1, <2>2, <2>3, <2>4
<1> HIDE DEF s
<1>4. Fed(p, resident, s, m)
  BY <1>1, <1>2, <1>3 DEF Fed, Made
<1> QED  BY <1>4 DEF s

\* At a record that keeps nothing, what is kept stays the same.
LEMMA KeptOn ==
    ASSUME NEW p, NEW resident, NEW m, NEW r \in 0 .. 69,
           r \notin EncoderAnchors, r # 30, Kept(p, resident, r, m)
    PROVE  Kept(p, resident, r + 1, m)
<1>1. \A a \in EncoderAnchors : a < r + 1 => a < r
  BY DEF EncoderAnchors
<1>2. r + 1 > 30 => r > 30  OBVIOUS
<1> QED  BY <1>1, <1>2 DEF Kept

(* One record of the walk: its upsample, its block, its downsample and its *)
(* bottleneck, whichever of them it has.                                   *)
LEMMA AtRight ==
    ASSUME NEW p, NEW resident \in BOOLEAN, Walkable(p, resident), NEW fault,
           NEW r \in 1 .. 69, r # 39, NEW m \in WalkType, m.ok,
           Passed(p, resident, r - 1, m), Kept(p, resident, r, m)
    PROVE  Advanced(p, resident, fault, r, m, At(p, resident, fault, r, m))
<1> DEFINE n == At(p, resident, fault, r, m)
<1> SUFFICES /\ n \in WalkType
             /\ n.wrong = m.wrong
             /\ n.ok => Passed(p, resident, r, n) /\ Kept(p, resident, r + 1, n)
             /\ Sized(p) /\ fault = NoFault => n.ok
  BY DEF Advanced
<1>0. p \in PlanType /\ TrunkOf(p) /\ p.transitions = ScaleTransitions /\ p.bottleneck
  BY DEF Walkable, TrunkOf
<1> DEFINE m1 == RecordTransition(p, resident, fault, "up", r, m)
<1>1. /\ m1 \in WalkType /\ m1.wrong = m.wrong
      /\ m1.ok => Fed(p, resident, r, m1) /\ Kept(p, resident, r, m1)
      /\ fault = NoFault => m1.ok
  <2>1. m1 \in WalkType  BY <1>0, TransitionTyped
  <2>2. CASE r \in DecoderAnchors
    <3>1. <<"up", r>> \in p.transitions  BY <1>0, <2>2, Transitions
    <3>2. m1 = Upsample(p, resident, fault, r, m)  BY <3>1 DEF RecordTransition
    <3>3. Made(resident, r - 1, m)
      <4>1. (r - 1) + 1 = r  OBVIOUS
      <4> QED  BY <2>2, <4>1 DEF Passed
    <3> HIDE DEF m1
    <3> QED  BY <2>1, <2>2, <3>2, <3>3, UpRight
  <2>3. CASE r \notin DecoderAnchors
    <3>1. <<"up", r>> \notin p.transitions  BY <1>0, <2>3 DEF ScaleTransitions
    <3>2. m1 = m  BY <3>1 DEF RecordTransition
    <3>3. (r - 1) + 1 = r /\ r - 1 # 69 /\ r - 1 # 38  OBVIOUS
    <3>4. Following(r - 1) = r  BY <3>3 DEF Following
    <3>5. Fed(p, resident, r, m)  BY <2>3, <3>3, <3>4 DEF Passed
    <3> HIDE DEF m1
    <3> QED  BY <2>1, <3>2, <3>5
  <2> QED  BY <2>2, <2>3
<1> HIDE DEF m1
<1> DEFINE m2 == RecordBlock(p, resident, fault, r, m1)
<1>2. /\ m2 \in WalkType /\ m2.wrong = m.wrong
      /\ m2.ok => Made(resident, r, m2) /\ Kept(p, resident, r, m2)
      /\ Sized(p) /\ fault = NoFault => m2.ok
  <2>1. m2 \in WalkType  BY <1>0, <1>1, BlockTyped
  <2>2. CASE m1.ok
    <3>1. Fed(p, resident, r, m1) /\ Kept(p, resident, r, m1)  BY <1>1, <2>2
    <3>2. Ran(p, resident, fault, r, m1, m2)
      <4>1. TrunkOf(p) /\ m1 \in WalkType  BY <1>0, <1>1
      <4> QED  BY <2>2, <3>1, <4>1, BlockRight
    <3> HIDE DEF m2
    <3> QED  BY <1>1, <2>1, <3>2 DEF Ran
  <2>3. CASE ~m1.ok
    <3>1. m2 = m1  BY <2>3 DEF RecordBlock
    <3> HIDE DEF m2
    <3> QED  BY <1>1, <2>1, <2>3, <3>1
  <2> QED  BY <2>2, <2>3
<1> HIDE DEF m2
<1> DEFINE m3 == RecordTransition(p, resident, fault, "down", r, m2)
<1>3. /\ m3 \in WalkType /\ m3.wrong = m.wrong
      /\ m3.ok /\ r \in EncoderAnchors =>
           Fed(p, resident, r + 1, m3) /\ Kept(p, resident, r + 1, m3)
      /\ m3.ok /\ r \notin EncoderAnchors =>
           Made(resident, r, m3) /\ Kept(p, resident, r, m3)
      /\ Sized(p) /\ fault = NoFault => m3.ok
  <2>1. m3 \in WalkType  BY <1>0, <1>2, TransitionTyped
  <2>2. CASE r \in EncoderAnchors /\ m2.ok
    <3>1. <<"down", r>> \in p.transitions  BY <1>0, <2>2, Transitions
    <3>2. m3 = Downsample(p, resident, fault, r, m2)  BY <2>2, <3>1 DEF RecordTransition
    <3> HIDE DEF m3
    <3>3. /\ m3.wrong = m2.wrong
          /\ m3.ok => Fed(p, resident, r + 1, m3) /\ Kept(p, resident, r + 1, m3)
          /\ fault = NoFault => m3.ok
      BY <1>2, <2>2, <3>2, DownRight
    <3> QED  BY <1>2, <2>1, <2>2, <3>3
  <2>3. CASE r \notin EncoderAnchors \/ ~m2.ok
    <3>1. r \notin EncoderAnchors => <<"down", r>> \notin p.transitions
      BY <1>0 DEF ScaleTransitions
    <3>2. m3 = m2  BY <2>3, <3>1 DEF RecordTransition
    <3> HIDE DEF m3
    <3> QED  BY <1>2, <2>1, <2>3, <3>2
  <2> QED  BY <2>2, <2>3
<1> HIDE DEF m3
<1>4. n = RecordBottleneck(p, resident, fault, r, m3)
  BY DEF At, m1, m2, m3
<1> HIDE DEF n
<1>5. n \in WalkType  BY <1>3, <1>4, BottleneckTyped
<1>6. CASE ~m3.ok
  <2>1. n = m3  BY <1>4, <1>6 DEF RecordBottleneck
  <2> QED  BY <1>3, <1>5, <1>6, <2>1
<1>7. CASE m3.ok /\ r = 30
  <2>0. r \notin EncoderAnchors /\ r + 1 = 31 /\ Following(r) = 31 /\ 31 \notin DecoderAnchors
    BY <1>7 DEF EncoderAnchors, DecoderAnchors, Following
  <2>1. n = EncoderBottleneck(p, resident, fault, m3)
    BY <1>0, <1>4, <1>7 DEF RecordBottleneck
  <2>2. Made(resident, 30, m3) /\ Kept(p, resident, 30, m3)  BY <1>3, <1>7, <2>0
  <2>3. /\ n.wrong = m3.wrong
        /\ n.ok => Fed(p, resident, 31, n) /\ Kept(p, resident, 31, n)
        /\ Sized(p) /\ fault = NoFault => n.ok
    BY <1>3, <1>7, <2>1, <2>2, EncoderBottleneckRight
  <2>4. n.ok => Passed(p, resident, r, n)
    BY <1>7, <2>0, <2>3 DEF Passed
  <2> QED  BY <1>3, <1>5, <1>7, <2>0, <2>3, <2>4
<1>8. CASE m3.ok /\ r = 38
  <2>0. r \notin EncoderAnchors /\ r + 1 = 39 /\ Following(r) = 40 /\ 39 \notin DecoderAnchors
    BY <1>8 DEF EncoderAnchors, DecoderAnchors, Following
  <2>1. n = DecoderBottleneck(p, resident, fault, m3)
    BY <1>0, <1>4, <1>8 DEF RecordBottleneck
  <2>2. Made(resident, 38, m3) /\ Kept(p, resident, 38, m3)  BY <1>3, <1>8, <2>0
  <2>3. /\ n.wrong = m3.wrong
        /\ n.ok => Fed(p, resident, 40, n) /\ Kept(p, resident, 38, n)
        /\ Sized(p) /\ fault = NoFault => n.ok
    BY <1>3, <1>8, <2>1, <2>2, DecoderBottleneckRight
  <2>4. n.ok => Passed(p, resident, r, n)
    BY <1>8, <2>0, <2>3 DEF Passed
  <2>5. n.ok => Kept(p, resident, r + 1, n)
    <3>1. r \in 0 .. 69 /\ r # 30  BY <1>8
    <3>2. n.ok => Kept(p, resident, r, n)  BY <1>8, <2>3
    <3> QED  BY <2>0, <3>1, <3>2, KeptOn
  <2> QED  BY <1>3, <1>5, <2>3, <2>4, <2>5
<1>9. CASE m3.ok /\ r # 30 /\ r # 38
  <2>1. n = m3  BY <1>0, <1>4, <1>9 DEF RecordBottleneck
  <2>2. CASE r \in EncoderAnchors
    <3>1. r # 69 /\ r + 1 \notin DecoderAnchors /\ Following(r) = r + 1
      BY <2>2 DEF EncoderAnchors, DecoderAnchors, Following
    <3>2. Passed(p, resident, r, n)  BY <1>3, <1>9, <2>1, <2>2, <3>1 DEF Passed
    <3> QED  BY <1>3, <1>5, <1>9, <2>1, <2>2, <3>2
  <2>3. CASE r \notin EncoderAnchors
    <3>1. Made(resident, r, n) /\ Kept(p, resident, r, n)  BY <1>3, <1>9, <2>1, <2>3
    <3>2. Kept(p, resident, r + 1, n)
      <4>1. r \in 0 .. 69  OBVIOUS
      <4> QED  BY <1>9, <2>3, <3>1, <4>1, KeptOn
    <3>3. Passed(p, resident, r, n)
      <4>1. CASE r = 69 \/ r + 1 \in DecoderAnchors  BY <3>1, <4>1 DEF Passed
      <4>2. CASE ~(r = 69 \/ r + 1 \in DecoderAnchors)
        <5>1. r \in 1 .. 68 /\ r \notin {30, 38, 39} /\ Following(r) = r + 1
          BY <1>9, <4>2 DEF Following
        <5>2. Fed(p, resident, r + 1, n)
          BY <2>3, <3>1, <4>2, <5>1, PlainRight
        <5> QED  BY <4>2, <5>1, <5>2 DEF Passed
      <4> QED  BY <4>1, <4>2
    <3> QED  BY <1>3, <1>5, <1>9, <2>1, <3>2, <3>3
  <2> QED  BY <2>2, <2>3
<1> QED  BY <1>6, <1>7, <1>8, <1>9
-----------------------------------------------------------------------------
(* The whole walk, and what a frame or a capture makes of it.              *)

\* Before the first record, its image lies where it will look: the caller's
\* input, or Pre's image.
LEMMA WalkBeginsRight ==
    ASSUME NEW p, NEW start \in ChainType, NEW recording \in BOOLEAN,
           Walkable(p, Resident(p, recording)), NEW fault
    PROVE  Right(p, Resident(p, recording), fault, 0,
                 RecordPre(p, fault, Start(p, start, recording)))
<1> DEFINE resident == Resident(p, recording)
<1> DEFINE m == Start(p, start, recording)
<1> DEFINE n == RecordPre(p, fault, m)
<1>0. resident \in BOOLEAN /\ p.pre \in BOOLEAN
  BY DEF Walkable, Resident, PlanType
<1>1. /\ m \in WalkType /\ m.ok /\ m.wrong = {} /\ m.mem[Ping(32)] = Input
      /\ m.chain = IF resident THEN NoChain ELSE start
  BY StartTyped
<1>2. n \in WalkType  BY <1>1, PreTyped
<1>3. /\ 0 # 69 /\ 0 + 1 \notin DecoderAnchors /\ Following(0) = 1 /\ 0 + 1 = 1
      /\ ~(1 > 30) /\ \A a \in EncoderAnchors : ~(a < 1)
  BY DEF DecoderAnchors, EncoderAnchors, Following
<1>4. CASE ~p.pre
  <2>1. n = m  BY <1>4 DEF RecordPre
  <2>2. Source(p, resident, 1) = Ping(32)
    <3>1. 1 \notin DecoderAnchors \cup {5, 9, 15, 23, 40} /\ 1 \notin VitRecords
      BY DEF DecoderAnchors, VitRecords
    <3>2. Channels(1) = 32  BY ChannelRange
    <3> QED  BY <1>0, <1>4, <3>1, <3>2 DEF Source
  <2>3. Feeds(p, 1) = Input  BY <1>4, FeedsTable
  <2>4. Fed(p, resident, 1, n)
    <3> HIDE DEF m, n, resident
    <3> QED  BY <1>1, <1>4, <2>1, <2>2, <2>3 DEF Fed
  <2>5. Kept(p, resident, 1, n)  BY <1>3, <1>4 DEF Kept
  <2>6. Passed(p, resident, 0, n)  BY <1>3, <2>4 DEF Passed
  <2> HIDE DEF m, n, resident
  <2>7. Kept(p, resident, 0 + 1, n)  BY <1>3, <2>5
  <2> QED  BY <1>1, <1>2, <2>1, <2>6, <2>7 DEF Right, n, resident, m
<1>5. CASE p.pre
  <2> DEFINE op == <<"pre", 0>>
  <2> DEFINE mem == [m.mem EXCEPT ![PreSkip] = op, ![Target] = op]
  <2> DEFINE l == Launch(m, op, fault, {}, mem, Chain(Target, 32))
  <2>0. resident  BY <1>5 DEF Walkable
  <2>1. op \in Images /\ PreSkip \in Buffers /\ Target \in Buffers /\ PreSkip # Target
    BY ImageNames, BufferNames, BuffersDiffer
  <2>2. m.mem \in [Buffers -> Images]  BY <1>1, WalkFields
  <2>3. mem \in [Buffers -> Images] /\ mem[Target] = op /\ mem[PreSkip] = op
    <3> HIDE DEF op, m
    <3> QED  BY <2>1, <2>2, WriteTyped
  <2>4. Chain(Target, 32) \in ChainType
    <3>1. 32 \in ChannelCounts  BY DEF ChannelCounts, Widths
    <3> QED  BY <2>1, <3>1, ChainTyped
  <2>5. l.wrong = {} /\ l.ok = (op # fault)
        /\ (op # fault => l.mem = mem /\ l.chain = Chain(Target, 32))
    <3> HIDE DEF op, mem, m
    <3> QED  BY <1>1, <2>1, <2>3, <2>4, Launched
  <2>6. n = l \/ (n = Refuse(m) /\ ~Sized(p))
    <3>1. ~(p.target < Level(32))  BY DEF Walkable, Level
    <3> HIDE DEF m
    <3> QED  BY <1>5, <3>1 DEF RecordPre, Sized
  <2> HIDE DEF l, m
  <2>7. n.wrong = {}  BY <1>1, <2>5, <2>6, Refused
  <2>8. Sized(p) /\ fault = NoFault => n.ok
    <3>1. op # NoFault  BY NoFaultNames
    <3> QED  BY <3>1, <2>5, <2>6
  <2>9. ASSUME n.ok PROVE Fed(p, resident, 1, n) /\ Kept(p, resident, 1, n)
    <3>1. n.mem = mem /\ n.chain = Chain(Target, 32)
      <4>1. n = l  BY <1>1, <2>6, <2>9, Refused
      <4> HIDE DEF mem, op
      <4> QED  BY <4>1, <2>5, <2>9
    <3> HIDE DEF mem, n
    <3>2. Source(p, resident, 1) = Target
      <4>1. 1 \notin DecoderAnchors \cup {5, 9, 15, 23, 40} /\ 1 \notin VitRecords
        BY DEF DecoderAnchors, VitRecords
      <4> QED  BY <1>5, <2>0, <4>1 DEF Source
    <3>3. Feeds(p, 1) = op  BY <1>5, FeedsTable
    <3>4. Channels(1) = 32  BY ChannelRange
    <3>5. n.mem[Target] = op /\ n.mem[PreSkip] = op  BY <2>3, <3>1
    <3>6. Fed(p, resident, 1, n)
      <4> HIDE DEF op, resident
      <4> QED  BY <1>5, <3>1, <3>2, <3>3, <3>4, <3>5 DEF Fed
    <3>7. Kept(p, resident, 1, n)  BY <1>3, <3>5 DEF Kept
    <3> QED  BY <3>6, <3>7
  <2>10. n.ok => Passed(p, resident, 0, n) /\ Kept(p, resident, 0 + 1, n)
    <3> HIDE DEF n, resident
    <3> QED  BY <1>3, <2>9 DEF Passed
  <2> HIDE DEF n, resident
  <2> QED  BY <1>2, <2>7, <2>8, <2>10 DEF Right, n, resident, m
<1> QED  BY <1>4, <1>5

\* A walk of the whole network is right from its first record to its last.
LEMMA WalkRight ==
    ASSUME NEW p, NEW start \in ChainType, NEW recording \in BOOLEAN,
           Walkable(p, Resident(p, recording)), NEW fault
    PROVE  \A r \in 0 .. 69 :
             Right(p, Resident(p, recording), fault, r, Walked(p, start, recording, fault)[r])
<1> DEFINE resident == Resident(p, recording)
<1> DEFINE walk == Walked(p, start, recording, fault)
<1> DEFINE T == {r \in 0 .. 69 : Right(p, resident, fault, r, walk[r])}
<1>1. \A r \in 0 .. 69 : walk[r] =
        IF r = 0 THEN RecordPre(p, fault, Start(p, start, recording))
        ELSE IF walk[r - 1].ok /\ r \in Records(p)
             THEN At(p, resident, fault, r, walk[r - 1]) ELSE walk[r - 1]
  BY WalkUnfolds
<1>2. p \in PlanType /\ resident \in BOOLEAN /\ Walkable(p, resident)
  BY DEF Walkable, Resident, PlanType
<1>3. 0 \in T
  <2>1. walk[0] = RecordPre(p, fault, Start(p, start, recording))  BY <1>1
  <2> HIDE DEF walk
  <2> QED  BY <2>1, WalkBeginsRight
<1> HIDE DEF walk, resident
<1>4. Records(p) = (1 .. 69) \ {39}
  BY <1>2 DEF Walkable, TrunkOf, Records, WideRecords, SplitRecords, VitRecords
<1>5. ASSUME NEW n \in T, n < 69 PROVE n + 1 \in T
  <2> DEFINE r == n + 1
  <2> DEFINE m == walk[n]
  <2>1. /\ r \in 1 .. 69 /\ r \in 0 .. 69 /\ r - 1 = n /\ r # 0 /\ n \in 0 .. 69
        /\ Right(p, resident, fault, n, m)
    BY <1>5
  <2>2. m \in WalkType /\ m.wrong = {}
        /\ (m.ok => Passed(p, resident, n, m) /\ Kept(p, resident, r, m))
        /\ (Sized(p) /\ fault = NoFault => m.ok)
    <3> HIDE DEF m
    <3> QED  BY <2>1 DEF Right
  <2>3. walk[r] = IF m.ok /\ r \in Records(p) THEN At(p, resident, fault, r, m) ELSE m
    <3> HIDE DEF r
    <3> QED  BY <1>1, <2>1
  <2> HIDE DEF m
  <2>4. Right(p, resident, fault, r, walk[r])
    <3>1. CASE m.ok /\ r # 39
      <4> DEFINE next == walk[r]
      <4>1. next = At(p, resident, fault, r, m)  BY <1>4, <2>1, <2>3, <3>1
      <4> HIDE DEF next, r
      <4>2. Passed(p, resident, r - 1, m) /\ Kept(p, resident, r, m)
        BY <2>1, <2>2, <3>1
      <4>3. Advanced(p, resident, fault, r, m, next)
        BY <1>2, <2>1, <2>2, <3>1, <4>1, <4>2, AtRight
      <4>4. Right(p, resident, fault, r, next)  BY <2>2, <4>3 DEF Advanced, Right
      <4> QED  BY <4>4 DEF next
    <3>2. CASE ~m.ok
      <4>1. walk[r] = m  BY <2>3, <3>2
      <4> HIDE DEF r
      <4> QED  BY <2>2, <3>2, <4>1 DEF Right
    <3>3. CASE m.ok /\ r = 39
      <4>1. walk[r] = m  BY <1>4, <2>3, <3>3
      <4>2. /\ n = 38 /\ 38 # 69 /\ 39 # 69 /\ 39 \notin DecoderAnchors
            /\ 40 \notin DecoderAnchors /\ Following(38) = 40 /\ Following(39) = 40
            /\ 38 + 1 = 39 /\ 39 + 1 = 40 /\ 39 \notin EncoderAnchors /\ 39 \in 0 .. 69
        BY <3>3 DEF Following, DecoderAnchors, EncoderAnchors
      <4>3. Passed(p, resident, 38, m) /\ Kept(p, resident, 39, m)
        BY <2>2, <3>3, <4>2
      <4>4. Passed(p, resident, 39, m)  BY <4>2, <4>3 DEF Passed
      <4>5. Kept(p, resident, 39 + 1, m)  BY <4>2, <4>3, KeptOn
      <4>6. Right(p, resident, fault, 39, m)  BY <2>2, <4>4, <4>5 DEF Right
      <4> QED  BY <3>3, <4>1, <4>6
    <3> QED  BY <3>1, <3>2, <3>3
  <2> QED  BY <2>1, <2>4
<1>6. T = 0 .. 69
  <2>1. T \in SUBSET (0 .. 69)  OBVIOUS
  <2> HIDE DEF T
  <2> QED  BY <1>3, <1>5, <2>1, BoundedInduction
<1> QED  BY <1>6 DEF walk, resident

\* The outcome of a walk, whatever the plan.
LEMMA RecordTyped ==
    ASSUME NEW p \in PlanType, NEW start \in ChainType, NEW recording \in BOOLEAN, NEW fault
    PROVE  /\ Record(p, start, recording, fault).chain \in ChainType
           /\ Record(p, start, recording, fault).ok \in BOOLEAN
<1> DEFINE m == Walked(p, start, recording, fault)[69]
<1>1. m \in WalkType  BY WalkTyped
<1> HIDE DEF m
<1> DEFINE end == RecordHead(p, fault, m)
<1>2. end \in WalkType  BY <1>1, HeadTyped
<1>3. Record(p, start, recording, fault) =
        [ok |-> end.ok, chain |-> end.chain, wrong |-> end.wrong]
  BY DEF Record, m
<1> HIDE DEF end
<1> QED  BY <1>2, <1>3, WalkFields

\* A walk of the whole network that ends well read every image its
\* predecessor wrote, and one with every buffer it needs ends well unless
\* a launch fails.
THEOREM RecordRight ==
    ASSUME NEW p, NEW start \in ChainType, NEW recording \in BOOLEAN,
           Walkable(p, Resident(p, recording)), NEW fault
    PROVE  /\ Record(p, start, recording, fault).wrong = {}
           /\ Sized(p) /\ fault = NoFault => Record(p, start, recording, fault).ok
<1> DEFINE resident == Resident(p, recording)
<1> DEFINE m == Walked(p, start, recording, fault)[69]
<1>1. Right(p, resident, fault, 69, m)  BY WalkRight
<1> HIDE DEF m
<1> DEFINE end == RecordHead(p, fault, m)
<1>2. Record(p, start, recording, fault) =
        [ok |-> end.ok, chain |-> end.chain, wrong |-> end.wrong]
  BY DEF Record, m
<1>3. /\ m \in WalkType /\ m.wrong = {}
      /\ m.ok => Made(resident, 69, m) /\ Kept(p, resident, 69 + 1, m)
      /\ Sized(p) /\ fault = NoFault => m.ok
  <2> HIDE DEF resident
  <2> QED  BY <1>1 DEF Right, Passed
<1>4. CASE ~m.ok \/ ~p.head
  <2>1. end = m  BY <1>4 DEF RecordHead
  <2> HIDE DEF end
  <2> QED  BY <1>2, <1>3, <2>1
<1>5. CASE m.ok /\ p.head
  <2>0. p.pre /\ resident  BY <1>5 DEF Walkable
  <2> DEFINE op == <<"head", 70>>
  <2> DEFINE mem == [m.mem EXCEPT ![Output] = op]
  <2> DEFINE reads == {<<m.chain.buffer, Block(69)>>, <<PreSkip, <<"pre", 0>>>>}
  <2> DEFINE l == Launch(m, op, fault, reads, mem, m.chain)
  <2>1. m.mem[m.chain.buffer] = Block(69) /\ m.chain.channels = 32
    <3>1. Channels(69) = 32  BY ChannelRange
    <3>2. m.chain = Chain(Sink(resident, 69), 32) /\ m.mem[Sink(resident, 69)] = Block(69)
      <4> HIDE DEF resident
      <4> QED  BY <1>3, <1>5, <2>0, <3>1 DEF Made
    <3> QED  BY <3>2 DEF Chain
  <2>2. m.mem[PreSkip] = <<"pre", 0>>  BY <1>3, <1>5, <2>0 DEF Kept
  <2>3. op \in Images /\ Output \in Buffers
    <3>1. op \in Images  BY ImageNames
    <3>2. Output \in Buffers  BY BufferNames
    <3> HIDE DEF op
    <3> QED  BY <3>1, <3>2
  <2>4. m.mem \in [Buffers -> Images] /\ m.chain \in ChainType  BY <1>3, WalkFields
  <2>5. mem \in [Buffers -> Images]
    <3> HIDE DEF op
    <3> QED  BY <2>3, <2>4, WriteTyped
  <2>6. \A read \in reads : m.mem[read[1]] = read[2]
    BY <2>1, <2>2, ReadTwo
  <2>7. l.wrong = {} /\ l.ok = (op # fault)
    <3> HIDE DEF op, mem, reads
    <3> QED  BY <1>3, <1>5, <2>3, <2>4, <2>5, <2>6, Launched
  <2>8. end = l \/ (end = Refuse(m) /\ ~Sized(p))
    <3> HIDE DEF l
    <3>1. end = IF ~p.edge \/ ~p.lut THEN Refuse(m) ELSE l
      BY <1>5, <2>1 DEF RecordHead, l
    <3> HIDE DEF end
    <3> QED  BY <3>1 DEF Sized
  <2> HIDE DEF end, l
  <2>9. end.wrong = {}  BY <1>3, <2>7, <2>8, Refused
  <2>10. Sized(p) /\ fault = NoFault => end.ok
    <3>1. op # NoFault  BY NoFaultNames
    <3> QED  BY <2>7, <2>8, <3>1
  <2> QED  BY <1>2, <2>9, <2>10
<1> QED  BY <1>4, <1>5

-----------------------------------------------------------------------------
(* A resident walk of a labelled plan, with all the stage blocks or one    *)
(* missing, is not refused: the blocks between the bottlenecks and the     *)
(* output edge are there, and leave the chain in the scale the next        *)
(* operation insists on.                                                   *)
Endowed(p) ==
    /\ p \in PlanType /\ Sized(p) /\ p.target = 5
    /\ p.transitions = ScaleTransitions
    /\ p.vit /\ p.bottleneck /\ p.split = SplitRecords
    /\ {1, 69} \subseteq p.stage
    /\ p.stage \cap (SplitRecords \cup VitRecords) = {}

Alive(m) == m \in WalkType /\ m.ok

Leaves(m, ch) == Alive(m) /\ m.chain.channels = ch
Central(m) == Leaves(m, 512)
Deep(m) == Leaves(m, 1024)

Past(r, m) ==
    /\ Alive(m)
    /\ r \in VitRecords => Deep(m)
    /\ r = 30 => Central(m)
    /\ r = 69 => Leaves(m, 32)

Going(r, m) ==
    /\ Alive(m)
    /\ r \in 30 .. 37 => Deep(m)
    /\ r = 69 => Leaves(m, 32)

Harmless(fault) == fault = NoFault

\* The fields an endowed plan is used for.
LEMMA EndowedFields ==
    ASSUME NEW p, Endowed(p)
    PROVE  /\ p \in PlanType /\ p.edge /\ p.lut /\ p.vit_scratch /\ p.bottleneck_skip
           /\ ~(p.target < Level(32)) /\ ~(p.target < Level(512))
           /\ \A ch : ~(p.scratch < Level(ch))
<1>1. Level(32) <= 5 /\ Level(512) <= 5  BY DEF Level
<1>2. p.target = 5 /\ p.scratch = 5  BY DEF Endowed, Sized
<1>3. \A ch : ~(p.scratch < Level(ch))
  <2> TAKE ch
  <2>1. Level(ch) \in 1 .. 5  BY LevelRange
  <2> QED  BY <2>1, <1>2
<1> QED  BY <1>1, <1>2, <1>3 DEF Endowed, Sized

\* The records without a transition that matter to the chain.
LEMMA PlainRecords ==
    ASSUME NEW p, p.transitions = ScaleTransitions, NEW r \in VitRecords \cup {30, 69}
    PROVE  <<"up", r>> \notin p.transitions /\ <<"down", r>> \notin p.transitions
<1>1. r \notin EncoderAnchors /\ r \notin DecoderAnchors
  BY DEF EncoderAnchors, DecoderAnchors, VitRecords
<1> QED  BY <1>1 DEF ScaleTransitions

\* No operation of the walk is the one that fails when none does.
LEMMA NoneFails ==
    ASSUME NEW fault, Harmless(fault), NEW r
    PROVE  /\ Block(r) # fault /\ <<"pre", 0>> # fault
           /\ <<"up", r>> # fault /\ <<"down", r>> # fault
           /\ <<"encoder", 30>> # fault /\ <<"decoder", 38>> # fault
           /\ <<"head", 70>> # fault
  BY DEF Harmless, NoFault, Block

\* A Swin block of an endowed plan goes on, into the shared scratch.
LEMMA SwinGoes ==
    ASSUME NEW p, Endowed(p), NEW fault, Harmless(fault), NEW resident \in BOOLEAN,
           NEW r \in 1 .. 69, NEW ch \in Widths, NEW m, Alive(m)
    PROVE  resident => Leaves(SwinBlock(p, resident, fault, r, ch, m), ch)
<1>1. ~(p.scratch < Level(ch))  BY EndowedFields
<1>2. Block(r) # fault  BY NoneFails
<1>3. m \in WalkType /\ m.ok  BY DEF Alive
<1> DEFINE n == SwinBlock(p, resident, fault, r, ch, m)
<1>4. n \in WalkType /\ (resident => n.ok /\ n.chain = Chain(Scratch, ch))
  BY <1>1, <1>2, <1>3, SwinTyped
<1> HIDE DEF n
<1>5. Chain(Scratch, ch).channels = ch  BY DEF Chain
<1>6. resident => Leaves(n, ch)  BY <1>4, <1>5 DEF Deep, Leaves, Alive
<1> QED  BY <1>6 DEF n

\* A ViT block goes on when the chain has its scale.
LEMMA VitGoes ==
    ASSUME NEW p, Endowed(p), NEW fault, Harmless(fault), NEW resident \in BOOLEAN,
           NEW r, Block(r) \in Images, NEW m, Deep(m)
    PROVE  resident => Deep(VitBlock(p, resident, fault, r, m))
<1>1. Block(r) # fault  BY NoneFails
<1>2. m \in WalkType /\ m.ok /\ m.chain.channels = 1024  BY DEF Deep, Leaves, Alive
<1>3. resident => VitReady(p, resident, m)  BY <1>2, EndowedFields DEF VitReady
<1> DEFINE n == VitBlock(p, resident, fault, r, m)
<1>4. n \in WalkType /\ (VitReady(p, resident, m) => n.ok /\ n.chain = Chain(VitSlot, 1024))
  BY <1>1, <1>2, VitTyped
<1> HIDE DEF n
<1>5. Chain(VitSlot, 1024).channels = 1024  BY DEF Chain
<1>6. VitReady(p, resident, m) => Deep(n)  BY <1>4, <1>5 DEF Deep, Leaves, Alive
<1>7. resident => Deep(n)  BY <1>3, <1>6
<1> QED  BY <1>7 DEF n

\* A block of the walk goes on, and leaves the chain in its own scale.
LEMMA BlockGoes ==
    ASSUME NEW p, Endowed(p), NEW fault, Harmless(fault), NEW resident \in BOOLEAN,
           NEW r \in 1 .. 69, r \in Records(p), NEW m, Alive(m),
           r \in VitRecords => Deep(m)
    PROVE  resident => Past(r, RecordBlock(p, resident, fault, r, m))
<1> DEFINE n == RecordBlock(p, resident, fault, r, m)
<1>1. m.ok  BY DEF Alive
<1>2. (\A ch : Leaves(n, ch) => Alive(n)) /\ (Deep(n) => Alive(n))  BY DEF Deep, Leaves
<1>3. CASE r \in p.stage
  <2> DEFINE ch == BlockChannels(p, r)
  <2>1. ch \in Widths  BY <1>3, StageWidths DEF BlockChannels, Widths
  <2>2. n = SwinBlock(p, resident, fault, r, ch, m)
    BY <1>1, <1>3 DEF RecordBlock, StageBlock
  <2>3. r \notin VitRecords /\ r # 30
    BY <1>3 DEF Endowed, SplitRecords
  <2>4. r = 69 => ch = 32
    <3>1. 69 \in WideRecords  BY DEF WideRecords
    <3>2. r = 69 => StageChannels(r) = 32  BY <3>1, StageWidths, ChannelRange
    <3> QED  BY <1>3, <3>2 DEF BlockChannels
  <2> HIDE DEF ch, n
  <2>5. resident => Leaves(SwinBlock(p, resident, fault, r, ch, m), ch)
    BY <2>1, SwinGoes
  <2>6. resident => Leaves(n, ch)  BY <2>2, <2>5
  <2>7. resident => Past(r, n)  BY <1>2, <2>3, <2>4, <2>6 DEF Past, Central
  <2> QED  BY <2>7 DEF n
<1>4. CASE r \notin p.stage /\ r \in p.split
  <2> DEFINE ch == 512
  <2>1. ch \in Widths  BY DEF Widths
  <2>2. n = SwinBlock(p, resident, fault, r, ch, m)
    BY <1>1, <1>4 DEF RecordBlock, Split512Block
  <2>3. r \notin VitRecords /\ r # 69
    <3>1. r \in SplitRecords  BY <1>4 DEF Endowed
    <3> QED  BY <3>1, RecordRanges DEF SplitRecords
  <2>4. ch = 512  OBVIOUS
  <2> HIDE DEF ch, n
  <2>5. resident => Leaves(SwinBlock(p, resident, fault, r, ch, m), ch)
    BY <2>1, SwinGoes
  <2>6. resident => Leaves(n, ch)  BY <2>2, <2>5
  <2>7. resident => Past(r, n)  BY <1>2, <2>3, <2>4, <2>6 DEF Past, Central
  <2> QED  BY <2>7 DEF n
<1>5. CASE r \notin p.stage /\ r \notin p.split
  <2>1. r \in VitRecords  BY <1>5 DEF Records
  <2>2. n = VitBlock(p, resident, fault, r, m)  BY <1>1, <1>5 DEF RecordBlock
  <2>3. r # 30 /\ r # 69  BY <2>1 DEF VitRecords
  <2> HIDE DEF n
  <2>4. resident => Deep(VitBlock(p, resident, fault, r, m))
    <3>1. r \in 0 .. 70  OBVIOUS
    <3>2. Block(r) \in Images  BY <3>1, ImageNames
    <3>3. Deep(m)  BY <2>1
    <3> QED  BY <3>2, <3>3, VitGoes
  <2>5. resident => Deep(n)  BY <2>2, <2>4
  <2>6. resident => Past(r, n)  BY <1>2, <2>3, <2>5 DEF Past
  <2> QED  BY <2>6 DEF n
<1> QED  BY <1>3, <1>4, <1>5

\* A transition goes on; a record without one is passed.
LEMMA TransitionGoes ==
    ASSUME NEW p, Endowed(p), NEW fault, Harmless(fault), NEW resident \in BOOLEAN,
           NEW direction \in {"down", "up"}, NEW r, NEW m, Alive(m)
    PROVE  /\ Alive(RecordTransition(p, resident, fault, direction, r, m))
           /\ r \in VitRecords \cup {30, 69} =>
                RecordTransition(p, resident, fault, direction, r, m) = m
<1>1. <<direction, r>> # fault  BY NoneFails
<1>2. p \in PlanType /\ p.transitions = ScaleTransitions  BY DEF Endowed
<1>3. r \in VitRecords \cup {30, 69} => <<direction, r>> \notin p.transitions
  BY <1>2, PlainRecords
<1>4. m \in WalkType /\ m.ok  BY DEF Alive
<1>5. /\ RecordTransition(p, resident, fault, direction, r, m) \in WalkType
      /\ RecordTransition(p, resident, fault, direction, r, m).ok
      /\ <<direction, r>> \notin p.transitions =>
           RecordTransition(p, resident, fault, direction, r, m) = m
  BY <1>1, <1>2, <1>4, TransitionTyped
<1> QED  BY <1>3, <1>5 DEF Alive

\* The encoder's bottleneck goes on when the chain has the scale it insists on.
LEMMA EncoderGoes ==
    ASSUME NEW p, Endowed(p), NEW fault, Harmless(fault), NEW resident \in BOOLEAN,
           NEW m, Central(m)
    PROVE  resident => Deep(EncoderBottleneck(p, resident, fault, m))
<1>1. <<"encoder", 30>> # fault  BY NoneFails
<1>2. p.bottleneck_skip /\ p.vit_scratch  BY EndowedFields
<1>3. m \in WalkType /\ m.ok /\ m.chain.channels = 512  BY DEF Deep, Central, Leaves, Alive
<1> DEFINE n == EncoderBottleneck(p, resident, fault, m)
<1>4. n \in WalkType /\ (resident => n.ok /\ n.chain = Chain(VitSlot, 1024))
  BY <1>1, <1>2, <1>3, EncoderBottleneckTyped
<1> HIDE DEF n
<1>5. Chain(VitSlot, 1024).channels = 1024  BY DEF Chain
<1>6. resident => Deep(n)  BY <1>4, <1>5 DEF Deep, Leaves, Alive
<1> QED  BY <1>6 DEF n

\* The decoder's too.
LEMMA DecoderGoes ==
    ASSUME NEW p, Endowed(p), NEW fault, Harmless(fault), NEW resident \in BOOLEAN,
           NEW m, Deep(m)
    PROVE  resident => Alive(DecoderBottleneck(p, resident, fault, m))
<1>1. <<"decoder", 38>> # fault  BY NoneFails
<1>2. p.bottleneck_skip /\ ~(p.target < Level(512))  BY EndowedFields
<1>3. m \in WalkType /\ m.ok /\ m.chain.channels = 1024  BY DEF Deep, Central, Leaves, Alive
<1> DEFINE n == DecoderBottleneck(p, resident, fault, m)
<1>4. n \in WalkType /\ (resident => n.ok)
  BY <1>1, <1>2, <1>3, DecoderBottleneckTyped
<1> HIDE DEF n
<1>5. resident => Alive(n)  BY <1>4 DEF Alive
<1> QED  BY <1>5 DEF n

\* Either bottleneck, after its record.
LEMMA BottleneckGoes ==
    ASSUME NEW p, Endowed(p), NEW fault, Harmless(fault), NEW resident \in BOOLEAN,
           NEW r \in 1 .. 69, NEW m, Alive(m),
           r = 30 => Central(m), r = 38 => Deep(m)
    PROVE  /\ resident => Alive(RecordBottleneck(p, resident, fault, r, m))
           /\ resident /\ r = 30 => Deep(RecordBottleneck(p, resident, fault, r, m))
           /\ r \notin {30, 38} => RecordBottleneck(p, resident, fault, r, m) = m
<1> DEFINE n == RecordBottleneck(p, resident, fault, r, m)
<1>1. m.ok  BY DEF Alive
<1>2. p.bottleneck  BY DEF Endowed
<1>3. Deep(n) => Alive(n)  BY DEF Deep, Leaves
<1>4. CASE r = 30
  <2>1. n = EncoderBottleneck(p, resident, fault, m)
    BY <1>1, <1>2, <1>4 DEF RecordBottleneck
  <2> HIDE DEF n
  <2>2. resident => Deep(EncoderBottleneck(p, resident, fault, m))
    <3>1. Central(m)  BY <1>4
    <3> QED  BY <3>1, EncoderGoes
  <2>3. resident => Deep(n)  BY <2>1, <2>2
  <2> QED  BY <1>3, <1>4, <2>3 DEF n
<1>5. CASE r = 38
  <2>1. n = DecoderBottleneck(p, resident, fault, m)
    BY <1>1, <1>2, <1>5 DEF RecordBottleneck
  <2> HIDE DEF n
  <2>2. resident => Alive(DecoderBottleneck(p, resident, fault, m))
    BY <1>5, DecoderGoes
  <2>3. resident => Alive(n)  BY <2>1, <2>2
  <2> QED  BY <1>5, <2>3 DEF n
<1>6. CASE r \notin {30, 38}
  <2>1. n = m  BY <1>6 DEF RecordBottleneck
  <2> QED  BY <1>6, <2>1
<1> QED  BY <1>4, <1>5, <1>6

\* No record of the walk is refused.
LEMMA AtGoes ==
    ASSUME NEW p, Endowed(p), NEW fault, Harmless(fault), NEW resident \in BOOLEAN,
           NEW r \in 1 .. 69, r \in Records(p), NEW m, Alive(m),
           r \in VitRecords => Deep(m)
    PROVE  resident => Going(r, At(p, resident, fault, r, m))
<1> DEFINE m1 == RecordTransition(p, resident, fault, "up", r, m)
<1> DEFINE m2 == RecordBlock(p, resident, fault, r, m1)
<1> DEFINE m3 == RecordTransition(p, resident, fault, "down", r, m2)
<1> DEFINE n == RecordBottleneck(p, resident, fault, r, m3)
<1>1. At(p, resident, fault, r, m) = n  BY DEF At
<1>2. Alive(m1) /\ (r \in VitRecords => m1 = m)  BY TransitionGoes
<1> HIDE DEF m1
<1>3. r \in VitRecords => Deep(m1)  BY <1>2
<1>4. resident => Past(r, m2)  BY <1>2, <1>3, BlockGoes
<1> HIDE DEF m2
<1>5. Alive(m2) => Alive(m3) /\ (r \in VitRecords \cup {30, 69} => m3 = m2)
  BY TransitionGoes
<1> HIDE DEF m3
<1>6. resident => Past(r, m3)  BY <1>4, <1>5 DEF Past
<1>7. Past(r, m3) => Alive(m3) /\ (r = 30 => Central(m3)) /\ (r = 38 => Deep(m3))
  BY DEF Past, VitRecords
<1>8. Past(r, m3) =>
        /\ resident => Alive(n)
        /\ resident /\ r = 30 => Deep(n)
        /\ r \notin {30, 38} => n = m3
  BY <1>7, BottleneckGoes
<1> HIDE DEF n
<1>9. r \in 30 .. 37 => r = 30 \/ (r \in VitRecords /\ r \notin {30, 38})
  BY DEF VitRecords
<1>10. resident /\ r \in 30 .. 37 => Deep(n)
  BY <1>6, <1>8, <1>9 DEF Past
<1>11. resident /\ r = 69 => Leaves(n, 32)
  BY <1>6, <1>8 DEF Past
<1>12. resident => Going(r, n)  BY <1>6, <1>8, <1>10, <1>11 DEF Going
<1> QED  BY <1>1, <1>12

\* From the first record to the last, and over the block that may be missing.
LEMMA WalkGoes ==
    ASSUME NEW p, Endowed(p), NEW fault, Harmless(fault), NEW start \in ChainType,
           NEW recording \in BOOLEAN
    PROVE  Resident(p, recording) =>
             \A r \in 0 .. 69 : Going(r, Walked(p, start, recording, fault)[r])
<1> DEFINE resident == Resident(p, recording)
<1> DEFINE walk == Walked(p, start, recording, fault)
<1> DEFINE T == {r \in 0 .. 69 : Going(r, walk[r])}
<1>1. \A r \in 0 .. 69 : walk[r] =
        IF r = 0 THEN RecordPre(p, fault, Start(p, start, recording))
        ELSE IF walk[r - 1].ok /\ r \in Records(p)
             THEN At(p, resident, fault, r, walk[r - 1]) ELSE walk[r - 1]
  BY WalkUnfolds
<1> SUFFICES ASSUME resident PROVE \A r \in 0 .. 69 : Going(r, walk[r])
  OBVIOUS
<1>2. resident \in BOOLEAN
  <2>1. p \in PlanType  BY DEF Endowed
  <2> QED  BY <2>1 DEF Resident, PlanType
<1>3. 0 \in T
  <2> DEFINE m == Start(p, start, recording)
  <2>1. m \in WalkType /\ m.ok  BY StartTyped
  <2> HIDE DEF m
  <2>2. <<"pre", 0>> # fault  BY NoneFails
  <2>3. RecordPre(p, fault, m) \in WalkType /\ RecordPre(p, fault, m).ok
    BY <2>1, <2>2, EndowedFields, PreTyped
  <2>4. walk[0] = RecordPre(p, fault, m)  BY <1>1 DEF m
  <2> HIDE DEF walk
  <2>5. Going(0, walk[0])  BY <2>3, <2>4 DEF Going, Alive
  <2> QED  BY <2>5
<1> HIDE DEF walk, resident
<1>4. ASSUME NEW k \in T, k < 69 PROVE k + 1 \in T
  <2> DEFINE r == k + 1
  <2> DEFINE m == walk[k]
  <2>1. r \in 1 .. 69 /\ r \in 0 .. 69 /\ r - 1 = k /\ r # 0 /\ Going(k, m)
    BY <1>4
  <2>2. Alive(m) /\ m.ok /\ (r \in VitRecords => Deep(m))
    <3>1. r \in VitRecords => k \in 30 .. 37  BY <2>1 DEF VitRecords
    <3> HIDE DEF m, r
    <3> QED  BY <2>1, <3>1 DEF Going, Alive
  <2>3. walk[r] = IF r \in Records(p) THEN At(p, resident, fault, r, m) ELSE m
    <3> HIDE DEF r
    <3> QED  BY <1>1, <2>1, <2>2
  <2> HIDE DEF m, r
  <2>4. CASE r \in Records(p)
    <3> DEFINE next == walk[r]
    <3>1. next = At(p, resident, fault, r, m)  BY <2>3, <2>4
    <3> HIDE DEF next
    <3>2. resident => Going(r, At(p, resident, fault, r, m))
      BY <1>2, <2>1, <2>2, <2>4, AtGoes
    <3>3. Going(r, next)  BY <3>1, <3>2
    <3> QED  BY <2>1, <3>3 DEF next, r
  <2>5. CASE r \notin Records(p)
    <3>1. walk[r] = m  BY <2>3, <2>5
    <3>2. r \notin 30 .. 37 /\ r # 69
      BY <2>5 DEF Records, Endowed, VitRecords, SplitRecords
    <3>3. Going(r, walk[r])  BY <2>2, <3>1, <3>2 DEF Going
    <3> QED  BY <2>1, <3>3 DEF r
  <2> QED  BY <2>4, <2>5
<1>5. T = 0 .. 69
  <2>1. T \in SUBSET (0 .. 69)  OBVIOUS
  <2> HIDE DEF T
  <2> QED  BY <1>3, <1>4, <2>1, BoundedInduction
<1> QED  BY <1>5 DEF walk

\* The walk ends well unless a launch fails.
LEMMA RecordGoes ==
    ASSUME NEW p, Endowed(p), NEW fault, Harmless(fault), NEW start \in ChainType,
           NEW recording \in BOOLEAN, Resident(p, recording)
    PROVE  Record(p, start, recording, fault).ok
<1> DEFINE m == Walked(p, start, recording, fault)[69]
<1>1. Going(69, m)
  <2>1. 69 \in 0 .. 69  OBVIOUS
  <2> QED  BY <2>1, WalkGoes
<1> HIDE DEF m
<1>2. m \in WalkType /\ m.ok /\ m.chain.channels = 32
  BY <1>1 DEF Going, Leaves, Alive
<1> DEFINE end == RecordHead(p, fault, m)
<1>3. end.ok
  <2>1. <<"head", 70>> # fault  BY NoneFails
  <2> QED  BY <1>2, <2>1, EndowedFields, HeadTyped
<1>4. Record(p, start, recording, fault) =
        [ok |-> end.ok, chain |-> end.chain, wrong |-> end.wrong]
  BY DEF Record, m
<1> HIDE DEF end
<1> QED  BY <1>3, <1>4

-----------------------------------------------------------------------------
(* What the configuration calls provide besides the parts: the pools of    *)
(* the eight transitions, the E4M3 table, the edge scratch.                *)
Provisioned(p) ==
    /\ p.transitions = ScaleTransitions =>
         p.target = 5 /\ p.skips = {32, 64, 128, 256}
    /\ p.stage # {} => p.lut
    /\ p.head => p.pre
    /\ p.pre => p.edge

Uploaded(p) == p.weights \notin {"none", "allocated"}

HasParts(p) ==
    p.stage # {} \/ p.split # {} \/ p.vit \/ p.bottleneck \/ p.pre \/ p.head

(* With the settings first, no part is configured before the mode is       *)
(* final, so a fixed plan has the buffers its parts need in that mode.     *)
Buffered(p) ==
    /\ HasParts(p) => Uploaded(p)
    /\ p.pre => p.execution_mode = "fixed"
    /\ p.execution_mode = "fixed" =>
         /\ 1 \in p.stage => p.scratch = 5
         /\ p.vit => p.vit_scratch
         /\ p.bottleneck => p.bottleneck_skip

Supplied(p) == Provisioned(p) /\ (SettingsFirst => Buffered(p))

(* The edges are only used in the mode whose walk publishes the chain they *)
(* read; settings that come first guarantee it.                            *)
EdgesFixed == plan.pre => plan.execution_mode = "fixed"

(* The frames: none before the graph, the captured network right unless    *)
(* every frame is recorded anew, the last frame right if it ended well and *)
(* never refused by a complete plan.                                       *)
FrameType ==
    /\ chain \in ChainType
    /\ graph.state \in {"none", "owned", "adopted"}
    /\ frame.state \in {"none", "done", "failed", "faulted"}
    /\ ~finalized => frame.state = "none"

FrameRight ==
    /\ finalized /\ WholeTrunk /\ ~RecordsEveryFrame => graph.wrong = {}
    /\ frame.state = "done" /\ WholeTrunk => frame.wrong = {}
    /\ SettingsFirst /\ frame.state = "failed" => ~plan.complete

\* In fixed mode a stage list with record 1 needs the full scratch.
LEMMA FullScratch ==
    ASSUME plan.execution_mode = "fixed", NEW list, 1 \in list
    PROVE  ListScratch(ListChannels(list)) = 5
<1> DEFINE channels == ListChannels(list)
<1> DEFINE IsTop(n) == /\ \E ch \in channels : Level(ch) = n
                       /\ \A ch \in channels : Level(ch) <= n
<1>1. 32 \in channels /\ Level(32) = 5
  <2>1. 1 \in WideRecords  BY DEF WideRecords
  <2>2. StageChannels(1) = 32  BY <2>1, StageWidths, ChannelRange
  <2> QED  BY <2>2 DEF Level, ListChannels
<1>2. \A ch \in channels : Level(ch) \in 1 .. 5
  BY LevelRange
<1> HIDE DEF channels
<1>3. IsTop(5)  BY <1>1, <1>2
<1>4. \A n \in 0 .. 5 : IsTop(n) => n = 5
  <2> TAKE n \in 0 .. 5
  <2> SUFFICES ASSUME IsTop(n) PROVE n = 5  OBVIOUS
  <2>1. Level(32) <= n  BY <1>1
  <2> QED  BY <1>1, <2>1
<1>5. ListScratch(channels) = CHOOSE n \in 0 .. 5 : IsTop(n)
  BY DEF ListScratch
<1> HIDE DEF IsTop
<1>6. ListScratch(channels) = 5  BY <1>3, <1>4, <1>5
<1> QED  BY <1>6 DEF channels

\* Settings, weights, arena and shape: with the settings first, the mode is
\* only changed while there is no part.
LEMMA SettingsSupply ==
    ASSUME plan \in PlanType, Supplied(plan),
           \/ SetPrecisionProfile \/ SetExecutionMode \/ SetFixedHostBoundaries
           \/ UploadWeights \/ LoadModelPackage \/ ConfigureArena \/ PrepareShape
    PROVE  Supplied(plan')
<1> DEFINE Same(q) == /\ q.stage = plan.stage /\ q.split = plan.split /\ q.vit = plan.vit
                      /\ q.bottleneck = plan.bottleneck /\ q.pre = plan.pre
                      /\ q.head = plan.head /\ q.transitions = plan.transitions
                      /\ q.target = plan.target /\ q.skips = plan.skips
                      /\ q.lut = plan.lut /\ q.edge = plan.edge
                      /\ q.scratch = plan.scratch /\ q.vit_scratch = plan.vit_scratch
                      /\ q.bottleneck_skip = plan.bottleneck_skip
<1> DEFINE Fixed(q) == q.execution_mode = plan.execution_mode
<1>1. Same(plan')
  <2>1. CASE SetPrecisionProfile
    BY <2>1 DEF SetPrecisionProfile, Configure, PlanType
  <2>2. CASE SetExecutionMode
    BY <2>2 DEF SetExecutionMode, Configure, PlanType
  <2>3. CASE SetFixedHostBoundaries
    BY <2>3 DEF SetFixedHostBoundaries, Configure, PlanType
  <2>4. CASE UploadWeights
    BY <2>4 DEF UploadWeights, Configure, PlanType
  <2>5. CASE LoadModelPackage
    BY <2>5 DEF LoadModelPackage, Configure, PlanType
  <2>6. CASE ConfigureArena
    BY <2>6 DEF ConfigureArena, Configure, PlanType
  <2>7. CASE PrepareShape
    BY <2>7 DEF PrepareShape, Configure, PlanType
  <2> QED  BY <2>1, <2>2, <2>3, <2>4, <2>5, <2>6, <2>7
<1>2. Uploaded(plan) /\ SettingsFirst => Fixed(plan')
  <2>1. CASE SetPrecisionProfile
    BY <2>1 DEF SetPrecisionProfile, Configure, PlanType
  <2>2. CASE SetExecutionMode
    BY <2>2 DEF SetExecutionMode, SettingAllowed, WeightsUploaded, Uploaded
  <2>3. CASE SetFixedHostBoundaries
    BY <2>3 DEF SetFixedHostBoundaries, Configure, PlanType
  <2>4. CASE UploadWeights
    BY <2>4 DEF UploadWeights, Configure, PlanType
  <2>5. CASE LoadModelPackage
    BY <2>5 DEF LoadModelPackage, Configure, PlanType
  <2>6. CASE ConfigureArena
    BY <2>6 DEF ConfigureArena, Configure, PlanType
  <2>7. CASE PrepareShape
    BY <2>7 DEF PrepareShape, Configure, PlanType
  <2> QED  BY <2>1, <2>2, <2>3, <2>4, <2>5, <2>6, <2>7
<1>3. Uploaded(plan) => Uploaded(plan')
  <2>1. CASE SetPrecisionProfile
    BY <2>1 DEF SetPrecisionProfile, Configure, PlanType, Uploaded
  <2>2. CASE SetExecutionMode
    BY <2>2 DEF SetExecutionMode, Configure, PlanType, Uploaded
  <2>3. CASE SetFixedHostBoundaries
    BY <2>3 DEF SetFixedHostBoundaries, Configure, PlanType, Uploaded
  <2>4. CASE UploadWeights
    BY <2>4 DEF UploadWeights, Configure, PlanType, Uploaded
  <2>5. CASE LoadModelPackage
    BY <2>5 DEF LoadModelPackage, Uploaded
  <2>6. CASE ConfigureArena
    BY <2>6 DEF ConfigureArena, Configure, PlanType, Uploaded
  <2>7. CASE PrepareShape
    BY <2>7 DEF PrepareShape, Configure, PlanType, Uploaded
  <2> QED  BY <2>1, <2>2, <2>3, <2>4, <2>5, <2>6, <2>7
<1>4. Provisioned(plan')
  BY <1>1 DEF Supplied, Provisioned
<1>5. ASSUME SettingsFirst PROVE Buffered(plan')
  <2>1. HasParts(plan') <=> HasParts(plan)  BY <1>1 DEF HasParts
  <2>2. CASE HasParts(plan)
    <3>1. Uploaded(plan)  BY <1>5, <2>2 DEF Supplied, Buffered
    <3> QED  BY <1>1, <1>2, <1>3, <1>5, <3>1 DEF Supplied, Buffered
  <2>3. CASE ~HasParts(plan)
    <3>1. plan'.stage = {}  BY <1>1, <2>3 DEF HasParts
    <3> QED  BY <2>1, <2>3, <3>1 DEF Buffered, HasParts
  <2> QED  BY <2>2, <2>3
<1> QED  BY <1>4, <1>5 DEF Supplied

\* An installed recorder provides nothing.
LEMMA RecorderSupply ==
    ASSUME plan \in PlanType, Supplied(plan), SetRecorder
    PROVE  Supplied(plan')
  BY DEF SetRecorder, Configure, PlanType, Supplied, Provisioned, Buffered,
         HasParts, Uploaded

\* A stage list brings its scratch and the table; a refused one, the table.
LEMMA StageSupply ==
    ASSUME plan \in PlanType, Supplied(plan), ConfigureStageBlocks
    PROVE  Supplied(plan')
<1> PICK list \in StageLists :
        ConfigureList([plan EXCEPT !.stage = list], list, ListChannels(list),
                      plan.split \cup VitSet)
  BY DEF ConfigureStageBlocks
<1> DEFINE need == ListScratch(ListChannels(list))
<1>1. list \in SUBSET (1 .. 69) /\ list # {}  BY ConfigAssumption
<1>2. need \in 0 .. 5  BY <1>1, ScratchRange DEF ListChannels
<1>3. Uploaded(plan)  BY DEF ConfigureList, Fp8Ready, WeightsUploaded, Uploaded
<1>4. plan.execution_mode = "fixed" /\ 1 \in list => need = 5
  BY FullScratch
<1>5. \/ Configure([plan EXCEPT !.lut = TRUE])
      \/ Configure([plan EXCEPT !.stage = list, !.lut = TRUE, !.complete = FALSE,
                      !.scratch = Larger(plan.scratch, need)])
  BY DEF ConfigureList, PlanType
<1> HIDE DEF need
<1>6. CASE Configure([plan EXCEPT !.lut = TRUE])
  BY <1>6 DEF Configure, PlanType, Supplied, Provisioned, Buffered, HasParts, Uploaded
<1>7. CASE Configure([plan EXCEPT !.stage = list, !.lut = TRUE, !.complete = FALSE,
                        !.scratch = Larger(plan.scratch, need)])
  <2>1. Larger(plan.scratch, need) >= need /\ Larger(plan.scratch, need) \in 0 .. 5
    BY <1>2 DEF Larger, PlanType
  <2>2. plan.execution_mode = "fixed" /\ 1 \in list
          => Larger(plan.scratch, need) = 5
    BY <1>4, <2>1
  <2>3. /\ plan'.stage = list /\ plan'.lut /\ plan'.scratch = Larger(plan.scratch, need)
        /\ plan'.split = plan.split /\ plan'.vit = plan.vit
        /\ plan'.bottleneck = plan.bottleneck /\ plan'.pre = plan.pre
        /\ plan'.head = plan.head /\ plan'.transitions = plan.transitions
        /\ plan'.target = plan.target /\ plan'.skips = plan.skips
        /\ plan'.edge = plan.edge /\ plan'.vit_scratch = plan.vit_scratch
        /\ plan'.bottleneck_skip = plan.bottleneck_skip
        /\ plan'.weights = plan.weights /\ plan'.execution_mode = plan.execution_mode
    BY <1>7 DEF Configure, PlanType
  <2>4. Provisioned(plan')  BY <2>3 DEF Supplied, Provisioned
  <2>5. SettingsFirst => Buffered(plan')
    BY <1>3, <2>2, <2>3 DEF Supplied, Buffered, Uploaded
  <2> QED  BY <2>4, <2>5 DEF Supplied
<1> QED  BY <1>5, <1>6, <1>7

\* A split list only ever enlarges the scratch.
LEMMA SplitSupply ==
    ASSUME plan \in PlanType, Supplied(plan), ConfigureSplit512Blocks
    PROVE  Supplied(plan')
<1> PICK list \in SplitLists :
        ConfigureList([plan EXCEPT !.split = list], list, {512}, plan.stage \cup VitSet)
  BY DEF ConfigureSplit512Blocks
<1> DEFINE need == ListScratch({512})
<1>2. need \in 0 .. 5  BY ScratchRange
<1>3. Uploaded(plan)  BY DEF ConfigureList, Fp8Ready, WeightsUploaded, Uploaded
<1>5. \/ Configure([plan EXCEPT !.lut = TRUE])
      \/ Configure([plan EXCEPT !.split = list, !.lut = TRUE, !.complete = FALSE,
                      !.scratch = Larger(plan.scratch, need)])
  BY DEF ConfigureList, PlanType
<1> HIDE DEF need
<1>6. CASE Configure([plan EXCEPT !.lut = TRUE])
  BY <1>6 DEF Configure, PlanType, Supplied, Provisioned, Buffered, HasParts, Uploaded
<1>7. CASE Configure([plan EXCEPT !.split = list, !.lut = TRUE, !.complete = FALSE,
                        !.scratch = Larger(plan.scratch, need)])
  <2>1. plan.scratch = 5 => Larger(plan.scratch, need) = 5
    BY <1>2 DEF Larger
  <2>3. /\ plan'.stage = plan.stage /\ plan'.lut
        /\ plan'.scratch = Larger(plan.scratch, need)
        /\ plan'.vit = plan.vit
        /\ plan'.bottleneck = plan.bottleneck /\ plan'.pre = plan.pre
        /\ plan'.head = plan.head /\ plan'.transitions = plan.transitions
        /\ plan'.target = plan.target /\ plan'.skips = plan.skips
        /\ plan'.edge = plan.edge /\ plan'.vit_scratch = plan.vit_scratch
        /\ plan'.bottleneck_skip = plan.bottleneck_skip
        /\ plan'.weights = plan.weights /\ plan'.execution_mode = plan.execution_mode
    BY <1>7 DEF Configure, PlanType
  <2>4. Provisioned(plan')  BY <2>3 DEF Supplied, Provisioned
  <2>5. SettingsFirst => Buffered(plan')
    BY <1>3, <2>1, <2>3 DEF Supplied, Buffered, Uploaded
  <2> QED  BY <2>4, <2>5 DEF Supplied
<1> QED  BY <1>5, <1>6, <1>7

\* In fixed mode the ViT blocks bring their scratch.
LEMMA VitSupply ==
    ASSUME plan \in PlanType, Supplied(plan), ConfigureVitBlocks
    PROVE  Supplied(plan')
<1>1. Uploaded(plan) /\ Configure([plan EXCEPT !.vit = TRUE, !.complete = FALSE,
                     !.vit_scratch = @ \/ plan.execution_mode = "fixed"])
  BY DEF ConfigureVitBlocks, Fp8Ready, WeightsUploaded, Uploaded
<1>2. /\ plan'.vit /\ plan'.stage = plan.stage /\ plan'.split = plan.split
      /\ plan'.bottleneck = plan.bottleneck /\ plan'.pre = plan.pre
      /\ plan'.head = plan.head /\ plan'.transitions = plan.transitions
      /\ plan'.target = plan.target /\ plan'.skips = plan.skips /\ plan'.lut = plan.lut
      /\ plan'.edge = plan.edge /\ plan'.scratch = plan.scratch
      /\ plan'.bottleneck_skip = plan.bottleneck_skip
      /\ plan'.weights = plan.weights /\ plan'.execution_mode = plan.execution_mode
  BY <1>1 DEF Configure, PlanType
<1>3. plan.execution_mode = "fixed" => plan'.vit_scratch
  BY <1>1 DEF Configure, PlanType
<1>4. Provisioned(plan')  BY <1>2 DEF Supplied, Provisioned
<1>5. SettingsFirst => Buffered(plan')
  BY <1>1, <1>2, <1>3 DEF Supplied, Buffered, Uploaded
<1> QED  BY <1>4, <1>5 DEF Supplied

\* In fixed mode the bottleneck brings its skip, and keeps a larger target.
LEMMA BottleneckSupply ==
    ASSUME plan \in PlanType, Supplied(plan), ConfigureBottleneck
    PROVE  Supplied(plan')
<1> DEFINE fixed == plan.execution_mode = "fixed"
<1> DEFINE target == IF fixed THEN Larger(plan.target, Level(512)) ELSE plan.target
<1>1. Uploaded(plan) /\ Configure([plan EXCEPT !.bottleneck = TRUE, !.complete = FALSE,
                     !.bottleneck_skip = plan.bottleneck_skip \/ fixed,
                     !.target = target])
  BY DEF ConfigureBottleneck, Fp8Ready, WeightsUploaded, Uploaded, PlanType
<1>2. plan.target = 5 => target = 5
  BY DEF Larger, Level
<1> HIDE DEF target
<1>3. /\ plan'.bottleneck /\ plan'.stage = plan.stage /\ plan'.split = plan.split
      /\ plan'.vit = plan.vit /\ plan'.pre = plan.pre
      /\ plan'.head = plan.head /\ plan'.transitions = plan.transitions
      /\ plan'.target = target /\ plan'.skips = plan.skips /\ plan'.lut = plan.lut
      /\ plan'.edge = plan.edge /\ plan'.scratch = plan.scratch
      /\ plan'.vit_scratch = plan.vit_scratch
      /\ plan'.weights = plan.weights /\ plan'.execution_mode = plan.execution_mode
  BY <1>1 DEF Configure, PlanType
<1>4. plan.execution_mode = "fixed" => plan'.bottleneck_skip
  BY <1>1 DEF Configure, PlanType
<1>5. Provisioned(plan')  BY <1>2, <1>3 DEF Supplied, Provisioned
<1>6. SettingsFirst => Buffered(plan')
  BY <1>1, <1>3, <1>4 DEF Supplied, Buffered, Uploaded
<1> QED  BY <1>5, <1>6 DEF Supplied

\* The eight transitions bring the target and the four skip pools.
LEMMA TransitionsSupply ==
    ASSUME plan \in PlanType, Supplied(plan), ConfigureScaleTransitions
    PROVE  Supplied(plan')
<1>1. Configure([plan EXCEPT !.transitions = ScaleTransitions, !.complete = FALSE,
                     !.target = Level(32), !.skips = {32, 64, 128, 256}])
  BY DEF ConfigureScaleTransitions
<1>2. Level(32) = 5  BY DEF Level
<1> QED
  BY <1>1, <1>2 DEF Configure, PlanType, Supplied, Provisioned, Buffered, HasParts,
                    Uploaded

\* Pre brings the edge scratch, and only comes in fixed mode.
LEMMA EdgesSupply ==
    ASSUME plan \in PlanType, Supplied(plan), ConfigurePre \/ ConfigureHead
    PROVE  Supplied(plan')
<1>1. CASE ConfigurePre
  <2>1. Uploaded(plan) /\ plan.execution_mode = "fixed"
    BY <1>1 DEF ConfigurePre, EdgeReady, Fp8Ready, WeightsUploaded, Uploaded
  <2> DEFINE target == Larger(plan.target, Level(32))
  <2>2. plan.target = 5 => target = 5  BY DEF Larger, Level
  <2>3. Configure(RefreshComplete([plan EXCEPT !.pre = TRUE, !.edge = TRUE,
                                     !.target = target]))
    BY <1>1 DEF ConfigurePre, PlanType
  <2> HIDE DEF target
  <2> QED
    BY <2>1, <2>2, <2>3 DEF Configure, RefreshComplete, PlanType, Supplied, Provisioned,
                            Buffered, HasParts, Uploaded
<1>2. CASE ConfigureHead
  <2>1. Uploaded(plan) /\ plan.pre
        /\ Configure(RefreshComplete([plan EXCEPT !.head = TRUE]))
    BY <1>2 DEF ConfigureHead, EdgeReady, Fp8Ready, WeightsUploaded, Uploaded
  <2> QED
    BY <2>1 DEF Configure, RefreshComplete, PlanType, Supplied, Provisioned, Buffered,
                HasParts, Uploaded
<1> QED  BY <1>1, <1>2

\* One pair of debug transitions is never the network's eight.
LEMMA DebugSupply ==
    ASSUME plan \in PlanType, Supplied(plan),
           DebugEncoderTransition \/ DebugAppendDecoderTransition
    PROVE  Supplied(plan')
<1> DEFINE Same(q) == /\ q.stage = plan.stage /\ q.split = plan.split /\ q.vit = plan.vit
                      /\ q.bottleneck = plan.bottleneck /\ q.pre = plan.pre
                      /\ q.head = plan.head /\ q.weights = plan.weights
                      /\ q.execution_mode = plan.execution_mode
                      /\ q.lut = plan.lut /\ q.edge = plan.edge
                      /\ q.scratch = plan.scratch /\ q.vit_scratch = plan.vit_scratch
                      /\ q.bottleneck_skip = plan.bottleneck_skip
<1>1. Same(plan') /\ plan'.transitions # ScaleTransitions
  <2>1. CASE DebugEncoderTransition
    <3> PICK a \in DebugAnchors \cap plan.stage :
          Configure([plan EXCEPT !.transitions = {<<"down", a>>}, !.complete = FALSE,
                     !.target = Level(2 * StageChannels(a)), !.skips = {StageChannels(a)}])
      BY <2>1 DEF DebugEncoderTransition
    <3>1. {<<"down", a>>} # ScaleTransitions
      <4>1. <<"up", 48>> \in ScaleTransitions
        BY DEF ScaleTransitions, DecoderAnchors
      <4>2. <<"up", 48>> # <<"down", a>>  OBVIOUS
      <4> QED  BY <4>1, <4>2
    <3> QED  BY <3>1 DEF Configure, PlanType
  <2>2. CASE DebugAppendDecoderTransition
    <3> PICK a \in 1 .. 69, d \in DebugAnchors \cap plan.stage :
          /\ plan.transitions = {<<"down", a>>}
          /\ Configure([plan EXCEPT !.transitions = @ \cup {<<"up", d>>},
                          !.target = Larger(@, Level(StageChannels(d)))])
      BY <2>2 DEF DebugAppendDecoderTransition
    <3>1. {<<"down", a>>, <<"up", d>>} # ScaleTransitions  BY Transitions
    <3>2. plan'.transitions = {<<"down", a>>, <<"up", d>>}
      BY DEF Configure, PlanType
    <3> QED  BY <3>1, <3>2 DEF Configure, PlanType
  <2> QED  BY <2>1, <2>2
<1> QED  BY <1>1 DEF Supplied, Provisioned, Buffered, HasParts, Uploaded

\* What the parts of a plan need is there, whatever was configured, refused,
\* replaced or debugged on the way.
LEMMA SupplyStep ==
    ASSUME plan \in PlanType, Supplied(plan), [Next]_vars
    PROVE  Supplied(plan')
<1>1. CASE UNCHANGED vars  BY <1>1 DEF vars
<1>2. CASE \/ SetPrecisionProfile \/ SetExecutionMode \/ SetFixedHostBoundaries
           \/ UploadWeights \/ LoadModelPackage \/ ConfigureArena \/ PrepareShape
  BY <1>2, SettingsSupply
<1>3. CASE SetRecorder  BY <1>3, RecorderSupply
<1>4. CASE ConfigureStageBlocks  BY <1>4, StageSupply
<1>5. CASE ConfigureSplit512Blocks  BY <1>5, SplitSupply
<1>6. CASE ConfigureVitBlocks  BY <1>6, VitSupply
<1>7. CASE ConfigureBottleneck  BY <1>7, BottleneckSupply
<1>8. CASE ConfigureScaleTransitions  BY <1>8, TransitionsSupply
<1>9. CASE ConfigurePre \/ ConfigureHead  BY <1>9, EdgesSupply
<1>10. CASE DebugEncoderTransition \/ DebugAppendDecoderTransition
  BY <1>10, DebugSupply
<1>11. CASE Finalize \/ AdoptGraph \/ Submit
  BY <1>11 DEF Finalize, AdoptGraph, Submit
<1> QED
  BY <1>1, <1>2, <1>3, <1>4, <1>5, <1>6, <1>7, <1>8, <1>9, <1>10, <1>11 DEF Next

\* A new plan has no part to supply.
LEMMA SupplyInit == Init => Supplied(plan)
<1> SUFFICES ASSUME Init PROVE Supplied(plan)  OBVIOUS
<1>1. ScaleTransitions # {}  BY Transitions
<1>2. /\ plan.stage = {} /\ plan.split = {} /\ ~plan.vit /\ ~plan.bottleneck
      /\ ~plan.pre /\ ~plan.head /\ plan.transitions = {}
  BY DEF Init
<1>3. Provisioned(plan)  BY <1>1, <1>2 DEF Provisioned
<1>4. Buffered(plan)  BY <1>1, <1>2 DEF Buffered, HasParts
<1> QED  BY <1>3, <1>4 DEF Supplied

\* The plan of every state: well formed, and supplied.
LEMMA SuppliedAlways == Spec => [](WellFormed(plan) /\ Supplied(plan))
<1>1. Init => ConfigInv /\ Supplied(plan)  BY ConfigInit, SupplyInit
<1>2. ConfigInv /\ Supplied(plan) /\ [Next]_vars => ConfigInv' /\ Supplied(plan)'
  <2>1. ConfigInv => plan \in PlanType  BY DEF ConfigInv, WellFormed
  <2> QED  BY <2>1, ConfigStep, SupplyStep
<1>3. ConfigInv => WellFormed(plan)  BY DEF ConfigInv
<1> QED  BY <1>1, <1>2, <1>3, PTL DEF Spec

-----------------------------------------------------------------------------
(* The graph and the frames.                                               *)

\* A plan with the whole trunk walks the whole network, in every mode in
\* which its edges are used.
LEMMA TrunkIsWalkable ==
    ASSUME WellFormed(plan), Supplied(plan), EdgesFixed, WholeTrunk,
           NEW recording \in BOOLEAN, recording => ~RecordsEveryFrame
    PROVE  Walkable(plan, Resident(plan, recording)) /\ Builtin
<1>1. plan \in PlanType /\ TrunkOf(plan) /\ Builtin
  BY DEF WellFormed, WholeTrunk, TrunkOf, Builtin
<1>2. plan.target = 5 /\ plan.skips = {32, 64, 128, 256} /\ (plan.head => plan.pre)
  BY DEF WholeTrunk, Supplied, Provisioned
<1>3. plan.pre => Resident(plan, recording)
  BY <1>1 DEF EdgesFixed, Resident, RecordsEveryFrame
<1> QED  BY <1>1, <1>2, <1>3 DEF Walkable

\* A plan labelled complete has every part and buffer of a resident walk.
LEMMA CompleteIsEndowed ==
    ASSUME WellFormed(plan), Supplied(plan), SettingsFirst, plan.complete
    PROVE  /\ Endowed(plan) /\ Builtin
           /\ \A recording \in BOOLEAN : ~recording => Resident(plan, recording)
<1>1. /\ plan.split = SplitRecords /\ plan.vit /\ plan.bottleneck
      /\ plan.transitions = ScaleTransitions /\ plan.pre /\ plan.head
  BY LabelOf
<1>2. /\ {1, 69} \subseteq plan.stage
      /\ plan.stage \cap (SplitRecords \cup VitRecords) = {}
  BY <1>1 DEF WellFormed, IsComplete, Disjoint
<1>3. plan.execution_mode = "fixed"
  BY <1>1 DEF Supplied, Buffered
<1>4. Sized(plan) /\ plan.target = 5
  <2>1. 1 \in plan.stage /\ plan.stage # {}  BY <1>2
  <2> QED  BY <1>1, <1>3, <2>1 DEF Supplied, Provisioned, Buffered, Sized
<1>5. Endowed(plan)  BY <1>1, <1>2, <1>4 DEF Endowed, WellFormed
<1> QED  BY <1>1, <1>3, <1>5 DEF Builtin, Resident

\* Whatever a walk of the built-in or of an installed recorder leaves.
LEMMA WalkOutcome ==
    ASSUME plan \in PlanType, chain \in ChainType, NEW recording \in BOOLEAN, NEW fault
    PROVE  Walk(recording, fault).chain \in ChainType
<1>1. CASE Builtin
  BY <1>1, RecordTyped DEF Walk
<1>2. CASE ~Builtin  BY <1>2 DEF Walk
<1> QED  BY <1>1, <1>2

\* Only the last three actions touch the chain, the graph or a frame.
LEMMA NextShape ==
    ASSUME Next
    PROVE  \/ Finalize \/ AdoptGraph \/ Submit
           \/ ~finalized /\ UNCHANGED <<chain, graph, frame>>
<1>1. CASE SetPrecisionProfile \/ SetExecutionMode \/ SetFixedHostBoundaries
  BY <1>1 DEF SetPrecisionProfile, SetExecutionMode, SetFixedHostBoundaries, Configure
<1>2. CASE UploadWeights \/ LoadModelPackage \/ ConfigureArena \/ PrepareShape
  BY <1>2 DEF UploadWeights, LoadModelPackage, ConfigureArena, PrepareShape, Configure
<1>3. CASE SetRecorder  BY <1>3 DEF SetRecorder, Configure
<1>4. CASE ConfigureStageBlocks \/ ConfigureSplit512Blocks
  BY <1>4 DEF ConfigureStageBlocks, ConfigureSplit512Blocks, ConfigureList, Configure
<1>5. CASE ConfigureVitBlocks \/ ConfigureBottleneck \/ ConfigureScaleTransitions
  BY <1>5 DEF ConfigureVitBlocks, ConfigureBottleneck, ConfigureScaleTransitions, Configure
<1>6. CASE ConfigurePre \/ ConfigureHead
  BY <1>6 DEF ConfigurePre, ConfigureHead, Configure
<1>7. CASE DebugEncoderTransition \/ DebugAppendDecoderTransition
  BY <1>7 DEF DebugEncoderTransition, DebugAppendDecoderTransition, Configure
<1> QED  BY <1>1, <1>2, <1>3, <1>4, <1>5, <1>6, <1>7 DEF Next

\* Types, and no frame before the graph.
LEMMA FrameTypeStep ==
    ASSUME plan \in PlanType, FrameType, [Next]_vars
    PROVE  FrameType'
<1>1. CASE UNCHANGED <<chain, graph, frame>>
  BY <1>1 DEF FrameType, finalized
<1>2. CASE Finalize
  <2> PICK fault \in Faults \cup {NoFault} :
        /\ chain' = Walk(TRUE, fault).chain
        /\ \/ UNCHANGED graph
           \/ graph' = [state |-> "owned", wrong |-> Walk(TRUE, fault).wrong]
    BY <1>2 DEF Finalize
  <2>1. chain' \in ChainType
    <3>1. \A recording \in BOOLEAN : Walk(recording, fault).chain \in ChainType
      BY WalkOutcome DEF FrameType
    <3>2. TRUE \in BOOLEAN  BY Zenon
    <3> QED  BY <3>1, <3>2
  <2>2. frame' = frame /\ frame.state = "none"
    BY <1>2 DEF Finalize, MayFinalize, FrameType
  <2>3. graph'.state \in {"none", "owned", "adopted"}
    <3> DEFINE captured == [state |-> "owned", wrong |-> Walk(TRUE, fault).wrong]
    <3>1. graph' = graph \/ graph' = captured  OBVIOUS
    <3>2. captured.state = "owned"  OBVIOUS
    <3> HIDE DEF captured
    <3> QED  BY <3>1, <3>2 DEF FrameType
  <2> QED  BY <2>1, <2>2, <2>3 DEF FrameType
<1>3. CASE AdoptGraph
  BY <1>3 DEF AdoptGraph, FrameType, finalized
<1>4. CASE Submit
  <2>1. CASE UNCHANGED chain /\ frame' = [state |-> "done", wrong |-> graph.wrong]
    BY <1>4, <2>1 DEF Submit, FrameType, finalized
  <2>2. CASE ~(UNCHANGED chain /\ frame' = [state |-> "done", wrong |-> graph.wrong])
    <3> PICK fault \in Faults \cup {NoFault} :
          /\ chain' = Walk(FALSE, fault).chain
          /\ frame' = [state |-> IF Walk(FALSE, fault).ok THEN "done"
                                 ELSE IF fault = NoFault THEN "failed" ELSE "faulted",
                       wrong |-> Walk(FALSE, fault).wrong]
      BY <1>4, <2>2 DEF Submit
    <3>1. chain' \in ChainType
      <4>1. \A recording \in BOOLEAN : Walk(recording, fault).chain \in ChainType
        BY WalkOutcome DEF FrameType
      <4>2. FALSE \in BOOLEAN  BY Zenon
      <4> QED  BY <4>1, <4>2
    <3>2. frame'.state \in {"none", "done", "failed", "faulted"}  OBVIOUS
    <3>3. graph' = graph /\ finalized  BY <1>4 DEF Submit
    <3> QED  BY <3>1, <3>2, <3>3 DEF FrameType, finalized
  <2> QED  BY <2>1, <2>2
<1> QED  BY <1>1, <1>2, <1>3, <1>4, NextShape DEF vars

\* Every walk of the whole network is right: one made for the graph unless
\* the frames are recorded anew, and one made for a frame.
LEMMA WholeWalk ==
    ASSUME WellFormed(plan), Supplied(plan), EdgesFixed, WholeTrunk, chain \in ChainType,
           NEW recording \in BOOLEAN, recording => ~RecordsEveryFrame, NEW fault
    PROVE  Walk(recording, fault).wrong = {}
<1>1. Walkable(plan, Resident(plan, recording)) /\ Builtin  BY TrunkIsWalkable
<1>2. Walk(recording, fault) = Record(plan, chain, recording, fault)
  BY <1>1 DEF Walk
<1> QED  BY <1>1, <1>2, RecordRight

\* The two lemmas at the two walks: Finalize's and a frame's.
LEMMA CaptureWalk ==
    ASSUME WellFormed(plan), Supplied(plan), EdgesFixed, WholeTrunk, chain \in ChainType,
           ~RecordsEveryFrame, NEW fault
    PROVE  Walk(TRUE, fault).wrong = {}
<1>1. \A recording \in BOOLEAN :
        (recording => ~RecordsEveryFrame) => Walk(recording, fault).wrong = {}
  BY WholeWalk
<1>2. TRUE \in BOOLEAN  BY Zenon
<1> QED  BY <1>1, <1>2

\* The same of a walk made for a frame.
LEMMA FrameWalk ==
    ASSUME WellFormed(plan), Supplied(plan), EdgesFixed, WholeTrunk, chain \in ChainType,
           NEW fault
    PROVE  Walk(FALSE, fault).wrong = {}
<1>1. \A recording \in BOOLEAN :
        (recording => ~RecordsEveryFrame) => Walk(recording, fault).wrong = {}
  BY WholeWalk
<1>2. FALSE \in BOOLEAN  BY Zenon
<1> QED  BY <1>1, <1>2

\* A walk made for a frame of a plan labelled complete ends well unless a
\* launch fails.
LEMMA LabelledWalk ==
    ASSUME WellFormed(plan), Supplied(plan), SettingsFirst, plan.complete,
           chain \in ChainType, NEW fault, fault = NoFault
    PROVE  Walk(FALSE, fault).ok
<1>1. Endowed(plan) /\ Builtin  BY CompleteIsEndowed
<1>2. \A recording \in BOOLEAN : ~recording => Walk(recording, fault).ok
  <2> TAKE recording \in BOOLEAN
  <2> HAVE ~recording
  <2>1. Resident(plan, recording)  BY CompleteIsEndowed
  <2>2. Harmless(fault)  BY DEF Harmless
  <2>3. Record(plan, chain, recording, fault).ok
    BY <1>1, <2>1, <2>2, RecordGoes
  <2>4. Walk(recording, fault) = Record(plan, chain, recording, fault)
    BY <1>1 DEF Walk
  <2> QED  BY <2>3, <2>4
<1>3. FALSE \in BOOLEAN  BY Zenon
<1>4. ~FALSE  OBVIOUS
<1> QED  BY <1>2, <1>3, <1>4, Zenon

\* The graph and the last frame are those of the network.
LEMMA FrameRightStep ==
    ASSUME WellFormed(plan), Supplied(plan), FrameType, FrameRight, EdgesFixed,
           [Next]_vars
    PROVE  FrameRight'
<1>1. CASE UNCHANGED vars
  BY <1>1 DEF vars, FrameRight, finalized, WholeTrunk, RecordsEveryFrame, Builtin
<1>2. CASE ~finalized /\ UNCHANGED <<chain, graph, frame>>
  BY <1>2 DEF FrameType, FrameRight, finalized
<1>3. CASE Finalize
  <2> PICK fault \in Faults \cup {NoFault} :
        \/ UNCHANGED graph
        \/ graph' = [state |-> "owned", wrong |-> Walk(TRUE, fault).wrong]
    BY <1>3 DEF Finalize
  <2>1. plan' = plan /\ frame' = frame /\ frame.state = "none"
    BY <1>3 DEF Finalize, MayFinalize, FrameType
  <2>2. ~finalized  BY <1>3 DEF Finalize, MayFinalize
  <2>3. ASSUME finalized', WholeTrunk, ~RecordsEveryFrame PROVE graph'.wrong = {}
    <3>1. Walk(TRUE, fault).wrong = {}  BY <2>3, CaptureWalk DEF FrameType
    <3>2. CASE graph' = graph  BY <2>2, <2>3, <3>2 DEF finalized
    <3>3. CASE graph' = [state |-> "owned", wrong |-> Walk(TRUE, fault).wrong]
      BY <3>1, <3>3
    <3> QED  BY <3>2, <3>3
  <2>4. (WholeTrunk' <=> WholeTrunk) /\ (RecordsEveryFrame' <=> RecordsEveryFrame)
    BY <2>1 DEF WholeTrunk, RecordsEveryFrame, Builtin
  <2> QED  BY <2>1, <2>3, <2>4 DEF FrameRight
<1>4. CASE AdoptGraph
  <2>1. plan' = plan /\ frame' = frame /\ ~Builtin /\ frame.state = "none"
    BY <1>4 DEF AdoptGraph, FrameType
  <2>2. ~WholeTrunk'  BY <2>1, RecordRanges DEF WholeTrunk, Builtin
  <2> QED  BY <2>1, <2>2 DEF FrameRight
<1>5. CASE Submit
  <2>1. plan' = plan /\ graph' = graph /\ finalized  BY <1>5 DEF Submit
  <2>2. (WholeTrunk' <=> WholeTrunk) /\ (RecordsEveryFrame' <=> RecordsEveryFrame)
        /\ (finalized' <=> finalized)
    BY <2>1 DEF WholeTrunk, RecordsEveryFrame, Builtin, finalized
  <2>3. CASE RecordsEveryFrame
    <3> PICK fault \in Faults \cup {NoFault} :
          frame' = [state |-> IF Walk(FALSE, fault).ok THEN "done"
                              ELSE IF fault = NoFault THEN "failed" ELSE "faulted",
                    wrong |-> Walk(FALSE, fault).wrong]
      BY <1>5, <2>3 DEF Submit
    <3>1. WholeTrunk => frame'.wrong = {}  BY FrameWalk DEF FrameType
    <3>2. ASSUME SettingsFirst, frame'.state = "failed" PROVE ~plan.complete
      <4>1. fault = NoFault /\ ~Walk(FALSE, fault).ok  BY <3>2
      <4>2. CASE plan.complete
        <5>2. Walk(FALSE, fault).ok  BY <3>2, <4>1, <4>2, LabelledWalk DEF FrameType
        <5> QED  BY <4>1, <5>2
      <4> QED  BY <4>2
    <3> QED  BY <2>1, <2>2, <3>1, <3>2 DEF FrameRight
  <2>4. CASE ~RecordsEveryFrame
    <3>1. frame' = [state |-> "done", wrong |-> graph.wrong]
      BY <1>5, <2>4 DEF Submit
    <3> QED  BY <2>1, <2>2, <2>4, <3>1 DEF FrameRight
  <2> QED  BY <2>3, <2>4
<1> QED  BY <1>1, <1>2, <1>3, <1>4, <1>5, NextShape

\* Before the first call there is no graph and no frame.
LEMMA FrameInit == Init => FrameType /\ FrameRight
<1> SUFFICES ASSUME Init PROVE FrameType /\ FrameRight  OBVIOUS
<1>1. chain = NoChain /\ graph.state = "none" /\ frame.state = "none"
  BY DEF Init, NoGraph, NoFrame
<1>2. NoChain \in ChainType
  BY BufferNames DEF NoChain, ChainType, ChannelCounts
<1> QED  BY <1>1, <1>2 DEF FrameType, FrameRight, finalized

\* The types of the chain, the graph and the frame are invariant.
LEMMA FrameTypeAlways == Spec => []FrameType
<1>1. WellFormed(plan) => plan \in PlanType  BY DEF WellFormed
<1> QED  BY <1>1, FrameInit, FrameTypeStep, SuppliedAlways, PTL DEF Spec

\* Plan, chain, graph and frame keep their types: whatever a walk leaves in
\* the chain is a buffer and a scale of the network.
THEOREM TypeCorrect == Spec => []TypeOK
<1>1. WellFormed(plan) /\ FrameType => TypeOK
  BY DEF WellFormed, FrameType, TypeOK, ChainType, ChannelCounts, Widths
<1> QED  BY <1>1, SuppliedAlways, FrameTypeAlways, PTL

\* As long as a plan with edges stays in the mode they were configured for,
\* the graph and the last frame are those of the network.
LEMMA FrameRightAlways == Spec /\ []EdgesFixed => []FrameRight
  BY FrameInit, FrameRightStep, SuppliedAlways, FrameTypeAlways, PTL DEF Spec

\* A frame that ends well on a plan with the whole trunk ran the network, in
\* every execution mode, after any refused call, failed walk or retried
\* Finalize, as long as the edges are only used in fixed mode: in
\* the other, Pre publishes a chain that the body does not take.
THEOREM FramesRunNetworkInFixedEdges == Spec /\ []EdgesFixed => []FramesRunNetwork
<1>1. FrameRight => FramesRunNetwork  BY DEF FrameRight, FramesRunNetwork
<1> QED  BY <1>1, FrameRightAlways, PTL

\* Settings that precede the weights guarantee it.
LEMMA SettingsFixEdges == SettingsFirst => (Spec => []EdgesFixed)
<1> SUFFICES ASSUME SettingsFirst PROVE Spec => []EdgesFixed  OBVIOUS
<1>1. Supplied(plan) => EdgesFixed  BY DEF Supplied, Buffered, EdgesFixed
<1> QED  BY <1>1, SuppliedAlways, PTL

\* With the settings before the weights, as every bring-up script has them,
\* every frame that ends well ran the network.
THEOREM FramesRunNetworkHolds == SettingsFirst => (Spec => []FramesRunNetwork)
<1> SUFFICES ASSUME SettingsFirst PROVE Spec => []FramesRunNetwork  OBVIOUS
<1>1. Spec => []EdgesFixed  BY SettingsFixEdges
<1> QED  BY <1>1, FramesRunNetworkInFixedEdges, PTL

\* With the settings before the weights, a plan labelled complete has every
\* buffer its walk needs: a frame only fails when a launch does.
THEOREM CompleteRunsHolds == SettingsFirst => (Spec => []CompleteRuns)
<1> SUFFICES ASSUME SettingsFirst PROVE Spec => []CompleteRuns  OBVIOUS
<1>1. Spec => []EdgesFixed  BY SettingsFixEdges
<1>2. TypeOK /\ FrameRight => CompleteRuns  BY DEF FrameRight, CompleteRuns
<1> QED  BY <1>1, <1>2, TypeCorrect, FrameRightAlways, PTL

\* With the settings before the weights, the header's promise about record
\* 70 (nr_plan.h:370-372) holds: Head reads Body's image and Pre's skip.  The
\* run config_head, where the mode changes after the edges, breaks it.
THEOREM HeadConsumesBodyHolds == SettingsFirst => (Spec => []HeadConsumesBody)
<1> SUFFICES ASSUME SettingsFirst PROVE Spec => []HeadConsumesBody  OBVIOUS
<1>1. Spec => []FramesRunNetwork  BY FramesRunNetworkHolds
<1>2. FramesRunNetwork => HeadConsumesBody
  BY DEF FramesRunNetwork, HeadConsumesBody
<1> QED  BY <1>1, <1>2, PTL
=============================================================================
