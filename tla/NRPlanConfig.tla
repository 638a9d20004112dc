---------------------------- MODULE NRPlanConfig ----------------------------
(***************************************************************************)
(* The life of an NRPlan before and around its frames (nr_plan.cpp): the   *)
(* settings, weights, arena, shape and topology a caller configures in any *)
(* order, the finalize that captures the graph and freezes the plan, and   *)
(* the network each later frame executes.  plan mirrors the configuration  *)
(* fields of struct NRPlan; a refused call changes nothing unless the code *)
(* changes something before refusing.                                      *)
(*                                                                         *)
(* NRPlanSubmit models the queueing of a frame; here a frame is the one    *)
(* question of which operations run and which images they read.            *)
(***************************************************************************)
EXTENDS NRPlanRecorder, FiniteSets

CONSTANTS
    Profiles,        \* values passed to nrPlanSetPrecisionProfile
    Modes,           \* values passed to nrPlanSetExecutionMode
    BoundaryFlags,   \* values passed to nrPlanDebugSetFixedHostBoundaries
    InitialWeights,  \* plans are created with or without weight_bytes
    ArenaCalls,      \* arenas passed to nrPlanConfigureArena: any regions, or none
    StageLists,      \* record lists passed to nrPlanConfigureApproxStageBlocks
    SplitLists,      \* record lists passed to nrPlanConfigureApproxSplit512Blocks
    Recorders,       \* external recorder ABIs the caller may install
    DebugAnchors,    \* records the single-transition debug calls name, or none
    SettingsFirst,   \* BOOLEAN: settings are only changed before the weights,
                     \* as every bring-up script does
    Faults,          \* operations whose kernel launch may fail
    Failures         \* \subseteq {"alloc", "late"}: hipMalloc, Finalize after capture

ASSUME ConfigAssumption ==
    /\ Profiles \subseteq {"strict_fp16", "approx_fp8"}
    /\ Modes \subseteq {"graph", "fixed"}
    /\ BoundaryFlags \subseteq BOOLEAN
    /\ InitialWeights \subseteq {"none", "allocated"}
    /\ ArenaCalls \subseteq BOOLEAN
    /\ StageLists \subseteq SUBSET (1 .. 69)
    /\ SplitLists \subseteq SUBSET SplitRecords
    /\ {} \notin StageLists /\ {} \notin SplitLists
    /\ Recorders \subseteq {"v1", "v3"}
    /\ DebugAnchors \subseteq 1 .. 69
    /\ SettingsFirst \in BOOLEAN
    /\ Failures \subseteq {"alloc", "late"}

VARIABLES
    plan,    \* the configuration fields of struct NRPlan
    chain,   \* fixed_resident_chain_*: where the newest resident image lies
    graph,   \* graph/executable/owns_graph/finalized and what was captured
    frame    \* how the last submitted frame went

vars == <<plan, chain, graph, frame>>

NoGraph == [state |-> "none", wrong |-> {}]
NoFrame == [state |-> "none", wrong |-> {}]

(* nrPlanCreate: with weight_bytes the plan allocates its weights at once. *)
Init ==
    /\ \E w \in InitialWeights :
         plan = [precision |-> "strict_fp16", execution_mode |-> "graph",
                 host_boundaries |-> TRUE, weights |-> w, arena |-> FALSE,
                 prepared |-> FALSE, recorder |-> "none",
                 stage |-> {}, split |-> {}, vit |-> FALSE, bottleneck |-> FALSE,
                 transitions |-> {}, pre |-> FALSE, head |-> FALSE, complete |-> FALSE,
                 lut |-> FALSE, scratch |-> 0, target |-> 0, skips |-> {},
                 vit_scratch |-> FALSE, bottleneck_skip |-> FALSE, edge |-> FALSE]
    /\ chain = NoChain
    /\ graph = NoGraph
    /\ frame = NoFrame

finalized == graph.state # "none"
Builtin == \/ plan.stage # {} \/ plan.split # {} \/ plan.vit
           \/ plan.bottleneck \/ plan.pre \/ plan.head
WeightsUploaded == plan.weights \notin {"none", "allocated"}

Larger(a, b) == IF a >= b THEN a ELSE b
MayFailToAllocate(needed) == "alloc" \in Failures /\ needed

(* A call that only edits the configuration of a plan not yet finalized.   *)
Configure(new) ==
    /\ ~finalized
    /\ plan' = new
    /\ UNCHANGED <<chain, graph, frame>>

-----------------------------------------------------------------------------
(* Settings, weights, arena and shape.                                     *)

SettingAllowed == SettingsFirst => ~WeightsUploaded

SetPrecisionProfile ==
    \E profile \in Profiles :
        SettingAllowed /\ Configure([plan EXCEPT !.precision = profile])

SetExecutionMode ==
    \E mode \in Modes :
        SettingAllowed /\ Configure([plan EXCEPT !.execution_mode = mode])

SetFixedHostBoundaries ==
    /\ SettingAllowed
    /\ plan.execution_mode = "fixed"
    /\ \E flag \in BoundaryFlags : Configure([plan EXCEPT !.host_boundaries = flag])

UploadWeights ==
    /\ plan.weights = "allocated"
    /\ Configure([plan EXCEPT !.weights = "raw"])

LoadModelPackage ==
    /\ plan.weights = "none"
    /\ Configure([plan EXCEPT !.weights = plan.precision])

ConfigureArena ==
    \E regions \in ArenaCalls : Configure([plan EXCEPT !.arena = regions])

PrepareShape == Configure([plan EXCEPT !.prepared = TRUE])

(* The two recorder setters differ in the ABI and in which of the two      *)
(* pointers must still be null.                                            *)
(* Mutant: the recorder setter tests only the stage and split lists.       *)
SetRecorderBesideParts ==
    \E abi \in Recorders :
        /\ plan.recorder \in {"none", abi}
        /\ plan.stage = {} /\ plan.split = {}
        /\ Configure([plan EXCEPT !.recorder = abi])

SetRecorder ==
    \E abi \in Recorders :
        /\ plan.recorder \in {"none", abi}
        /\ ~Builtin
        /\ Configure([plan EXCEPT !.recorder = abi])

-----------------------------------------------------------------------------
(* The built-in topology, part by part.                                    *)

Fp8Ready ==
    /\ ~finalized
    /\ plan.recorder = "none"
    /\ plan.precision = "approx_fp8"
    /\ WeightsUploaded

(* The scratch a list needs, from the channels its blocks declare.         *)
ListScratch(channels) ==
    IF plan.execution_mode = "fixed"
    THEN CHOOSE n \in 0 .. 5 : /\ \E ch \in channels : Level(ch) = n
                               /\ \A ch \in channels : Level(ch) <= n
    ELSE 0

(* Stage and split lists share the scratch buffer and initialise the E4M3  *)
(* table before they look at the descriptors; a refused list keeps it.     *)
(* Mutant: the scratch is reallocated to the new list's size, even down.   *)
ConfigureListResized(new, records, channels, others) ==
    /\ Fp8Ready /\ plan.arena
    /\ records \cap others = {}
    /\ Configure([new EXCEPT !.lut = TRUE, !.complete = FALSE,
                             !.scratch = ListScratch(channels)])

ConfigureList(new, records, channels, others) ==
    LET need == ListScratch(channels)
    IN  /\ Fp8Ready /\ plan.arena
        /\ \/ /\ \/ records \cap others # {}
                 \/ MayFailToAllocate(need > plan.scratch)
              /\ Configure([plan EXCEPT !.lut = TRUE])
           \/ /\ records \cap others = {}
              /\ Configure([new EXCEPT !.lut = TRUE, !.complete = FALSE,
                                       !.scratch = Larger(plan.scratch, need)])

VitSet == IF plan.vit THEN VitRecords ELSE {}
ListChannels(list) == {StageChannels(r) : r \in list}

(* Mutant: the stage list is compared with the split list alone.           *)
StageBesideVit ==
    \E list \in StageLists :
        ConfigureList([plan EXCEPT !.stage = list], list, ListChannels(list), plan.split)

ConfigureStageBlocks ==
    \E list \in StageLists :
        ConfigureList([plan EXCEPT !.stage = list], list, ListChannels(list),
                      plan.split \cup VitSet)

(* Mutant: a replaced split list keeps the label.                          *)
SplitKeepsLabel ==
    \E list \in SplitLists :
        /\ Fp8Ready /\ plan.arena
        /\ list \cap (plan.stage \cup VitSet) = {}
        /\ Configure([plan EXCEPT !.split = list, !.lut = TRUE,
                        !.scratch = Larger(@, ListScratch({512}))])

ConfigureSplit512Blocks ==
    \E list \in SplitLists :
        ConfigureList([plan EXCEPT !.split = list], list, {512}, plan.stage \cup VitSet)

ConfigureVitBlocks ==
    /\ Fp8Ready /\ plan.arena
    /\ VitRecords \cap (plan.stage \cup plan.split) = {}
    /\ Configure([plan EXCEPT !.vit = TRUE, !.complete = FALSE,
                    !.vit_scratch = @ \/ plan.execution_mode = "fixed"])

ConfigureBottleneck ==
    /\ Fp8Ready /\ plan.arena
    /\ ~plan.bottleneck
    /\ plan.split = SplitRecords /\ plan.vit
    /\ LET fixed == plan.execution_mode = "fixed"
       IN  Configure([plan EXCEPT !.bottleneck = TRUE, !.complete = FALSE,
                        !.bottleneck_skip = @ \/ fixed,
                        !.target = IF fixed THEN Larger(@, Level(512)) ELSE @])

(* The lists are counted, not compared with the network's records, and the *)
(* anchors need not be among the blocks.                                   *)
ConfigureScaleTransitions ==
    /\ Fp8Ready /\ plan.arena
    /\ Cardinality(plan.stage) = 44 /\ Cardinality(plan.split) = 16
    /\ Configure([plan EXCEPT !.transitions = ScaleTransitions, !.complete = FALSE,
                    !.target = Level(32), !.skips = {32, 64, 128, 256}])

(* The label looks at the sizes of the lists and at the first and the last *)
(* stage record.                                                           *)
IsComplete(p) ==
    /\ Cardinality(p.stage) = 44 /\ {1, 69} \subseteq p.stage
    /\ Cardinality(p.split) = 16
    /\ p.vit /\ p.bottleneck
    /\ Cardinality(p.transitions) = 8
    /\ p.pre /\ p.head

RefreshComplete(p) == [p EXCEPT !.complete = IsComplete(p)]

EdgeReady == Fp8Ready /\ plan.execution_mode = "fixed" /\ plan.prepared

(* Pre owns the edge scratch, its skip and, if larger, the pooled target.  *)
ConfigurePre ==
    /\ EdgeReady /\ ~plan.pre
    /\ Configure(RefreshComplete(
         [plan EXCEPT !.pre = TRUE, !.edge = TRUE, !.target = Larger(@, Level(32))]))

ConfigureHead ==
    /\ EdgeReady /\ plan.pre /\ ~plan.head
    /\ Configure(RefreshComplete([plan EXCEPT !.head = TRUE]))

-----------------------------------------------------------------------------
(* The debug calls that bring up one scale pair.                           *)

HasBlock(lowest, highest, ch) ==
    \E r \in plan.stage \cup (IF ch = 512 THEN plan.split ELSE {}) :
        lowest < r /\ r < highest /\ BlockChannels(plan, r) = ch

DebugEncoderTransition ==
    /\ Fp8Ready /\ plan.arena /\ plan.execution_mode = "fixed"
    /\ plan.transitions = {}
    /\ \E a \in DebugAnchors \cap plan.stage :
        LET ch == StageChannels(a)
        IN  /\ HasBlock(a, 70, 2 * ch)
            /\ Configure([plan EXCEPT !.transitions = {<<"down", a>>},
                            !.complete = FALSE,
                            !.target = Level(2 * ch), !.skips = {ch}])

DebugAppendDecoderTransition ==
    /\ Fp8Ready /\ plan.arena /\ plan.execution_mode = "fixed"
    /\ \E a \in 1 .. 69, d \in DebugAnchors \cap plan.stage :
        /\ plan.transitions = {<<"down", a>>}
        /\ StageChannels(d) = StageChannels(a)
        /\ HasBlock(a, d, 2 * StageChannels(a))
        /\ Configure([plan EXCEPT !.transitions = @ \cup {<<"up", d>>},
                        !.target = Larger(@, Level(StageChannels(d)))])

-----------------------------------------------------------------------------
(* Finalize, adoption of a caller's graph, and frames.                     *)

MayFinalize ==
    /\ ~finalized
    /\ plan.recorder # "none" \/ Builtin
    /\ WeightsUploaded
    /\ plan.recorder = "v3" \/ Builtin => plan.prepared

(* One walk of the recorder; an installed recorder function is the         *)
(* caller's, and leaves the chain alone.                                   *)
Walk(recording, fault) ==
    IF Builtin THEN Record(plan, chain, recording, fault)
    ELSE [ok |-> TRUE, chain |-> chain, wrong |-> {}]

(* The capture may fail in the walk, or later in instrumentation or        *)
(* instantiation; the plan then stays open with the chain of the walk.     *)
Finalize ==
    /\ MayFinalize
    /\ \E fault \in Faults \cup {NoFault} :
        LET walk == Walk(TRUE, fault)
        IN  /\ chain' = walk.chain
            /\ \/ /\ ~walk.ok \/ "late" \in Failures
                  /\ UNCHANGED graph
               \/ /\ walk.ok
                  /\ graph' = [state |-> "owned", wrong |-> walk.wrong]
    /\ UNCHANGED <<plan, frame>>

AdoptGraph ==
    /\ ~finalized
    /\ plan.recorder = "none" /\ ~Builtin
    /\ graph' = [state |-> "adopted", wrong |-> {}]
    /\ UNCHANGED <<plan, chain, frame>>

RecordsEveryFrame ==
    plan.execution_mode = "fixed" /\ Builtin /\ plan.host_boundaries

Submit ==
    /\ finalized
    /\ \/ /\ RecordsEveryFrame
          /\ \E fault \in Faults \cup {NoFault} :
               LET walk == Walk(FALSE, fault)
               IN  /\ chain' = walk.chain
                   /\ frame' = [state |-> IF walk.ok THEN "done"
                                          ELSE IF fault = NoFault THEN "failed"
                                          ELSE "faulted",
                                wrong |-> walk.wrong]
       \/ /\ ~RecordsEveryFrame
          /\ frame' = [state |-> "done", wrong |-> graph.wrong]
          /\ UNCHANGED chain
    /\ UNCHANGED <<plan, graph>>

Next ==
    \/ SetPrecisionProfile \/ SetExecutionMode \/ SetFixedHostBoundaries
    \/ UploadWeights \/ LoadModelPackage \/ ConfigureArena \/ PrepareShape
    \/ SetRecorder
    \/ ConfigureStageBlocks \/ ConfigureSplit512Blocks \/ ConfigureVitBlocks
    \/ ConfigureBottleneck \/ ConfigureScaleTransitions
    \/ ConfigurePre \/ ConfigureHead
    \/ DebugEncoderTransition \/ DebugAppendDecoderTransition
    \/ Finalize \/ AdoptGraph \/ Submit

Spec == Init /\ [][Next]_vars
-----------------------------------------------------------------------------
(* Properties.                                                             *)

PlanType ==
    [precision : {"strict_fp16", "approx_fp8"}, execution_mode : {"graph", "fixed"},
     host_boundaries : BOOLEAN,
     weights : {"none", "allocated", "raw", "strict_fp16", "approx_fp8"},
     arena : BOOLEAN, prepared : BOOLEAN, recorder : {"none", "v1", "v3"},
     stage : SUBSET (1 .. 69), split : SUBSET SplitRecords,
     vit : BOOLEAN, bottleneck : BOOLEAN,
     transitions : SUBSET ({"down", "up"} \X (1 .. 69)),
     pre : BOOLEAN, head : BOOLEAN, complete : BOOLEAN,
     lut : BOOLEAN, scratch : 0 .. 5, target : 0 .. 5,
     skips : SUBSET {32, 64, 128, 256},
     vit_scratch : BOOLEAN, bottleneck_skip : BOOLEAN, edge : BOOLEAN]

TypeOK ==
    /\ plan \in PlanType
    /\ chain.buffer \in Buffers /\ chain.channels \in {0, 32, 64, 128, 256, 512, 1024}
    /\ graph.state \in {"none", "owned", "adopted"}
    /\ frame.state \in {"none", "done", "failed", "faulted"}

(* What the label complete_native_topology, on which the deployment gate    *)
(* rests (nr_plan.cpp:846), is worth, in whatever order parts were          *)
(* configured, refused or replaced after it was given.  The code counts the *)
(* blocks, so it does not mean the whole network: one block of it may be    *)
(* missing, with record 39, which no other list may hold, in its place.     *)
(* Every other part is there, and no second block can be missing.           *)
LabelMissesAtMostOne ==
    plan.complete =>
        /\ \/ plan.stage = WideRecords
           \/ \E r \in WideRecords \ {1, 69} : plan.stage = (WideRecords \ {r}) \cup {39}
        /\ plan.split = SplitRecords /\ plan.vit /\ plan.bottleneck
        /\ plan.transitions = ScaleTransitions
        /\ plan.pre /\ plan.head

(* A plan executes one thing: an external recorder, an adopted graph or    *)
(* the built-in topology.  The setters check each other's state in both    *)
(* directions (537-594, 889, 981, 1059, 1113, 1169, 1297, 1343), and none  *)
(* of them tests the transitions, which only come after a stage list.      *)
OneTopology ==
    /\ plan.recorder # "none" => ~Builtin /\ plan.transitions = {}
    /\ graph.state = "adopted" => ~Builtin /\ plan.recorder = "none"
    /\ plan.transitions # {} => plan.stage # {}

(* No record is executed twice by a walk: the three list setters compare   *)
(* their records with the two other lists (951-956, 1028-1031, 1083-1086), *)
(* in whatever order lists are configured, replaced and refused.           *)
NoRecordTwice ==
    /\ plan.stage \cap plan.split = {}
    /\ plan.vit => VitRecords \cap (plan.stage \cup plan.split) = {}

WholeTrunk ==
    /\ plan.stage = WideRecords /\ plan.split = SplitRecords
    /\ plan.vit /\ plan.bottleneck
    /\ plan.transitions = ScaleTransitions

(* A frame that ends well on a plan with the whole trunk ran the network:  *)
(* every block, transition and edge read the image its predecessor wrote   *)
(* in this frame, through the resident chain or through the arena.  A      *)
(* chain left by an earlier frame, by a failed walk or by a Finalize that  *)
(* was retried is never consumed.                                          *)
FramesRunNetwork == WholeTrunk /\ frame.state = "done" => frame.wrong = {}

(* A plan labelled complete, with all its blocks or one of them missing,   *)
(* has every buffer its walk needs, whatever was configured, replaced or   *)
(* debugged on the way: with no launch failing, a frame ends well.         *)
CompleteRuns ==
    /\ TypeOK
    /\ plan.complete /\ finalized => frame.state # "failed"

(* nr_plan.h:370-372: "Record-70 Output Head consumes the final            *)
(* half-resolution C32 resident image plus the retained full-resolution    *)
(* Pre skip".  In a frame of a complete plan that ends well, Head does.    *)
HeadConsumesBody ==
    WholeTrunk /\ plan.head /\ frame.state = "done" => <<"head", 70>> \notin frame.wrong
=============================================================================
