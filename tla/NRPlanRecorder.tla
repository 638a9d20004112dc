--------------------------- MODULE NRPlanRecorder ---------------------------
(***************************************************************************)
(* The built-in recorder of NRPlan (nr_plan.cpp, 1620-2257): the walk over *)
(* the configured blocks, transitions, bottleneck and edges that both      *)
(* nrPlanFinalize (under stream capture) and nrPlanSubmit (in fixed        *)
(* sequence mode) make.  Pure operators: Record(p, chain, recording,       *)
(* fault) is the outcome of one walk for the configuration p.              *)
(*                                                                         *)
(* An image is named by the operation that produces it, so that reading    *)
(* the right buffer at the wrong time is visible.  Kernels are abstracted  *)
(* to the images they read and the buffers they overwrite.                 *)
(***************************************************************************)
EXTENDS Integers

-----------------------------------------------------------------------------
(* The network: 71 records, their channel counts, the scale anchors.       *)

WideRecords  == (1 .. 22) \cup (48 .. 69)
SplitRecords == (23 .. 30) \cup (40 .. 47)
VitRecords   == 31 .. 38

Channels(r) ==
    CASE r \in (1 .. 4) \cup (66 .. 69)    -> 32
      [] r \in (5 .. 8) \cup (62 .. 65)    -> 64
      [] r \in (9 .. 14) \cup (56 .. 61)   -> 128
      [] r \in (15 .. 22) \cup (48 .. 55)  -> 256
      [] r \in SplitRecords                -> 512
      [] OTHER                             -> 1024

(* A stage descriptor names its record and its channels separately; one    *)
(* for a record outside its family can declare 256 channels at most.       *)
StageChannels(r) == IF r \in WideRecords THEN Channels(r) ELSE 256

BlockChannels(p, r) == IF r \in p.stage THEN StageChannels(r) ELSE Channels(r)

EncoderAnchors == {4, 8, 14, 22}
DecoderAnchors == {48, 56, 62, 66}
ScaleTransitions == ({"down"} \X EncoderAnchors) \cup ({"up"} \X DecoderAnchors)

(* The bytes a resident image of so many channels needs, as a level: every *)
(* downsample quarters the area and doubles the channels.                  *)
Level(ch) == CASE ch = 32 -> 5 [] ch = 64 -> 4 [] ch = 128 -> 3
               [] ch = 256 -> 2 [] OTHER -> 1

-----------------------------------------------------------------------------
(* Buffers: the caller's arena regions and the plan-owned allocations.     *)

Ping(ch) == <<"ping", ch>>
Skip(ch) == <<"skip", ch>>
Pool(ch) == <<"fixed_transition_skip_pool", ch>>
Fp16     == <<"output_fp16", 0>>
Pong     == <<"pong", 1024>>
Scratch  == <<"fixed_boundary_scratch", 0>>
Target   == <<"fixed_transition_target", 0>>
VitSlot  == <<"fixed_vit_scratch", 9>>
CentralSkip == <<"fixed_bottleneck_skip", 0>>
PreSkip  == <<"fixed_pre_skip", 0>>
Output   == <<"output_residual", 0>>

Buffers == {Ping(ch) : ch \in {32, 64, 128, 256, 512, 1024}}
           \cup {Skip(ch) : ch \in {32, 64, 128, 256, 512}}
           \cup {Pool(ch) : ch \in {32, 64, 128, 256}}
           \cup {Fp16, Pong, Scratch, Target, VitSlot, CentralSkip, PreSkip, Output}

NoChain == [buffer |-> Output, channels |-> 0]
Chain(b, ch) == [buffer |-> b, channels |-> ch]

Stale == <<"stale", 0>>
Input == <<"input", 0>>
Block(r) == <<"block", r>>
NoFault == <<"none", 0>>

(* The image block r of the network is to read, whichever route carries it. *)
Feeds(p, r) ==
    CASE r \in DecoderAnchors     -> <<"up", r>>
      [] r - 1 \in EncoderAnchors -> <<"down", r - 1>>
      [] r = 1                    -> IF p.pre THEN <<"pre", 0>> ELSE Input
      [] r = 31                   -> <<"encoder", 30>>
      [] r = 40                   -> <<"decoder", 38>>
      [] OTHER                    -> Block(r - 1)

(* The encoder block whose image the upsample at r adds back.              *)
SkippedBlock(r) == CHOOSE a \in EncoderAnchors : Channels(a) = StageChannels(r)

-----------------------------------------------------------------------------
(* A walk in progress: [ok, chain, mem, wrong].  Launch is one operation:  *)
(* reads pairs the buffers it reads with the images they should hold, and  *)
(* mem is what the buffers hold after it.                                  *)

Resident(p, recording) ==
    p.execution_mode = "fixed" /\ (~recording \/ ~p.host_boundaries)

Refuse(m) == [m EXCEPT !.ok = FALSE]

Launch(m, op, fault, reads, mem, chain) ==
    IF op = fault THEN Refuse(m)
    ELSE [m EXCEPT !.mem   = mem,
                   !.chain = chain,
                   !.wrong = IF \A read \in reads : m.mem[read[1]] = read[2]
                             THEN @ ELSE @ \cup {op}]

(* A Swin block takes the chain when it has the block's scale, else the    *)
(* arena; a resident one leaves its image at the end of the shared scratch. *)
SwinBlock(p, resident, fault, r, ch, m) ==
    LET in  == IF resident /\ m.chain.channels = ch THEN m.chain.buffer ELSE Ping(ch)
        out == IF resident THEN Scratch ELSE Ping(ch)
    IN  IF resident /\ p.scratch < Level(ch) THEN Refuse(m)
        ELSE Launch(m, Block(r), fault, {<<in, Feeds(p, r)>>},
                    [m.mem EXCEPT ![out] = Block(r), ![Fp16] = Block(r)],
                    IF resident THEN Chain(Scratch, ch) ELSE m.chain)

StageBlock(p, resident, fault, r, m) ==
    SwinBlock(p, resident, fault, r, BlockChannels(p, r), m)

Split512Block(p, resident, fault, r, m) == SwinBlock(p, resident, fault, r, 512, m)

(* In the arena the ViT blocks alternate between two images, from ping to  *)
(* pong and back.                                                          *)
VitInput(r) == IF r % 2 = 1 THEN Ping(1024) ELSE Pong

(* Mutant: every block writes the same image.                              *)
VitOutputPong(r) == Pong

VitOutput(r) == IF r % 2 = 1 THEN Pong ELSE Ping(1024)

VitBlock(p, resident, fault, r, m) ==
    IF ~resident
    THEN Launch(m, Block(r), fault, {<<VitInput(r), Feeds(p, r)>>},
                [m.mem EXCEPT ![VitOutput(r)] = Block(r)], m.chain)
    ELSE IF ~p.vit_scratch \/ m.chain.channels # 1024 THEN Refuse(m)
    ELSE Launch(m, Block(r), fault, {<<m.chain.buffer, Feeds(p, r)>>},
                [m.mem EXCEPT ![VitSlot] = Block(r)], Chain(VitSlot, 1024))

RecordBlock(p, resident, fault, r, m) ==
    IF ~m.ok THEN m
    ELSE IF r \in p.stage THEN StageBlock(p, resident, fault, r, m)
    ELSE IF r \in p.split THEN Split512Block(p, resident, fault, r, m)
    ELSE VitBlock(p, resident, fault, r, m)

-----------------------------------------------------------------------------
(* The C512 <-> ViT bottleneck, after records 30 and 38.                   *)

EncoderBottleneck(p, resident, fault, m) ==
    LET op == <<"encoder", 30>> IN
    IF ~resident
    THEN Launch(m, op, fault, {<<Ping(512), Block(30)>>},
                [m.mem EXCEPT ![Skip(512)] = m.mem[Ping(512)], ![Ping(1024)] = op],
                m.chain)
    ELSE IF m.chain.channels # 512 \/ ~p.bottleneck_skip \/ ~p.vit_scratch THEN Refuse(m)
    ELSE Launch(m, op, fault, {<<m.chain.buffer, Block(30)>>},
                [m.mem EXCEPT ![CentralSkip] = m.mem[m.chain.buffer], ![VitSlot] = op],
                Chain(VitSlot, 1024))

DecoderBottleneck(p, resident, fault, m) ==
    LET op == <<"decoder", 38>> IN
    IF ~resident
    THEN Launch(m, op, fault, {<<Ping(1024), Block(38)>>, <<Skip(512), Block(30)>>},
                [m.mem EXCEPT ![Ping(512)] = op], m.chain)
    ELSE IF m.chain.channels # 1024 \/ ~p.bottleneck_skip \/ p.target < Level(512)
    THEN Refuse(m)
    ELSE Launch(m, op, fault, {<<m.chain.buffer, Block(38)>>, <<CentralSkip, Block(30)>>},
                [m.mem EXCEPT ![Target] = op], Chain(Target, 512))

RecordBottleneck(p, resident, fault, r, m) ==
    IF ~m.ok \/ ~p.bottleneck THEN m
    ELSE CASE r = 30 -> EncoderBottleneck(p, resident, fault, m)
           [] r = 38 -> DecoderBottleneck(p, resident, fault, m)
           [] OTHER  -> m

-----------------------------------------------------------------------------
(* Scale transitions: resident when the chain holds the right scale, else  *)
(* through the arena, which also drops the chain of a resident walk.       *)

Dropped(resident, m) == IF resident THEN [m EXCEPT !.chain = NoChain] ELSE m

Downsample(p, resident, fault, a, m) ==
    LET op == <<"down", a>>
        ch == StageChannels(a)
        next == IF resident /\ m.chain.channels = ch /\ p.target > 0 /\ p.skips # {}
                THEN Launch(m, op, fault,
                            {<<m.chain.buffer, Block(a)>>, <<Fp16, Block(a)>>},
                            [m.mem EXCEPT ![Pool(ch)] = m.mem[m.chain.buffer],
                                          ![Target] = op],
                            Chain(Target, 2 * ch))
                ELSE Dropped(resident,
                       Launch(m, op, fault, {<<Ping(ch), Block(a)>>, <<Fp16, Block(a)>>},
                              [m.mem EXCEPT ![Skip(ch)] = m.mem[Ping(ch)],
                                            ![Ping(2 * ch)] = op],
                              m.chain))
    IN  IF next.ok THEN next ELSE Dropped(resident, next)

Upsample(p, resident, fault, a, m) ==
    LET op == <<"up", a>>
        ch == StageChannels(a)
        source == Block(a - 1)
        skipped == Block(SkippedBlock(a))
        next == IF resident /\ m.chain.channels = 2 * ch /\ p.target > 0 /\ ch \in p.skips
                THEN Launch(m, op, fault,
                            {<<m.chain.buffer, source>>, <<Pool(ch), skipped>>},
                            [m.mem EXCEPT ![Target] = op], Chain(Target, ch))
                ELSE Dropped(resident,
                       Launch(m, op, fault,
                              {<<Ping(2 * ch), source>>, <<Skip(ch), skipped>>},
                              [m.mem EXCEPT ![Ping(ch)] = op], m.chain))
    IN  IF next.ok THEN next ELSE Dropped(resident, next)

RecordTransition(p, resident, fault, direction, r, m) ==
    IF ~m.ok \/ <<direction, r>> \notin p.transitions THEN m
    ELSE IF direction = "down" THEN Downsample(p, resident, fault, r, m)
    ELSE Upsample(p, resident, fault, r, m)

-----------------------------------------------------------------------------
(* The edges.  Pre publishes the chain whatever the mode.                  *)

RecordPre(p, fault, m) ==
    IF ~p.pre THEN m
    ELSE IF ~p.edge \/ p.target < Level(32) \/ ~p.lut THEN Refuse(m)
    ELSE Launch(m, <<"pre", 0>>, fault, {},
                [m.mem EXCEPT ![PreSkip] = <<"pre", 0>>, ![Target] = <<"pre", 0>>],
                Chain(Target, 32))

RecordHead(p, fault, m) ==
    IF ~m.ok \/ ~p.head THEN m
    ELSE IF m.chain.channels # 32 \/ ~p.edge \/ ~p.lut THEN Refuse(m)
    ELSE Launch(m, <<"head", 70>>, fault,
                {<<m.chain.buffer, Block(69)>>, <<PreSkip, <<"pre", 0>>>>},
                [m.mem EXCEPT ![Output] = <<"head", 70>>], m.chain)

(* The walk: every record any of the three lists holds, in record order.   *)
(* Mutant: a resident walk starts from whatever the last walk left.        *)
StartChainKept(resident, chain) == chain

StartChain(resident, chain) == IF resident THEN NoChain ELSE chain

Records(p) == p.stage \cup p.split \cup (IF p.vit THEN VitRecords ELSE {})

(* A walk begins with the frame's input in the arena and nothing else.      *)
Start(p, chain, recording) ==
    [ok |-> TRUE, chain |-> StartChain(Resident(p, recording), chain), wrong |-> {},
     mem |-> [b \in Buffers |-> IF b = Ping(32) THEN Input ELSE Stale]]

At(p, resident, fault, r, m) ==
    RecordBottleneck(p, resident, fault, r,
        RecordTransition(p, resident, fault, "down", r,
            RecordBlock(p, resident, fault, r,
                RecordTransition(p, resident, fault, "up", r, m))))

Walked(p, chain, recording, fault) ==
    LET walked[r \in 0 .. 69] ==
            IF r = 0 THEN RecordPre(p, fault, Start(p, chain, recording))
            ELSE LET m == walked[r - 1]
                 IN  IF m.ok /\ r \in Records(p)
                     THEN At(p, Resident(p, recording), fault, r, m) ELSE m
    IN  walked

Record(p, chain, recording, fault) ==
    LET end == RecordHead(p, fault, Walked(p, chain, recording, fault)[69])
    IN  [ok |-> end.ok, chain |-> end.chain, wrong |-> end.wrong]
=============================================================================
