----------------------------- MODULE BlockDelta -----------------------------
(***************************************************************************)
(* BlockEncoder (libenc/Encoder.cpp): how the difference between frames is *)
(* found and encoded with two screens that share every buffer.             *)
(*                                                                         *)
(* yuv_buffer has two slots per block.  A screen does not hold pixels: it  *)
(* holds, for each block, which of the two slots is its version            *)
(* (buff_idx), and the list of blocks to encode.  The engine thread writes *)
(* a new frame into the slots the other screen does not use, while the     *)
(* compress thread (with its helper units) is still reading that screen;   *)
(* ToggleScreen swaps the two.  encode_buffer and header exist once per    *)
(* block: a block that changed in the previous frame but not in this one is*)
(* sent again as CLONE, from the bytes left there.                         *)
(*                                                                         *)
(* That the screens are toggled only while compress is idle is the subject *)
(* of EncodePipeline; it is the guard of ToggleScreen here.  The display is*)
(* external: it decodes each bitstream over the picture before last (two   *)
(* buffers) and shows it.                                                  *)
(***************************************************************************)
EXTENDS Naturals, FiniteSets

CONSTANTS
    Blocks,      \* block indices of the largest geometry
    Geometries,  \* the sets of blocks of the resolutions in use
    Pixels,      \* what a block can show
    Tails,       \* contents of the lines of a slot below the desktop
    Ragged,      \* blocks of the last row, when height % BLOCK_HEIGHT # 0
    Garbage      \* what bytes that were never written decode to

ASSUME BlockAssumption ==
    /\ Geometries \subseteq (SUBSET Blocks) \ {{}}
    /\ Ragged \subseteq Blocks
    /\ Pixels # {} /\ Tails # {}

Screens == {0, 1}
Slots == {0, 1}
Content == [pix : Pixels, tail : Tails]
Qualities == {"none", "raw", "clone"}
Unwritten == [pix |-> Garbage, tail |-> Garbage]
NoPicture == [b \in {} |-> Garbage]
Other(i) == 1 - i

VARIABLES
    slot,      \* yuv_buffer: the two versions of each block
    buffIdx,   \* screen[].buff_idx
    list,      \* screen[].encode_list: the quality of a listed block
    analysis,  \* which screen is p_analysis
    payload,   \* encode_buffer and header: what the bytes of a block show
    active,    \* the blocks of the geometry of the encoder
    enginePc, todo, frame, first,
    compressPc, work,
    kept,      \* history: the frame of the screen p_compress points to
    still,     \* history: how many frames in a row repeated it, up to 2
    front,     \* external: the picture on display
    back       \* external: the buffer the next picture is decoded into

engineVars   == <<active, enginePc, todo, frame, first, still>>
compressVars == <<compressPc, work, payload>>
screens      == <<buffIdx, list>>
display      == <<front, back>>
vars == <<slot, screens, analysis, engineVars, compressVars, kept, display>>

compress == Other(analysis)  \* which screen is p_compress

NothingListed == [b \in Blocks |-> "none"]
Listed(s) == {b \in Blocks : list[s][b] # "none"}

\* memalign() does not clear yuv_buffer and encode_buffer.
Init ==
    /\ slot \in [Blocks -> [Slots -> Content]]
    /\ buffIdx = [s \in Screens |-> [b \in Blocks |-> s]]
    /\ list = [s \in Screens |-> NothingListed]
    /\ analysis = 0
    /\ payload = [b \in Blocks |-> Unwritten]
    /\ active = {}
    /\ enginePc = "idle" /\ todo = {} /\ frame = NoPicture /\ first = TRUE
    /\ compressPc = "idle" /\ work = {}
    /\ kept = NoPicture /\ still = 0
    /\ front = NoPicture /\ back = NoPicture

-----------------------------------------------------------------------------
(* engine *)

\* EncodeEngine::Analysis calls the encoder for a frame f of geometry g: a new
\* geometry makes the frame a first one, and so may a failed write (fst).
BeginAnalysis(g, f, fst) ==
    /\ enginePc = "idle"
    /\ g # active => fst
    /\ active' = g
    /\ frame' = f
    /\ first' = fst
    /\ still' = IF ~fst /\ f = kept THEN IF still = 0 THEN 1 ELSE 2 ELSE 0
    /\ list' = [list EXCEPT ![analysis] = NothingListed]
    /\ todo' = g
    /\ enginePc' = "analyse"
    /\ UNCHANGED <<slot, buffIdx, analysis, compressVars, kept, display>>

\* Defect: the slot the analysed screen itself does not use.
FreeSlotOfAnalysis(b) == Other(buffIdx[analysis][b])

\* The conversion writes the lines of the desktop only, into the slot the
\* screen being compressed does not use.
FreeSlot(b) == Other(buffIdx[compress][b])
Converted(b) ==
    [pix |-> frame[b],
     tail |-> IF b \in Ragged THEN slot[b][FreeSlot(b)].tail ELSE CHOOSE t \in Tails : TRUE]

\* Block b is converted, the screen refers to slot i of it, and lists it with
\* quality q.
Place(b, i, q) ==
    /\ slot' = [slot EXCEPT ![b][FreeSlot(b)] = Converted(b)]
    /\ buffIdx' = [buffIdx EXCEPT ![analysis][b] = i]
    /\ list' = [list EXCEPT ![analysis][b] = q]
    /\ todo' = todo \ {b}
    /\ UNCHANGED <<analysis, active, enginePc, frame, first, still,
                   compressVars, kept, display>>

\* UpdateFrameBufferBlock
UpdateBlock(b) ==
    /\ enginePc = "analyse" /\ first /\ b \in todo
    /\ Place(b, FreeSlot(b), "raw")

\* CheckFrameBufferBlock: memcmp of the whole slots.
Same(b) == Converted(b) = slot[b][buffIdx[compress][b]]
ChangedBlock(b) ==
    /\ enginePc = "analyse" /\ ~first /\ b \in todo
    /\ ~Same(b)
    /\ Place(b, FreeSlot(b), "raw")

\* Defects: the block is not listed; the screen keeps referring to its old slot.
SameBlockUnlisted(b) ==
    /\ enginePc = "analyse" /\ ~first /\ b \in todo
    /\ Same(b)
    /\ Place(b, buffIdx[compress][b], "none")
SameBlockKeepsSlot(b) ==
    /\ enginePc = "analyse" /\ ~first /\ b \in todo
    /\ Same(b)
    /\ Place(b, buffIdx[analysis][b],
             IF buffIdx[compress][b] # buffIdx[analysis][b] THEN "clone" ELSE "none")

\* A block that did not change is listed, as a clone, only if it changed in the
\* previous frame.
SameBlock(b) ==
    /\ enginePc = "analyse" /\ ~first /\ b \in todo
    /\ Same(b)
    /\ Place(b, buffIdx[compress][b],
             IF buffIdx[compress][b] # buffIdx[analysis][b] THEN "clone" ELSE "none")

\* No block to encode: the frame is dropped.
EndAnalysis ==
    /\ enginePc = "analyse" /\ todo = {}
    /\ enginePc' = IF Listed(analysis) = {} THEN "idle" ELSE "handover"
    /\ UNCHANGED <<slot, screens, analysis, active, todo, frame, first, still,
                   compressVars, kept, display>>

\* Defects: the engine does not wait for compress; compress works through the
\* list of the other screen.
ToggleScreenEarly ==
    /\ enginePc = "handover"
    /\ analysis' = compress
    /\ kept' = frame
    /\ enginePc' = "idle"
    /\ compressPc' = "encode"
    /\ work' = Listed(analysis)
    /\ UNCHANGED <<slot, screens, payload, active, todo, frame, first, still,
                   display>>
ToggleScreenStaleList ==
    /\ enginePc = "handover"
    /\ compressPc = "idle"
    /\ analysis' = compress
    /\ kept' = frame
    /\ enginePc' = "idle"
    /\ compressPc' = "encode"
    /\ work' = Listed(compress)
    /\ UNCHANGED <<slot, screens, payload, active, todo, frame, first, still,
                   display>>

ToggleScreen ==
    /\ enginePc = "handover"
    /\ compressPc = "idle"
    /\ analysis' = compress
    /\ kept' = frame
    /\ enginePc' = "idle"
    /\ compressPc' = "encode"
    /\ work' = Listed(analysis)
    /\ UNCHANGED <<slot, screens, payload, active, todo, frame, first, still,
                   display>>

Engine == \/ \E g \in Geometries : \E f \in [g -> Pixels] :
                \E fst \in BOOLEAN : BeginAnalysis(g, f, fst)
          \/ \E b \in Blocks : UpdateBlock(b) \/ SameBlock(b) \/ ChangedBlock(b)
          \/ EndAnalysis \/ ToggleScreen

-----------------------------------------------------------------------------
(* compress *)

\* EncodeBlocks, by compress and its helper units in any order.  A clone
\* keeps the bytes and the header of its last encoding.
EncodeBlock(b) ==
    /\ compressPc = "encode" /\ b \in work
    /\ work' = work \ {b}
    /\ payload' = IF list[compress][b] = "clone" THEN payload
                  ELSE [payload EXCEPT ![b] = slot[b][buffIdx[compress][b]]]
    /\ UNCHANGED <<slot, screens, analysis, engineVars, compressPc, kept, display>>

\* get_bitstream collects the payloads of the list once all units are done;
\* the display decodes them over the picture before last.
SendBitstream ==
    /\ compressPc = "encode" /\ work = {}
    /\ compressPc' = "idle"
    /\ front' = [b \in DOMAIN kept |->
                   IF b \in Listed(compress) THEN payload[b].pix
                   ELSE IF b \in DOMAIN back THEN back[b] ELSE Garbage]
    /\ back' = front
    /\ UNCHANGED <<slot, screens, analysis, engineVars, work, payload, kept>>

Compress == (\E b \in Blocks : EncodeBlock(b)) \/ SendBitstream

Next == Engine \/ Compress

Spec == Init /\ [][Next]_vars

-----------------------------------------------------------------------------
TypeOK ==
    /\ slot \in [Blocks -> [Slots -> Content]]
    /\ buffIdx \in [Screens -> [Blocks -> Slots]]
    /\ list \in [Screens -> [Blocks -> Qualities]]
    /\ analysis \in Screens
    /\ payload \in [Blocks -> Content \cup {Unwritten}]
    /\ active \in Geometries \cup {{}}
    /\ enginePc \in {"idle", "analyse", "handover"}
    /\ todo \subseteq active
    /\ frame \in [active -> Pixels]
    /\ first \in BOOLEAN
    /\ compressPc \in {"idle", "encode"} /\ work \subseteq Listed(compress)
    /\ \E g \in Geometries \cup {{}} : kept \in [g -> Pixels]
    /\ still \in 0..2

\* The screen p_compress points to shows the frame kept last, in every block
\* and at every moment: the engine may be in the middle of converting the next
\* frame into the same buffer.
CompressedScreenIsKept ==
    \A b \in DOMAIN kept : slot[b][buffIdx[compress][b]].pix = kept[b]

\* A payload that is sent again was left by the slot it is to show: no encoding
\* in between wrote over it, no conversion reused its slot.
CloneIsValid ==
    \A b \in DOMAIN kept :
        compressPc = "encode" /\ list[compress][b] = "clone"
        => payload[b] = slot[b][buffIdx[compress][b]]

\* A block that is left out of the bitstream shows the same in the frame, in
\* the previous one and in the one before: a display with two buffers never
\* shows an outdated block.  Here: what is on display is the frame sent last.
DisplayShowsFrame ==
    compressPc = "idle" => front = kept

\* A desktop at rest is silent: two frames after a change there is nothing to
\* send, but for blocks of a ragged last row, which may differ in their tails.
RestIsSilent == enginePc = "handover" /\ still = 2 => Listed(analysis) \subseteq Ragged
=============================================================================
