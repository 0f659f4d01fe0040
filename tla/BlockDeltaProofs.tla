--------------------------- MODULE BlockDeltaProofs ---------------------------
(***************************************************************************)
(* The delta encoding of BlockEncoder is right for any number of blocks,   *)
(* geometries and contents: while engine and compress work on the same     *)
(* buffers, compress always reads the frame it was given, a clone repeats  *)
(* the right bytes, and a display with two buffers shows the frame.        *)
(***************************************************************************)
EXTENDS BlockDelta, TLAPS

-----------------------------------------------------------------------------
(* The inductive invariant *)

\* The engine has decided block b of the frame it is looking at.
Decided(b) == enginePc # "idle" /\ b \in active \ todo

SlotsDiffer(b) == buffIdx[analysis][b] # buffIdx[compress][b]

\* Only a first frame changes the geometry, and it is never dropped.
GeometryOK ==
    /\ enginePc = "idle" \/ ~first => active = DOMAIN kept
    /\ enginePc # "idle" => active # {}
    /\ enginePc = "handover" => todo = {}

\* What compress has encoded is what the screen refers to.
PayloadOK ==
    \A b \in DOMAIN kept :
        list[compress][b] = "clone" \/ (list[compress][b] = "raw" /\ b \notin work)
        => payload[b] = slot[b][buffIdx[compress][b]]

\* The screens refer to different slots of a block exactly if it was encoded
\* from scratch in the kept frame, until the engine decides it again.
UndecidedOK ==
    \A b \in DOMAIN kept : ~Decided(b) => (list[compress][b] = "raw" <=> SlotsDiffer(b))

\* What the engine has decided.
DecidedOK ==
    \A b \in Blocks : Decided(b) =>
        /\ slot[b][buffIdx[analysis][b]].pix = frame[b]
        /\ list[analysis][b] = "raw" <=> SlotsDiffer(b)
        /\ list[analysis][b] # "raw" => ~first /\ frame[b] = kept[b]
        /\ list[analysis][b] = "clone" => list[compress][b] = "raw"
        /\ list[analysis][b] = "none" => list[compress][b] # "raw"

\* A block that was not encoded from scratch is the same as in the frame before,
\* one that is not listed the same as in the frame before that as well.
DisplayOK ==
    /\ compressPc = "idle" => front = kept /\ work = {}
    /\ \A b \in DOMAIN kept :
          /\ list[compress][b] # "raw" =>
                IF compressPc = "encode" THEN b \in DOMAIN front /\ front[b] = kept[b]
                                         ELSE b \in DOMAIN back /\ back[b] = kept[b]
          /\ list[compress][b] = "none" => b \in DOMAIN back /\ back[b] = kept[b]

Delta == /\ TypeOK /\ GeometryOK /\ CompressedScreenIsKept /\ PayloadOK
         /\ UndecidedOK /\ DecidedOK /\ DisplayOK

\* The blocks of the encoder and of the kept frame are blocks of a geometry.
LEMMA BlocksOnly == ASSUME TypeOK
                    PROVE  /\ active \subseteq Blocks /\ DOMAIN kept \subseteq Blocks
                           /\ frame \in [active -> Pixels]
  BY BlockAssumption DEF TypeOK

-----------------------------------------------------------------------------
(* Initial states *)

\* The invariant holds when nothing was encoded yet.
LEMMA DeltaInit == Init => Delta
<1> SUFFICES ASSUME Init PROVE Delta
  OBVIOUS
<1> USE DEF Init
<1>1. NoPicture \in [{} -> Pixels]
  BY DEF NoPicture
<1>2. TypeOK
  <2>1. slot \in [Blocks -> [Slots -> Content]] /\ buffIdx \in [Screens -> [Blocks -> Slots]]
    BY DEF Screens, Slots
  <2>2. list \in [Screens -> [Blocks -> Qualities]] /\ analysis \in Screens
    BY DEF NothingListed, Qualities, Screens
  <2>3. payload \in [Blocks -> Content \cup {Unwritten}]
    OBVIOUS
  <2>4. active \in Geometries \cup {{}} /\ todo \subseteq active /\ frame \in [active -> Pixels]
    BY <1>1
  <2>5. \E g \in Geometries \cup {{}} : kept \in [g -> Pixels]
    BY <1>1
  <2>6. QED
    BY <2>1, <2>2, <2>3, <2>4, <2>5 DEF TypeOK
<1>3. GeometryOK
  BY DEF GeometryOK, NoPicture
<1>4. CompressedScreenIsKept /\ PayloadOK /\ UndecidedOK
  BY DEF CompressedScreenIsKept, PayloadOK, UndecidedOK, NoPicture
<1>5. DecidedOK
  BY DEF DecidedOK, Decided
<1>6. DisplayOK
  BY DEF DisplayOK, NoPicture
<1>7. QED
  BY <1>2, <1>3, <1>4, <1>5, <1>6 DEF Delta

-----------------------------------------------------------------------------
(* The engine decides a block *)

\* What a decision must satisfy: the new version goes to the free slot, or the
\* block is the same and the screen refers to the slot compress uses.
GoodDecision(b, i, q) ==
    /\ q \in Qualities
    /\ q = "raw" => i = FreeSlot(b)
    /\ q # "raw" => i = buffIdx[compress][b] /\ ~first /\ Same(b)
    /\ q = "clone" => SlotsDiffer(b)
    /\ q = "none" => ~SlotsDiffer(b)

\* One step of Place, with a good decision, keeps the invariant: it writes a
\* slot compress does not refer to.
LEMMA PlaceStep ==
    ASSUME Delta, NEW b \in todo, NEW i, NEW q, enginePc = "analyse",
           GoodDecision(b, i, q), Place(b, i, q)
    PROVE  Delta'
<1>1. /\ b \in Blocks /\ b \in active /\ frame[b] \in Pixels
      /\ compress \in Screens /\ analysis \in Screens /\ compress # analysis
      /\ buffIdx[compress][b] \in Slots /\ FreeSlot(b) \in Slots
      /\ FreeSlot(b) # buffIdx[compress][b]
  BY BlocksOnly DEF Delta, TypeOK, compress, FreeSlot, Other, Screens, Slots
<1>2. i \in Slots
  BY <1>1 DEF GoodDecision, Qualities
<1>3. Converted(b) \in Content
  BY <1>1, BlockAssumption DEF Converted, Content, Delta, TypeOK
<1>4. UNCHANGED <<analysis, compress, active, enginePc, frame, first, still,
                  compressPc, work, payload, kept, front, back>>
  BY DEF Place, compressVars, display, compress
<1>5. /\ slot' \in [Blocks -> [Slots -> Content]]
      /\ slot'[b][FreeSlot(b)] = Converted(b)
      /\ slot'[b][buffIdx[compress][b]] = slot[b][buffIdx[compress][b]]
      /\ \A c \in Blocks \ {b} : slot'[c] = slot[c]
  BY <1>1, <1>3 DEF Place, Delta, TypeOK
<1>6. /\ buffIdx' \in [Screens -> [Blocks -> Slots]]
      /\ buffIdx'[compress] = buffIdx[compress]
      /\ buffIdx'[analysis][b] = i
      /\ \A c \in Blocks \ {b} : buffIdx'[analysis][c] = buffIdx[analysis][c]
  BY <1>1, <1>2 DEF Place, Delta, TypeOK
<1>7. /\ list' \in [Screens -> [Blocks -> Qualities]]
      /\ list'[compress] = list[compress]
      /\ list'[analysis][b] = q
      /\ \A c \in Blocks \ {b} : list'[analysis][c] = list[analysis][c]
  BY <1>1 DEF Place, Delta, TypeOK, GoodDecision
<1>8. todo' = todo \ {b}
  BY DEF Place
<1>9. DOMAIN kept \subseteq Blocks
  BY BlocksOnly DEF Delta
<1>10. TypeOK'
  BY <1>4, <1>5, <1>6, <1>7, <1>8 DEF Delta, TypeOK, Listed, compress
<1>11. GeometryOK'
  BY <1>4, <1>8 DEF Delta, GeometryOK
<1>12. CompressedScreenIsKept'
  BY <1>4, <1>5, <1>6, <1>9 DEF Delta, CompressedScreenIsKept
<1>13. PayloadOK'
  BY <1>4, <1>5, <1>6, <1>7, <1>9 DEF Delta, PayloadOK
<1>14. Decided(b)' /\ ~Decided(b) /\ \A c \in Blocks \ {b} : Decided(c)' = Decided(c)
  BY <1>1, <1>4, <1>8 DEF Decided
<1>15. UndecidedOK'
  BY <1>4, <1>6, <1>7, <1>9, <1>14 DEF Delta, UndecidedOK, SlotsDiffer
<1>16. DecidedOK'
  <2> SUFFICES ASSUME NEW c \in Blocks, Decided(c)'
               PROVE  /\ slot'[c][buffIdx'[analysis][c]].pix = frame[c]
                      /\ list'[analysis][c] = "raw" <=> buffIdx'[analysis][c] # buffIdx'[compress][c]
                      /\ list'[analysis][c] # "raw" => ~first /\ frame[c] = kept[c]
                      /\ list'[analysis][c] = "clone" => list[compress][c] = "raw"
                      /\ list'[analysis][c] = "none" => list[compress][c] # "raw"
    BY <1>4, <1>7 DEF DecidedOK, SlotsDiffer
  <2>1. CASE c # b
    BY <2>1, <1>5, <1>6, <1>7, <1>14 DEF Delta, DecidedOK, SlotsDiffer
  <2>2. CASE c = b /\ q = "raw"
    BY <2>2, <1>1, <1>5, <1>6, <1>7 DEF GoodDecision, Converted
  <2>3. CASE c = b /\ q # "raw"
    <3>1. i = buffIdx[compress][b] /\ ~first /\ Same(b)
      BY <2>3 DEF GoodDecision
    <3>2. b \in DOMAIN kept
      BY <3>1, <1>1 DEF Delta, GeometryOK
    <3>3. slot[b][buffIdx[compress][b]].pix = frame[b] /\ frame[b] = kept[b]
      BY <3>1, <3>2 DEF Same, Converted, Delta, CompressedScreenIsKept
    <3>4. list[compress][b] = "raw" <=> SlotsDiffer(b)
      BY <3>2, <1>14 DEF Delta, UndecidedOK
    <3>5. q = "clone" \/ q = "none"
      BY <2>3 DEF GoodDecision, Qualities
    <3>6. QED
      BY <2>3, <3>1, <3>3, <3>4, <3>5, <1>5, <1>6, <1>7 DEF GoodDecision
  <2>4. QED
    BY <2>1, <2>2, <2>3
<1>17. DisplayOK'
  BY <1>4, <1>7, <1>9 DEF Delta, DisplayOK
<1>18. QED
  BY <1>10, <1>11, <1>12, <1>13, <1>15, <1>16, <1>17 DEF Delta

-----------------------------------------------------------------------------
(* The steps *)

\* UpdateFrameBufferBlock and CheckFrameBufferBlock make good decisions.
LEMMA DecisionStep ==
    ASSUME Delta, NEW b \in Blocks, UpdateBlock(b) \/ SameBlock(b) \/ ChangedBlock(b)
    PROVE  Delta'
<1>1. b \in todo /\ enginePc = "analyse"
  BY DEF UpdateBlock, SameBlock, ChangedBlock
<1>2. CASE UpdateBlock(b) \/ ChangedBlock(b)
  <2>1. Place(b, FreeSlot(b), "raw")
    BY <1>2 DEF UpdateBlock, ChangedBlock
  <2>2. GoodDecision(b, FreeSlot(b), "raw")
    BY DEF GoodDecision, Qualities
  <2>3. QED
    BY <1>1, <2>1, <2>2, PlaceStep
<1>3. CASE SameBlock(b)
  <2> DEFINE q == IF buffIdx[compress][b] # buffIdx[analysis][b] THEN "clone" ELSE "none"
  <2>1. Place(b, buffIdx[compress][b], q)
    BY <1>3 DEF SameBlock
  <2>2. GoodDecision(b, buffIdx[compress][b], q)
    BY <1>3 DEF SameBlock, GoodDecision, Qualities, SlotsDiffer
  <2> HIDE DEF q
  <2>3. QED
    BY <1>1, <2>1, <2>2, PlaceStep
<1>4. QED
  BY <1>2, <1>3

\* A new frame: nothing is decided, the screen of compress stays.
LEMMA BeginStep ==
    ASSUME Delta, NEW g \in Geometries, NEW f \in [g -> Pixels], NEW fst \in BOOLEAN,
           BeginAnalysis(g, f, fst)
    PROVE  Delta'
<1> USE DEF BeginAnalysis
<1>1. UNCHANGED <<analysis, compress, slot, buffIdx, compressPc, work, payload, kept,
                  front, back>>
  BY DEF compressVars, display, compress
<1>2. compress \in Screens /\ compress # analysis /\ analysis \in Screens
  BY DEF Delta, TypeOK, compress, Other, Screens
<1>3. list' \in [Screens -> [Blocks -> Qualities]] /\ list'[compress] = list[compress]
  BY <1>2 DEF Delta, TypeOK, NothingListed, Qualities
<1>4. g \subseteq Blocks /\ g # {}
  BY BlockAssumption
<1>5. TypeOK'
  BY <1>1, <1>3, <1>4 DEF Delta, TypeOK, Listed, compress
<1>6. GeometryOK'
  BY <1>1, <1>4 DEF Delta, GeometryOK
<1>7. CompressedScreenIsKept' /\ PayloadOK'
  BY <1>1, <1>3 DEF Delta, CompressedScreenIsKept, PayloadOK
<1>8. \A b : ~Decided(b)' /\ ~Decided(b)
  BY DEF Decided
<1>9. UndecidedOK' /\ DecidedOK'
  BY <1>1, <1>3, <1>8 DEF Delta, UndecidedOK, DecidedOK, SlotsDiffer
<1>10. DisplayOK'
  BY <1>1, <1>3 DEF Delta, DisplayOK
<1>11. QED
  BY <1>5, <1>6, <1>7, <1>9, <1>10 DEF Delta

\* A frame without a block to encode refers to the same slots as the kept one.
LEMMA EndStep == ASSUME Delta, EndAnalysis PROVE Delta'
<1> USE DEF EndAnalysis
<1>1. UNCHANGED <<analysis, compress, slot, screens, active, todo, frame, first, still,
                  compressPc, work, payload, kept, front, back>>
  BY DEF compressVars, display, compress
<1>2. \A b \in active : Decided(b) /\ b \in Blocks
  BY BlocksOnly DEF Decided, Delta, TypeOK
<1>3. TypeOK'
  BY <1>1 DEF Delta, TypeOK, Listed, compress, screens
<1>4. CASE Listed(analysis) = {}
  <2>1. \A b \in Blocks : list[analysis][b] = "none"
    BY <1>4 DEF Listed
  <2>2. ~first /\ active = DOMAIN kept
    <3>1. PICK b \in active : TRUE
      BY DEF Delta, GeometryOK
    <3>2. list[analysis][b] # "raw" => ~first
      BY <1>2 DEF Delta, DecidedOK
    <3>3. QED
      BY <1>2, <2>1, <3>2 DEF Delta, GeometryOK
  <2>3. enginePc' = "idle"
    BY <1>4
  <2>4. GeometryOK'
    BY <1>1, <2>2, <2>3 DEF GeometryOK
  <2>5. \A b \in DOMAIN kept : list[compress][b] # "raw" /\ ~SlotsDiffer(b)
    BY <1>2, <2>1, <2>2 DEF Delta, DecidedOK
  <2>6. UndecidedOK' /\ DecidedOK'
    BY <1>1, <2>3, <2>5 DEF UndecidedOK, DecidedOK, Decided, SlotsDiffer, screens
  <2>7. QED
    BY <1>1, <1>3, <2>4, <2>6
    DEF Delta, CompressedScreenIsKept, PayloadOK, DisplayOK, screens
<1>5. CASE Listed(analysis) # {}
  <2>1. enginePc' = "handover"
    BY <1>5
  <2>2. GeometryOK'
    BY <1>1, <2>1 DEF Delta, GeometryOK
  <2>3. UndecidedOK' /\ DecidedOK'
    BY <1>1, <2>1 DEF Delta, UndecidedOK, DecidedOK, Decided, SlotsDiffer, screens
  <2>4. QED
    BY <1>1, <1>3, <2>2, <2>3
    DEF Delta, CompressedScreenIsKept, PayloadOK, DisplayOK, screens
<1>6. QED
  BY <1>4, <1>5

\* The screens are swapped while compress is idle: every block is decided, so
\* what was known of the analysed screen is now known of the compressed one.
LEMMA ToggleStep == ASSUME Delta, ToggleScreen PROVE Delta'
<1> USE DEF ToggleScreen
<1>1. /\ analysis' = compress /\ compress' = analysis
      /\ compress \in Screens /\ analysis \in Screens
  BY DEF Delta, TypeOK, compress, Other, Screens
<1>2. UNCHANGED <<slot, buffIdx, list, payload, active, todo, frame, first, front, back>>
  BY DEF screens, display
<1>3. /\ work = {} /\ front = kept /\ compressPc = "idle"
      /\ kept' = frame /\ DOMAIN kept' = active /\ active \subseteq Blocks
  BY BlocksOnly DEF Delta, TypeOK, DisplayOK
<1>4. \A b \in active : b \in Blocks /\ Decided(b)
  BY BlocksOnly DEF Decided, Delta, TypeOK, GeometryOK
<1>5. \A b \in active : list[analysis][b] # "raw" => b \in DOMAIN kept /\ frame[b] = kept[b]
  BY <1>4 DEF Delta, DecidedOK, GeometryOK
<1>6. TypeOK'
  BY <1>1, <1>2, <1>3 DEF Delta, TypeOK, Listed
<1>7. GeometryOK'
  BY <1>2, <1>3 DEF GeometryOK
<1>8. CompressedScreenIsKept'
  BY <1>1, <1>2, <1>3, <1>4 DEF Delta, CompressedScreenIsKept, DecidedOK
<1>9. PayloadOK'
  <2> SUFFICES ASSUME NEW b \in active,
                      list[analysis][b] = "clone" \/ (list[analysis][b] = "raw" /\ b \notin work')
               PROVE  payload[b] = slot[b][buffIdx[analysis][b]]
    BY <1>1, <1>2, <1>3 DEF PayloadOK
  <2>1. list[analysis][b] = "clone"
    BY <1>3 DEF Listed
  <2>2. b \in DOMAIN kept /\ list[compress][b] = "raw" /\ ~SlotsDiffer(b)
    BY <2>1, <1>4, <1>5 DEF Delta, DecidedOK
  <2>3. QED
    BY <2>2, <1>3 DEF Delta, PayloadOK, SlotsDiffer
<1>10. UndecidedOK'
  BY <1>1, <1>2, <1>3, <1>4 DEF Delta, UndecidedOK, DecidedOK, SlotsDiffer
<1>11. DecidedOK'
  BY DEF DecidedOK, Decided
<1>12. DisplayOK'
  <2> SUFFICES ASSUME NEW b \in active
               PROVE  /\ list[analysis][b] # "raw" => b \in DOMAIN front /\ front[b] = frame[b]
                      /\ list[analysis][b] = "none" => b \in DOMAIN back /\ back[b] = frame[b]
    BY <1>1, <1>2, <1>3 DEF DisplayOK
  <2>1. list[analysis][b] # "raw" => b \in DOMAIN front /\ front[b] = frame[b]
    BY <1>3, <1>5
  <2>2. ASSUME list[analysis][b] = "none"
        PROVE  b \in DOMAIN back /\ back[b] = frame[b]
    <3>1. list[compress][b] # "raw" /\ b \in DOMAIN kept /\ frame[b] = kept[b]
      BY <2>2, <1>4, <1>5 DEF Delta, DecidedOK
    <3>2. QED
      BY <3>1, <1>3 DEF Delta, DisplayOK
  <2>3. QED
    BY <2>1, <2>2
<1>13. QED
  BY <1>6, <1>7, <1>8, <1>9, <1>10, <1>11, <1>12 DEF Delta

\* compress, or one of its units, encodes a block.
LEMMA EncodeStep == ASSUME Delta, NEW b \in Blocks, EncodeBlock(b) PROVE Delta'
<1> USE DEF EncodeBlock
<1>1. UNCHANGED <<slot, buffIdx, list, analysis, compress, active, enginePc, todo, frame,
                  first, still, compressPc, kept, front, back>>
  BY DEF screens, engineVars, display, compress
<1>2. compress \in Screens
  BY DEF Delta, TypeOK, compress, Other, Screens
<1>3. DOMAIN kept \subseteq Blocks
  BY BlocksOnly DEF Delta
<1>4. slot[b][buffIdx[compress][b]] \in Content
  BY <1>2 DEF Delta, TypeOK
<1>5. TypeOK'
  BY <1>1, <1>4 DEF Delta, TypeOK, Listed
<1>6. PayloadOK'
  BY <1>1, <1>3 DEF Delta, TypeOK, PayloadOK
<1>7. GeometryOK' /\ CompressedScreenIsKept' /\ UndecidedOK'
  BY <1>1 DEF Delta, GeometryOK, CompressedScreenIsKept, UndecidedOK, SlotsDiffer, Decided
<1>8. DecidedOK'
  BY <1>1 DEF Delta, DecidedOK, SlotsDiffer, Decided
<1>9. DisplayOK'
  BY <1>1 DEF Delta, DisplayOK
<1>10. QED
  BY <1>5, <1>6, <1>7, <1>8, <1>9 DEF Delta

\* The display decodes the bitstream over the picture before last.
LEMMA SendStep == ASSUME Delta, SendBitstream PROVE Delta'
<1> USE DEF SendBitstream
<1>1. UNCHANGED <<slot, buffIdx, list, analysis, compress, active, enginePc, todo, frame,
                  first, still, work, payload, kept>>
  BY DEF screens, engineVars, compress
<1>2. DOMAIN kept \subseteq Blocks /\ compress \in Screens /\ work = {}
  BY BlocksOnly DEF Delta, TypeOK, compress, Other, Screens
<1>3. front' = kept
  <2>1. DOMAIN front' = DOMAIN kept
    OBVIOUS
  <2>2. ASSUME NEW b \in DOMAIN kept PROVE front'[b] = kept[b]
    <3>1. CASE b \in Listed(compress)
      <4>1. list[compress][b] = "raw" \/ list[compress][b] = "clone"
        BY <3>1, <1>2 DEF Listed, Delta, TypeOK, Qualities
      <4>2. payload[b] = slot[b][buffIdx[compress][b]]
        BY <4>1, <1>2 DEF Delta, PayloadOK
      <4>3. QED
        BY <3>1, <4>2 DEF Delta, CompressedScreenIsKept
    <3>2. CASE b \notin Listed(compress)
      <4>1. b \in DOMAIN back /\ back[b] = kept[b]
        BY <3>2, <1>2 DEF Listed, Delta, DisplayOK
      <4>2. QED
        BY <3>2, <4>1
    <3>3. QED
      BY <3>1, <3>2
  <2>3. kept = [b \in DOMAIN kept |-> kept[b]]
    BY DEF Delta, TypeOK
  <2>4. QED
    BY <2>1, <2>2, <2>3
<1>4. TypeOK'
  BY <1>1 DEF Delta, TypeOK, Listed
<1>5. GeometryOK' /\ CompressedScreenIsKept' /\ UndecidedOK' /\ PayloadOK'
  BY <1>1 DEF Delta, GeometryOK, CompressedScreenIsKept, UndecidedOK, PayloadOK,
              SlotsDiffer, Decided
<1>6. DecidedOK'
  BY <1>1 DEF Delta, DecidedOK, SlotsDiffer, Decided
<1>7. DisplayOK'
  BY <1>1, <1>2, <1>3 DEF Delta, DisplayOK
<1>8. QED
  BY <1>4, <1>5, <1>6, <1>7 DEF Delta

\* Every step keeps the invariant.
LEMMA DeltaStep == Delta /\ [Next]_vars => Delta'
<1> SUFFICES ASSUME Delta, [Next]_vars PROVE Delta'
  OBVIOUS
<1>1. CASE UNCHANGED vars
  BY <1>1 DEF vars, screens, engineVars, compressVars, display, Delta, TypeOK, GeometryOK,
     CompressedScreenIsKept, PayloadOK, UndecidedOK, DecidedOK, DisplayOK, Listed,
     SlotsDiffer, Decided, compress
<1>2. CASE Engine
  BY <1>2, BeginStep, DecisionStep, EndStep, ToggleStep DEF Engine
<1>3. CASE Compress
  BY <1>3, EncodeStep, SendStep DEF Compress
<1>4. QED
  BY <1>1, <1>2, <1>3 DEF Next

-----------------------------------------------------------------------------
(* The theorems *)

\* The invariant holds in every reachable state of the encoder.
THEOREM DeltaInvariant == Spec => []Delta
  BY DeltaInit, DeltaStep, PTL DEF Spec

\* The variables keep their types; compress only has listed blocks left to do.
THEOREM TypeCorrect == Spec => []TypeOK
<1>1. Delta => TypeOK
  BY DEF Delta
<1>2. QED
  BY <1>1, DeltaInvariant, PTL

\* The engine never disturbs the frame compress is reading, although it
\* converts the next one into the same buffer.
THEOREM ScreenIntact == Spec => []CompressedScreenIsKept
<1>1. Delta => CompressedScreenIsKept
  BY DEF Delta
<1>2. QED
  BY <1>1, DeltaInvariant, PTL

\* A block sent as CLONE has the payload of what it is to show.
THEOREM ClonesValid == Spec => []CloneIsValid
<1>1. Delta => CloneIsValid
  BY DEF Delta, PayloadOK, CloneIsValid
<1>2. QED
  BY <1>1, DeltaInvariant, PTL

\* Leaving out unchanged blocks, and repeating the ones that changed a frame
\* ago, is enough for a display with two buffers to show every frame as it is.
THEOREM DisplayCorrect == Spec => []DisplayShowsFrame
<1>1. Delta => DisplayShowsFrame
  BY DEF Delta, DisplayOK, DisplayShowsFrame
<1>2. QED
  BY <1>1, DeltaInvariant, PTL

-----------------------------------------------------------------------------
(* A desktop at rest.  A block of a whole row is written with the same tail *)
(* every time, so that slots of it compare equal when they show the same.   *)
(* The first frame that repeats the kept one lists nothing from scratch;    *)
(* the second finds nothing to repeat.                                      *)

Whole == Blocks \ Ragged
BlankTail == CHOOSE t \in Tails : TRUE

\* The slots the screens refer to have the tail of a conversion.
TailsOK ==
    /\ \A b \in DOMAIN kept \cap Whole : slot[b][buffIdx[compress][b]].tail = BlankTail
    /\ \A b \in Whole : Decided(b) => slot[b][buffIdx[analysis][b]].tail = BlankTail

\* What a frame that repeats the kept one finds and lists.
StillOK ==
    /\ (still >= 1 /\ enginePc = "idle") \/ still = 2 =>
         \A b \in DOMAIN kept \cap Whole : list[compress][b] # "raw"
    /\ still >= 1 /\ enginePc # "idle" =>
         /\ ~first /\ frame = kept
         /\ \A b \in Whole : Decided(b) => list[analysis][b] # "raw"

\* The list of a frame has no blocks but those decided for it.
ListedOK == enginePc # "idle" => \A b \in Listed(analysis) : Decided(b)

Rest == Delta /\ TailsOK /\ StillOK /\ ListedOK

\* There is no kept frame yet.
LEMMA RestInit == Init => Rest
<1> SUFFICES ASSUME Init PROVE Rest
  OBVIOUS
<1>1. TailsOK /\ StillOK /\ ListedOK
  BY DEF Init, TailsOK, StillOK, ListedOK, Decided, NoPicture
<1>2. QED
  BY <1>1, DeltaInit DEF Rest

\* A decision writes a blank tail and, for a still frame, takes a block of a
\* whole row for the same.
LEMMA RestPlaceStep ==
    ASSUME Rest, NEW b \in Blocks, UpdateBlock(b) \/ SameBlock(b) \/ ChangedBlock(b)
    PROVE  TailsOK' /\ StillOK'
<1>1. /\ b \in todo /\ enginePc = "analyse" /\ b \in active /\ frame[b] \in Pixels
      /\ compress \in Screens /\ analysis \in Screens /\ compress # analysis
      /\ buffIdx[compress][b] \in Slots /\ FreeSlot(b) \in Slots
      /\ FreeSlot(b) # buffIdx[compress][b] /\ DOMAIN kept \subseteq Blocks
  BY BlocksOnly
  DEF UpdateBlock, SameBlock, ChangedBlock, Rest, Delta, TypeOK, compress, FreeSlot, Other,
      Screens, Slots
<1>2. PICK i \in Slots, q \in Qualities :
        /\ Place(b, i, q)
        /\ q = "raw" => i = FreeSlot(b) /\ (first \/ ~Same(b))
        /\ q # "raw" => i = buffIdx[compress][b] /\ Same(b)
  BY <1>1 DEF UpdateBlock, SameBlock, ChangedBlock, Qualities
<1>3. UNCHANGED <<analysis, compress, active, enginePc, frame, first, still, kept>>
  BY <1>2 DEF Place, compressVars, display, compress
<1>4. /\ slot'[b][FreeSlot(b)] = Converted(b)
      /\ slot'[b][buffIdx[compress][b]] = slot[b][buffIdx[compress][b]]
      /\ \A c \in Blocks \ {b} : slot'[c] = slot[c]
  BY <1>1, <1>2 DEF Place, Rest, Delta, TypeOK
<1>5. /\ buffIdx'[compress] = buffIdx[compress]
      /\ buffIdx'[analysis][b] = i
      /\ \A c \in Blocks \ {b} : buffIdx'[analysis][c] = buffIdx[analysis][c]
  BY <1>1, <1>2 DEF Place, Rest, Delta, TypeOK
<1>6. /\ list'[compress] = list[compress]
      /\ list'[analysis][b] = q
      /\ \A c \in Blocks \ {b} : list'[analysis][c] = list[analysis][c]
  BY <1>1, <1>2 DEF Place, Rest, Delta, TypeOK
<1>7. \A c \in Blocks \ {b} : Decided(c)' = Decided(c)
  BY <1>2, <1>3 DEF Decided, Place
<1>8. b \in Whole => Converted(b).tail = BlankTail
  BY DEF Converted, Whole, BlankTail
<1>9. TailsOK'
  <2>1. \A c \in DOMAIN kept \cap Whole :
          slot'[c][buffIdx'[compress][c]].tail = BlankTail
    BY <1>1, <1>4, <1>5 DEF Rest, TailsOK
  <2>2. b \in Whole => slot'[b][buffIdx'[analysis][b]].tail = BlankTail
    <3>1. CASE q = "raw"
      BY <3>1, <1>2, <1>4, <1>5, <1>8
    <3>2. CASE q # "raw"
      BY <3>2, <1>2, <1>4, <1>5, <1>8 DEF Same
    <3>3. QED
      BY <3>1, <3>2
  <2>3. \A c \in Whole \ {b} : Decided(c)' => slot'[c][buffIdx'[analysis][c]].tail = BlankTail
    BY <1>4, <1>5, <1>7 DEF Rest, TailsOK, Whole
  <2>4. QED
    BY <2>1, <2>2, <2>3, <1>3 DEF TailsOK
<1>10. StillOK'
  <2>1. ASSUME still >= 1, b \in Whole PROVE q # "raw"
    <3>1. ~first /\ frame = kept /\ b \in DOMAIN kept
      BY <2>1, <1>1 DEF Rest, StillOK, Delta, TypeOK
    <3>2. slot[b][buffIdx[compress][b]] \in Content
      BY <1>1 DEF Rest, Delta, TypeOK
    <3>3. /\ slot[b][buffIdx[compress][b]].tail = BlankTail
          /\ slot[b][buffIdx[compress][b]].pix = frame[b]
      BY <2>1, <3>1 DEF Rest, TailsOK, Delta, CompressedScreenIsKept
    <3>4. Converted(b) = [pix |-> frame[b], tail |-> BlankTail]
      BY <2>1 DEF Converted, Whole, BlankTail
    <3>5. Same(b)
      BY <3>2, <3>3, <3>4 DEF Same, Content
    <3>6. QED
      BY <1>2, <3>1, <3>5
  <2>2. still >= 1 => ~first /\ frame = kept
                      /\ \A c \in Whole : Decided(c)' => list'[analysis][c] # "raw"
    BY <1>1, <1>6, <1>7, <2>1 DEF Rest, StillOK, Whole
  <2>3. still = 2 => \A c \in DOMAIN kept \cap Whole : list'[compress][c] # "raw"
    BY <1>6 DEF Rest, StillOK
  <2>4. QED
    BY <2>2, <2>3, <1>1, <1>3 DEF StillOK
<1>11. QED
  BY <1>9, <1>10

\* A second still frame comes after one that left nothing encoded from scratch.
LEMMA RestBeginStep ==
    ASSUME Rest, NEW g \in Geometries, NEW f \in [g -> Pixels], NEW fst \in BOOLEAN,
           BeginAnalysis(g, f, fst)
    PROVE  TailsOK' /\ StillOK'
<1> USE DEF BeginAnalysis
<1>1. UNCHANGED <<analysis, compress, slot, buffIdx, kept>>
  BY DEF compressVars, display, compress
<1>2. list'[compress] = list[compress]
  BY DEF Rest, Delta, TypeOK, compress, Other, Screens
<1>3. \A b : ~Decided(b)'
  BY DEF Decided
<1>4. TailsOK'
  BY <1>1, <1>3 DEF Rest, TailsOK
<1>5. still \in 0..2
  BY DEF Rest, Delta, TypeOK
<1>6. still' >= 1 => ~first' /\ frame' = kept'
  BY <1>1
<1>7. still' = 2 => still >= 1
  BY <1>5
<1>8. StillOK'
  BY <1>1, <1>2, <1>3, <1>5, <1>6, <1>7 DEF Rest, StillOK
<1>9. QED
  BY <1>4, <1>8

\* A frame is dropped when nothing is listed: nothing was encoded from scratch
\* in the kept frame either.
LEMMA RestEndStep == ASSUME Rest, EndAnalysis PROVE TailsOK' /\ StillOK'
<1> USE DEF EndAnalysis
<1>1. UNCHANGED <<analysis, compress, slot, screens, active, todo, frame, first, still, kept>>
  BY DEF compressVars, display, compress
<1>2. \A b : Decided(b)' => Decided(b)
  BY <1>1 DEF Decided
<1>3. TailsOK'
  BY <1>1, <1>2 DEF Rest, TailsOK, screens
<1>4. list' = list /\ kept' = kept /\ still' = still /\ still \in 0..2 /\ enginePc = "analyse"
  BY <1>1 DEF screens, Rest, Delta, TypeOK
<1>5. ASSUME still >= 1, enginePc' = "idle"
      PROVE  \A b \in DOMAIN kept \cap Whole : list[compress][b] # "raw"
  <2>1. \A b \in Blocks : list[analysis][b] = "none"
    BY <1>5 DEF Listed
  <2>2. DOMAIN kept = active /\ active \subseteq Blocks
    <3>1. ~first
      BY <1>4, <1>5 DEF Rest, StillOK
    <3>2. QED
      BY <3>1, BlocksOnly DEF Rest, Delta, GeometryOK
  <2>3. \A b \in active : Decided(b)
    BY <1>4 DEF Decided
  <2>4. QED
    BY <2>1, <2>2, <2>3 DEF Rest, Delta, DecidedOK
<1>6. (still >= 1 /\ enginePc' = "idle") \/ still = 2 =>
        \A b \in DOMAIN kept \cap Whole : list[compress][b] # "raw"
  BY <1>5 DEF Rest, StillOK
<1>7. still >= 1 =>
        /\ ~first /\ frame = kept
        /\ \A b \in Whole : Decided(b) => list[analysis][b] # "raw"
  BY <1>4 DEF Rest, StillOK
<1>8. StillOK'
  BY <1>1, <1>2, <1>4, <1>6, <1>7 DEF StillOK
<1>9. QED
  BY <1>3, <1>8

\* The screens are toggled: what was decided is now what compress works on.
LEMMA RestToggleStep == ASSUME Rest, ToggleScreen PROVE TailsOK' /\ StillOK'
<1> USE DEF ToggleScreen
<1>1. /\ analysis' = compress /\ compress' = analysis
      /\ kept' = frame /\ DOMAIN kept' = active /\ active \subseteq Blocks
  BY BlocksOnly DEF Rest, Delta, TypeOK, compress, Other, Screens
<1>2. UNCHANGED <<slot, buffIdx, list, still>>
  BY DEF screens
<1>3. \A b \in active : Decided(b)
  BY DEF Decided, Rest, Delta, GeometryOK
<1>4. \A b : ~Decided(b)'
  BY DEF Decided
<1>5. TailsOK'
  BY <1>1, <1>2, <1>3, <1>4 DEF Rest, TailsOK, Whole
<1>6. StillOK'
  BY <1>1, <1>2, <1>3, <1>4 DEF Rest, StillOK, Whole, Delta, TypeOK
<1>7. QED
  BY <1>5, <1>6

\* A new frame clears the list of its screen.
LEMMA ListedStep == Rest /\ [Next]_vars => ListedOK'
<1> SUFFICES ASSUME Rest, [Next]_vars PROVE ListedOK'
  OBVIOUS
<1> USE DEF ListedOK, Listed, Decided
<1>1. /\ analysis \in Screens /\ list \in [Screens -> [Blocks -> Qualities]]
      /\ active \subseteq Blocks
  BY BlocksOnly DEF Rest, Delta, TypeOK
<1>2. ASSUME NEW g \in Geometries, NEW f \in [g -> Pixels], NEW fst \in BOOLEAN,
             BeginAnalysis(g, f, fst)
      PROVE  ListedOK'
  BY <1>1, <1>2 DEF BeginAnalysis, NothingListed
<1>3. ASSUME NEW b \in Blocks, UpdateBlock(b) \/ SameBlock(b) \/ ChangedBlock(b)
      PROVE  ListedOK'
  <2>1. PICK i, q : Place(b, i, q)
    BY <1>3 DEF UpdateBlock, SameBlock, ChangedBlock
  <2>2. b \in active /\ UNCHANGED <<analysis, active, enginePc>> /\ todo' = todo \ {b}
    BY <1>3, <2>1 DEF UpdateBlock, SameBlock, ChangedBlock, Place, Rest, Delta, TypeOK
  <2>3. \A c \in Blocks \ {b} : list'[analysis][c] = list[analysis][c]
    BY <1>1, <2>1 DEF Place
  <2>4. QED
    BY <2>2, <2>3 DEF Rest
<1>4. CASE EndAnalysis \/ ToggleScreen
  BY <1>4 DEF EndAnalysis, ToggleScreen, screens, Rest
<1>5. CASE UNCHANGED <<screens, analysis, engineVars>>
  BY <1>5 DEF screens, engineVars, Rest
<1>6. QED
  BY <1>2, <1>3, <1>4, <1>5
  DEF Next, Engine, Compress, EncodeBlock, SendBitstream, vars

\* Every step keeps the invariant.
LEMMA RestStep == Rest /\ [Next]_vars => Rest'
<1> SUFFICES ASSUME Rest, [Next]_vars PROVE Rest'
  OBVIOUS
<1>1. Delta'
  BY DeltaStep DEF Rest
<1>2. CASE Engine
  <2>1. ListedOK'
    BY ListedStep
  <2>2. QED
    BY <1>1, <1>2, <2>1, RestBeginStep, RestPlaceStep, RestEndStep, RestToggleStep
    DEF Engine, Rest
<1>3. CASE UNCHANGED <<slot, screens, analysis, engineVars, kept>>
  BY <1>1, <1>3, ListedStep
  DEF Rest, TailsOK, StillOK, Decided, compress, screens, engineVars
<1>4. QED
  BY <1>2, <1>3 DEF Next, Compress, EncodeBlock, SendBitstream, vars

\* The invariant of a desktop at rest, in every reachable state.
LEMMA RestInvariant == Spec => []Rest
  BY RestInit, RestStep, PTL DEF Spec

\* Two frames after the last change the engine finds nothing to send, except in
\* a last row that sticks out of the desktop.
THEOREM SilentAtRest == Spec => []RestIsSilent
<1>1. ASSUME Rest, enginePc = "handover", still = 2, NEW b \in Listed(analysis), b \in Whole
      PROVE  FALSE
  <2>1. list[analysis][b] \in Qualities /\ list[analysis][b] # "none"
    BY <1>1 DEF Rest, Delta, TypeOK, Listed
  <2>2. Decided(b) /\ ~first /\ frame = kept
    BY <1>1 DEF Rest, ListedOK, StillOK
  <2>3. b \in DOMAIN kept
    <3>1. DOMAIN frame = active
      BY <1>1, BlocksOnly DEF Rest, Delta
    <3>2. QED
      BY <2>2, <3>1 DEF Decided
  <2>4. list[analysis][b] # "raw" /\ list[compress][b] # "raw"
    BY <1>1, <2>2, <2>3 DEF Rest, StillOK
  <2>5. list[analysis][b] # "clone"
    BY <1>1, <2>2, <2>4 DEF Rest, Delta, DecidedOK, Whole
  <2>6. QED
    BY <2>1, <2>4, <2>5 DEF Qualities
<1>2. Rest => RestIsSilent
  BY <1>1 DEF RestIsSilent, Whole, Listed
<1>3. QED
  BY <1>2, RestInvariant, PTL
=============================================================================
