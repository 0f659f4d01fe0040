------------------------ MODULE EncodePipelineProofs ------------------------
(***************************************************************************)
(* The hand-over of EncodePipeline is correct for any number of frames,    *)
(* resolutions and task addresses, whatever transfers fail.                *)
(*                                                                         *)
(* TaskOwnership is not inductive alone: that compress may overwrite       *)
(* m_TransmitTask follows from the place of the token (HandoverTokens),    *)
(* and that a stage's pointer is not NULL from TypeOK.  StreamShowsFrame   *)
(* needs both: the screen is toggled only while nobody owns the compress   *)
(* pointer.  Their conjunction Handover is inductive.  Each lemma below    *)
(* shows that one conjunct survives a step from a state in which all hold, *)
(* one step per thread and, under it, one per action.                      *)
(***************************************************************************)
EXTENDS EncodePipeline, SequenceTheorems, TLAPS

Handover == /\ TypeOK /\ HandoverTokens /\ TaskOwnership
            /\ PendingIsAnnounced /\ SyncIsComing /\ StreamShowsFrame

\* It holds before the threads start.
LEMMA HandoverInit == Init => Handover
<1> SUFFICES ASSUME Init PROVE Handover
  OBVIOUS
<1>1. TypeOK
  BY ConstantsAssumption
  DEF Init, TypeOK, Task, Blank, AnyFrame, NoFrame
<1>2. /\ HandoverTokens /\ TaskOwnership
      /\ PendingIsAnnounced /\ SyncIsComing /\ StreamShowsFrame
  BY DEF Init, HandoverTokens, ExactlyOne, TaskOwnership, PendingIsAnnounced,
         SyncIsComing, StreamShowsFrame, EngineOwns, CompressOwns, TransmitOwns
<1> QED
  BY <1>1, <1>2 DEF Handover

\* No step leaves the types; a deleted task is never the waiting one.
LEMMA TypeStep ==
    Handover /\ [Next]_vars => TypeOK'
<1> SUFFICES ASSUME Handover, [Next]_vars PROVE TypeOK'
  OBVIOUS
<1> USE ConstantsAssumption DEF Handover, TypeOK, TaskOwnership,
       EngineOwns, CompressOwns, TransmitOwns, SetEvent, WaitEvent, Delete, Events, Task, Blank,
       Frame, AnyFrame, MainGoes, EngineGoes, CompressGoes,
       TransmitGoes, data, pcs, pointers, memory, flags, screens, device
<1>1. CASE Main
  <2>1. ASSUME NEW f \in Frame, StartEncode(f) PROVE TypeOK'
    <3>1. heap' \in [Tasks -> Task]
      <4>1. f.mode \in Modes /\ f.img \in Images
        OBVIOUS
      <4>2. CASE SubmitNew(f)
        BY <4>1, <4>2 DEF SubmitNew
      <4>3. CASE Resubmit(f)
        <5>1. newTask \in Tasks
          BY <4>3 DEF Resubmit
        <5>2. heap[newTask] \in Task
          BY <5>1
        <5>3. [[[heap[newTask] EXCEPT !.mode = f.mode] EXCEPT !.img = f.img]
               EXCEPT !.first = IF f.mode # heap[newTask].mode
                                THEN mFirst ELSE heap[newTask].first] \in Task
          BY <4>1, <5>2
        <5> QED
          BY <4>3, <5>1, <5>3 DEF Resubmit
      <4> QED
        BY <2>1, <4>2, <4>3 DEF StartEncode
    <3>2. live' \subseteq Tasks /\ newTask' \in live' \cup {NoTask}
      BY <2>1 DEF StartEncode, SubmitNew, Resubmit
    <3> QED
      BY <2>1, <3>1, <3>2 DEF StartEncode
  <2>2. CASE SendEvent
    BY <2>2 DEF SendEvent
  <2>3. CASE WaitSync
    BY <2>3 DEF WaitSync
  <2> QED
    BY <1>1, <2>1, <2>2, <2>3 DEF Main
<1>2. CASE Engine
  <2>1. CASE EngineBoot
    BY <2>1 DEF EngineBoot
  <2>2. CASE EngineWake
    BY <2>2 DEF EngineWake
  <2>3. CASE TakeTask
    BY <2>3 DEF TakeTask
  <2>4. CASE CheckGeometry
    BY <2>4 DEF CheckGeometry
  <2>5. CASE SetGeometry
    <3>1. analysisTask \in Tasks
      BY <2>5 DEF SetGeometry
    <3>2. heap' \in [Tasks -> Task]
      <4>1. heap[analysisTask] \in Task
        BY <3>1
      <4>2. [[heap[analysisTask] EXCEPT !.changed = TRUE]
             EXCEPT !.first = TRUE] \in Task
        BY <4>1
      <4> QED
        BY <2>5, <3>1, <4>2 DEF SetGeometry
    <3>3. mGeometry' \in Modes \cup {NoMode}
      BY <2>5, <3>1 DEF SetGeometry
    <3> QED
      BY <2>5, <3>2, <3>3 DEF SetGeometry
  <2>6. CASE SetFirst
    BY <2>6 DEF SetFirst
  <2>7. CASE DropFrame
    BY <2>7 DEF DropFrame
  <2>8. CASE KeepFrame
    BY <2>8 DEF KeepFrame
  <2>9. CASE HandToCompress
    <3>1. kept' \in AnyFrame
      BY <2>9 DEF HandToCompress, FrameOf
    <3>2. settled' \in BOOLEAN
      BY <2>9 DEF HandToCompress, Repeats
    <3> QED
      BY <2>9, <3>1, <3>2 DEF HandToCompress
  <2>10. CASE KickCompress
    BY <2>10 DEF KickCompress
  <2>11. CASE SignalSync
    BY <2>11 DEF SignalSync
  <2> QED
    BY <1>2, <2>1, <2>2, <2>3, <2>4, <2>5, <2>6, <2>7, <2>8, <2>9, <2>10, <2>11 DEF Engine
<1>3. CASE Compressor
  <2>1. CASE CompressBoot
    BY <2>1 DEF CompressBoot
  <2>2. CASE CompressStart
    BY <2>2 DEF CompressStart
  <2>3. CASE Compress
    BY <2>3 DEF Compress
  <2>4. CASE HandToTransmit
    BY <2>4 DEF HandToTransmit
  <2>5. CASE ReleaseCompress
    BY <2>5 DEF ReleaseCompress
  <2>6. CASE KickTransmit
    BY <2>6 DEF KickTransmit
  <2> QED
    BY <1>3, <2>1, <2>2, <2>3, <2>4, <2>5, <2>6 DEF Compressor
<1>4. CASE Transmitter
  <2>1. CASE TransmitBoot
    BY <2>1 DEF TransmitBoot
  <2>2. CASE TransmitStart
    BY <2>2 DEF TransmitStart
  <2>3. CASE Configure
    BY <2>3 DEF Configure
  <2>4. CASE WriteOk
    BY <2>4 DEF WriteOk, StreamOf
  <2>5. CASE WriteFails
    <3>1. sent' \in AnyFrame /\ inStep' \in BOOLEAN
      BY <2>5 DEF WriteFails, StreamOf
    <3> QED
      BY <2>5, <3>1 DEF WriteFails, StreamOf
  <2>6. CASE ClearFirst
    <3>1. mFirst' \in BOOLEAN
      BY <2>6 DEF ClearFirst
    <3> QED
      BY <2>6, <3>1 DEF ClearFirst
  <2>7. CASE RestoreFirst
    BY <2>7 DEF RestoreFirst
  <2>8. CASE ForgetGeometry
    BY <2>8 DEF ForgetGeometry
  <2>9. CASE FreeTask
    BY <2>9 DEF FreeTask
  <2>10. CASE TransmitReady
    BY <2>10 DEF TransmitReady
  <2> QED
    BY <1>4, <2>1, <2>2, <2>3, <2>4, <2>5, <2>6, <2>7, <2>8, <2>9, <2>10 DEF Transmitter
<1>5. CASE UNCHANGED vars
  BY <1>5 DEF vars
<1> QED
  BY <1>1, <1>2, <1>3, <1>4, <1>5 DEF Next

\* A token moves from one place to another in one step.
LEMMA TokensStep ==
    Handover /\ [Next]_vars => HandoverTokens'
<1> SUFFICES ASSUME Handover, [Next]_vars PROVE HandoverTokens'
  OBVIOUS
<1> USE ConstantsAssumption DEF Handover, HandoverTokens, ExactlyOne, TypeOK,
       SetEvent, WaitEvent, MainGoes, EngineGoes, CompressGoes,
       TransmitGoes, data, pcs, pointers, memory, flags, screens, device
<1>1. CASE Main
  <2>1. ASSUME NEW f \in Frame, StartEncode(f) PROVE HandoverTokens'
    BY <2>1 DEF StartEncode, SubmitNew, Resubmit
  <2>2. CASE SendEvent
    BY <2>2 DEF SendEvent
  <2>3. CASE WaitSync
    BY <2>3 DEF WaitSync
  <2> QED
    BY <1>1, <2>1, <2>2, <2>3 DEF Main
<1>2. CASE Engine
  <2>1. CASE EngineBoot
    BY <2>1 DEF EngineBoot
  <2>2. CASE EngineWake
    BY <2>2 DEF EngineWake
  <2>3. CASE TakeTask
    BY <2>3 DEF TakeTask
  <2>4. CASE CheckGeometry
    BY <2>4 DEF CheckGeometry
  <2>5. CASE SetGeometry
    BY <2>5 DEF SetGeometry
  <2>6. CASE SetFirst
    BY <2>6 DEF SetFirst
  <2>7. CASE DropFrame
    BY <2>7 DEF DropFrame
  <2>8. CASE KeepFrame
    BY <2>8 DEF KeepFrame
  <2>9. CASE HandToCompress
    BY <2>9 DEF HandToCompress
  <2>10. CASE KickCompress
    BY <2>10 DEF KickCompress
  <2>11. CASE SignalSync
    BY <2>11 DEF SignalSync
  <2> QED
    BY <1>2, <2>1, <2>2, <2>3, <2>4, <2>5, <2>6, <2>7, <2>8, <2>9, <2>10, <2>11 DEF Engine
<1>3. CASE Compressor
  <2>1. CASE CompressBoot
    BY <2>1 DEF CompressBoot
  <2>2. CASE CompressStart
    BY <2>2 DEF CompressStart
  <2>3. CASE Compress
    BY <2>3 DEF Compress
  <2>4. CASE HandToTransmit
    BY <2>4 DEF HandToTransmit
  <2>5. CASE ReleaseCompress
    BY <2>5 DEF ReleaseCompress
  <2>6. CASE KickTransmit
    BY <2>6 DEF KickTransmit
  <2> QED
    BY <1>3, <2>1, <2>2, <2>3, <2>4, <2>5, <2>6 DEF Compressor
<1>4. CASE Transmitter
  <2>1. CASE TransmitBoot
    BY <2>1 DEF TransmitBoot
  <2>2. CASE TransmitStart
    BY <2>2 DEF TransmitStart
  <2>3. CASE Configure
    BY <2>3 DEF Configure
  <2>4. CASE WriteOk
    BY <2>4 DEF WriteOk
  <2>5. CASE WriteFails
    BY <2>5 DEF WriteFails
  <2>6. CASE ClearFirst
    BY <2>6 DEF ClearFirst
  <2>7. CASE RestoreFirst
    BY <2>7 DEF RestoreFirst
  <2>8. CASE ForgetGeometry
    BY <2>8 DEF ForgetGeometry
  <2>9. CASE FreeTask
    BY <2>9 DEF FreeTask
  <2>10. CASE TransmitReady
    BY <2>10 DEF TransmitReady
  <2> QED
    BY <1>4, <2>1, <2>2, <2>3, <2>4, <2>5, <2>6, <2>7, <2>8, <2>9, <2>10 DEF Transmitter
<1>5. CASE UNCHANGED vars
  BY <1>5 DEF vars
<1> QED
  BY <1>1, <1>2, <1>3, <1>4, <1>5 DEF Next

\* A task changes its owner together with the token.
LEMMA OwnershipStep ==
    Handover /\ [Next]_vars => TaskOwnership'
<1> SUFFICES ASSUME Handover, [Next]_vars PROVE TaskOwnership'
  OBVIOUS
<1> USE ConstantsAssumption DEF Handover, TaskOwnership, HandoverTokens, ExactlyOne,
       TypeOK, EngineOwns, CompressOwns, TransmitOwns, SetEvent, WaitEvent, Delete, MainGoes, EngineGoes, CompressGoes,
       TransmitGoes, data, pcs, pointers, memory, flags, screens, device
<1>1. CASE Main
  <2>1. ASSUME NEW f \in Frame, StartEncode(f) PROVE TaskOwnership'
    BY <2>1 DEF StartEncode, SubmitNew, Resubmit
  <2>2. CASE SendEvent
    BY <2>2 DEF SendEvent
  <2>3. CASE WaitSync
    BY <2>3 DEF WaitSync
  <2> QED
    BY <1>1, <2>1, <2>2, <2>3 DEF Main
<1>2. CASE Engine
  <2>1. CASE EngineBoot
    BY <2>1 DEF EngineBoot
  <2>2. CASE EngineWake
    BY <2>2 DEF EngineWake
  <2>3. CASE TakeTask
    BY <2>3 DEF TakeTask
  <2>4. CASE CheckGeometry
    BY <2>4 DEF CheckGeometry
  <2>5. CASE SetGeometry
    BY <2>5 DEF SetGeometry
  <2>6. CASE SetFirst
    BY <2>6 DEF SetFirst
  <2>7. CASE DropFrame
    BY <2>7 DEF DropFrame
  <2>8. CASE KeepFrame
    BY <2>8 DEF KeepFrame
  <2>9. CASE HandToCompress
    BY <2>9 DEF HandToCompress
  <2>10. CASE KickCompress
    BY <2>10 DEF KickCompress
  <2>11. CASE SignalSync
    BY <2>11 DEF SignalSync
  <2> QED
    BY <1>2, <2>1, <2>2, <2>3, <2>4, <2>5, <2>6, <2>7, <2>8, <2>9, <2>10, <2>11 DEF Engine
<1>3. CASE Compressor
  <2>1. CASE CompressBoot
    BY <2>1 DEF CompressBoot
  <2>2. CASE CompressStart
    BY <2>2 DEF CompressStart
  <2>3. CASE Compress
    BY <2>3 DEF Compress
  <2>4. CASE HandToTransmit
    BY <2>4 DEF HandToTransmit
  <2>5. CASE ReleaseCompress
    BY <2>5 DEF ReleaseCompress
  <2>6. CASE KickTransmit
    BY <2>6 DEF KickTransmit
  <2> QED
    BY <1>3, <2>1, <2>2, <2>3, <2>4, <2>5, <2>6 DEF Compressor
<1>4. CASE Transmitter
  <2>1. CASE TransmitBoot
    BY <2>1 DEF TransmitBoot
  <2>2. CASE TransmitStart
    BY <2>2 DEF TransmitStart
  <2>3. CASE Configure
    BY <2>3 DEF Configure
  <2>4. CASE WriteOk
    BY <2>4 DEF WriteOk
  <2>5. CASE WriteFails
    BY <2>5 DEF WriteFails
  <2>6. CASE ClearFirst
    BY <2>6 DEF ClearFirst
  <2>7. CASE RestoreFirst
    BY <2>7 DEF RestoreFirst
  <2>8. CASE ForgetGeometry
    BY <2>8 DEF ForgetGeometry
  <2>9. CASE FreeTask
    BY <2>9 DEF FreeTask
  <2>10. CASE TransmitReady
    BY <2>10 DEF TransmitReady
  <2> QED
    BY <1>4, <2>1, <2>2, <2>3, <2>4, <2>5, <2>6, <2>7, <2>8, <2>9, <2>10 DEF Transmitter
<1>5. CASE UNCHANGED vars
  BY <1>5 DEF vars
<1> QED
  BY <1>1, <1>2, <1>3, <1>4, <1>5 DEF Next

\* Whoever clears EVENT_ENCODE looks at m_pNewTask next.
LEMMA AnnouncedStep ==
    Handover /\ [Next]_vars => PendingIsAnnounced'
<1> SUFFICES ASSUME Handover, [Next]_vars PROVE PendingIsAnnounced'
  OBVIOUS
<1> USE ConstantsAssumption DEF Handover, PendingIsAnnounced, TypeOK,
       SetEvent, WaitEvent, Delete, MainGoes, EngineGoes, CompressGoes,
       TransmitGoes, data, pcs, pointers, memory, flags, screens, device
<1>1. CASE Main
  <2>1. ASSUME NEW f \in Frame, StartEncode(f) PROVE PendingIsAnnounced'
    BY <2>1 DEF StartEncode, SubmitNew, Resubmit
  <2>2. CASE SendEvent
    BY <2>2 DEF SendEvent
  <2>3. CASE WaitSync
    BY <2>3 DEF WaitSync
  <2> QED
    BY <1>1, <2>1, <2>2, <2>3 DEF Main
<1>2. CASE Engine
  <2>1. CASE EngineBoot
    BY <2>1 DEF EngineBoot
  <2>2. CASE EngineWake
    BY <2>2 DEF EngineWake
  <2>3. CASE TakeTask
    BY <2>3 DEF TakeTask
  <2>4. CASE CheckGeometry
    BY <2>4 DEF CheckGeometry
  <2>5. CASE SetGeometry
    BY <2>5 DEF SetGeometry
  <2>6. CASE SetFirst
    BY <2>6 DEF SetFirst
  <2>7. CASE DropFrame
    BY <2>7 DEF DropFrame
  <2>8. CASE KeepFrame
    BY <2>8 DEF KeepFrame
  <2>9. CASE HandToCompress
    BY <2>9 DEF HandToCompress
  <2>10. CASE KickCompress
    BY <2>10 DEF KickCompress
  <2>11. CASE SignalSync
    BY <2>11 DEF SignalSync
  <2> QED
    BY <1>2, <2>1, <2>2, <2>3, <2>4, <2>5, <2>6, <2>7, <2>8, <2>9, <2>10, <2>11 DEF Engine
<1>3. CASE Compressor
  <2>1. CASE CompressBoot
    BY <2>1 DEF CompressBoot
  <2>2. CASE CompressStart
    BY <2>2 DEF CompressStart
  <2>3. CASE Compress
    BY <2>3 DEF Compress
  <2>4. CASE HandToTransmit
    BY <2>4 DEF HandToTransmit
  <2>5. CASE ReleaseCompress
    BY <2>5 DEF ReleaseCompress
  <2>6. CASE KickTransmit
    BY <2>6 DEF KickTransmit
  <2> QED
    BY <1>3, <2>1, <2>2, <2>3, <2>4, <2>5, <2>6 DEF Compressor
<1>4. CASE Transmitter
  <2>1. CASE TransmitBoot
    BY <2>1 DEF TransmitBoot
  <2>2. CASE TransmitStart
    BY <2>2 DEF TransmitStart
  <2>3. CASE Configure
    BY <2>3 DEF Configure
  <2>4. CASE WriteOk
    BY <2>4 DEF WriteOk
  <2>5. CASE WriteFails
    BY <2>5 DEF WriteFails
  <2>6. CASE ClearFirst
    BY <2>6 DEF ClearFirst
  <2>7. CASE RestoreFirst
    BY <2>7 DEF RestoreFirst
  <2>8. CASE ForgetGeometry
    BY <2>8 DEF ForgetGeometry
  <2>9. CASE FreeTask
    BY <2>9 DEF FreeTask
  <2>10. CASE TransmitReady
    BY <2>10 DEF TransmitReady
  <2> QED
    BY <1>4, <2>1, <2>2, <2>3, <2>4, <2>5, <2>6, <2>7, <2>8, <2>9, <2>10 DEF Transmitter
<1>5. CASE UNCHANGED vars
  BY <1>5 DEF vars
<1> QED
  BY <1>1, <1>2, <1>3, <1>4, <1>5 DEF Next

\* Whoever clears EVENT_ENCODE sets sync_event before it waits again.
LEMMA SyncStep ==
    Handover /\ [Next]_vars => SyncIsComing'
<1> SUFFICES ASSUME Handover, [Next]_vars PROVE SyncIsComing'
  OBVIOUS
<1> USE ConstantsAssumption DEF Handover, SyncIsComing, TypeOK, SetEvent, WaitEvent,
       MainGoes, EngineGoes, CompressGoes,
       TransmitGoes, data, pcs, pointers, memory, flags, screens, device
<1>1. CASE Main
  <2>1. ASSUME NEW f \in Frame, StartEncode(f) PROVE SyncIsComing'
    BY <2>1 DEF StartEncode, SubmitNew, Resubmit
  <2>2. CASE SendEvent
    BY <2>2 DEF SendEvent
  <2>3. CASE WaitSync
    BY <2>3 DEF WaitSync
  <2> QED
    BY <1>1, <2>1, <2>2, <2>3 DEF Main
<1>2. CASE Engine
  <2>1. CASE EngineBoot
    BY <2>1 DEF EngineBoot
  <2>2. CASE EngineWake
    BY <2>2 DEF EngineWake
  <2>3. CASE TakeTask
    BY <2>3 DEF TakeTask
  <2>4. CASE CheckGeometry
    BY <2>4 DEF CheckGeometry
  <2>5. CASE SetGeometry
    BY <2>5 DEF SetGeometry
  <2>6. CASE SetFirst
    BY <2>6 DEF SetFirst
  <2>7. CASE DropFrame
    BY <2>7 DEF DropFrame
  <2>8. CASE KeepFrame
    BY <2>8 DEF KeepFrame
  <2>9. CASE HandToCompress
    BY <2>9 DEF HandToCompress
  <2>10. CASE KickCompress
    BY <2>10 DEF KickCompress
  <2>11. CASE SignalSync
    BY <2>11 DEF SignalSync
  <2> QED
    BY <1>2, <2>1, <2>2, <2>3, <2>4, <2>5, <2>6, <2>7, <2>8, <2>9, <2>10, <2>11 DEF Engine
<1>3. CASE Compressor
  <2>1. CASE CompressBoot
    BY <2>1 DEF CompressBoot
  <2>2. CASE CompressStart
    BY <2>2 DEF CompressStart
  <2>3. CASE Compress
    BY <2>3 DEF Compress
  <2>4. CASE HandToTransmit
    BY <2>4 DEF HandToTransmit
  <2>5. CASE ReleaseCompress
    BY <2>5 DEF ReleaseCompress
  <2>6. CASE KickTransmit
    BY <2>6 DEF KickTransmit
  <2> QED
    BY <1>3, <2>1, <2>2, <2>3, <2>4, <2>5, <2>6 DEF Compressor
<1>4. CASE Transmitter
  <2>1. CASE TransmitBoot
    BY <2>1 DEF TransmitBoot
  <2>2. CASE TransmitStart
    BY <2>2 DEF TransmitStart
  <2>3. CASE Configure
    BY <2>3 DEF Configure
  <2>4. CASE WriteOk
    BY <2>4 DEF WriteOk
  <2>5. CASE WriteFails
    BY <2>5 DEF WriteFails
  <2>6. CASE ClearFirst
    BY <2>6 DEF ClearFirst
  <2>7. CASE RestoreFirst
    BY <2>7 DEF RestoreFirst
  <2>8. CASE ForgetGeometry
    BY <2>8 DEF ForgetGeometry
  <2>9. CASE FreeTask
    BY <2>9 DEF FreeTask
  <2>10. CASE TransmitReady
    BY <2>10 DEF TransmitReady
  <2> QED
    BY <1>4, <2>1, <2>2, <2>3, <2>4, <2>5, <2>6, <2>7, <2>8, <2>9, <2>10 DEF Transmitter
<1>5. CASE UNCHANGED vars
  BY <1>5 DEF vars
<1> QED
  BY <1>1, <1>2, <1>3, <1>4, <1>5 DEF Next

\* The kept screen and the tasks compress and transmit own change together.
LEMMA StreamStep ==
    Handover /\ [Next]_vars => StreamShowsFrame'
<1> SUFFICES ASSUME Handover, [Next]_vars PROVE StreamShowsFrame'
  OBVIOUS
<1> USE ConstantsAssumption DEF Handover, StreamShowsFrame, TaskOwnership,
       HandoverTokens, ExactlyOne, TypeOK, EngineOwns, CompressOwns, TransmitOwns,
       SetEvent, WaitEvent, Delete, FrameOf, StreamOf, Task, Blank, MainGoes, EngineGoes, CompressGoes,
       TransmitGoes, data, pcs, pointers, memory, flags, screens, device
<1>1. CASE Main
  <2>1. ASSUME NEW f \in Frame, StartEncode(f) PROVE StreamShowsFrame'
    BY <2>1 DEF StartEncode, SubmitNew, Resubmit
  <2>2. CASE SendEvent
    BY <2>2 DEF SendEvent
  <2>3. CASE WaitSync
    BY <2>3 DEF WaitSync
  <2> QED
    BY <1>1, <2>1, <2>2, <2>3 DEF Main
<1>2. CASE Engine
  <2>1. CASE EngineBoot
    BY <2>1 DEF EngineBoot
  <2>2. CASE EngineWake
    BY <2>2 DEF EngineWake
  <2>3. CASE TakeTask
    BY <2>3 DEF TakeTask
  <2>4. CASE CheckGeometry
    BY <2>4 DEF CheckGeometry
  <2>5. CASE SetGeometry
    BY <2>5 DEF SetGeometry
  <2>6. CASE SetFirst
    BY <2>6 DEF SetFirst
  <2>7. CASE DropFrame
    BY <2>7 DEF DropFrame
  <2>8. CASE KeepFrame
    BY <2>8 DEF KeepFrame
  <2>9. CASE HandToCompress
    BY <2>9 DEF HandToCompress
  <2>10. CASE KickCompress
    BY <2>10 DEF KickCompress
  <2>11. CASE SignalSync
    BY <2>11 DEF SignalSync
  <2> QED
    BY <1>2, <2>1, <2>2, <2>3, <2>4, <2>5, <2>6, <2>7, <2>8, <2>9, <2>10, <2>11 DEF Engine
<1>3. CASE Compressor
  <2>1. CASE CompressBoot
    BY <2>1 DEF CompressBoot
  <2>2. CASE CompressStart
    BY <2>2 DEF CompressStart
  <2>3. CASE Compress
    BY <2>3 DEF Compress
  <2>4. CASE HandToTransmit
    BY <2>4 DEF HandToTransmit
  <2>5. CASE ReleaseCompress
    BY <2>5 DEF ReleaseCompress
  <2>6. CASE KickTransmit
    BY <2>6 DEF KickTransmit
  <2> QED
    BY <1>3, <2>1, <2>2, <2>3, <2>4, <2>5, <2>6 DEF Compressor
<1>4. CASE Transmitter
  <2>1. CASE TransmitBoot
    BY <2>1 DEF TransmitBoot
  <2>2. CASE TransmitStart
    BY <2>2 DEF TransmitStart
  <2>3. CASE Configure
    BY <2>3 DEF Configure
  <2>4. CASE WriteOk
    BY <2>4 DEF WriteOk
  <2>5. CASE WriteFails
    BY <2>5 DEF WriteFails
  <2>6. CASE ClearFirst
    BY <2>6 DEF ClearFirst
  <2>7. CASE RestoreFirst
    BY <2>7 DEF RestoreFirst
  <2>8. CASE ForgetGeometry
    BY <2>8 DEF ForgetGeometry
  <2>9. CASE FreeTask
    BY <2>9 DEF FreeTask
  <2>10. CASE TransmitReady
    BY <2>10 DEF TransmitReady
  <2> QED
    BY <1>4, <2>1, <2>2, <2>3, <2>4, <2>5, <2>6, <2>7, <2>8, <2>9, <2>10 DEF Transmitter
<1>5. CASE UNCHANGED vars
  BY <1>5 DEF vars
<1> QED
  BY <1>1, <1>2, <1>3, <1>4, <1>5 DEF Next

\* All six conjuncts survive a step.
LEMMA HandoverStep == Handover /\ [Next]_vars => Handover'
<1> SUFFICES ASSUME Handover, [Next]_vars PROVE Handover'
  OBVIOUS
<1> QED
  BY TypeStep, TokensStep, OwnershipStep, AnnouncedStep, SyncStep, StreamStep
  DEF Handover

\* The inductive invariant.
THEOREM HandoverInvariant == Spec => []Handover
  BY HandoverInit, HandoverStep, PTL DEF Spec

\* Every variable keeps its type, and m_pNewTask never dangles.
THEOREM TypeCorrect == Spec => []TypeOK
<1>1. Handover => TypeOK
  BY DEF Handover
<1> QED
  BY <1>1, HandoverInvariant, PTL

\* The ready/start events of Compress and Transmit never lose or double the
\* permission to use m_CompressTask or m_TransmitTask.
THEOREM TokensConserved == Spec => []HandoverTokens
<1>1. Handover => HandoverTokens
  BY DEF Handover
<1> QED
  BY <1>1, HandoverInvariant, PTL

\* No stage of the pipeline uses a task after `delete`, shares one with another
\* stage, or leaks one.
THEOREM TasksOwned == Spec => []TaskOwnership
<1>1. Handover => TaskOwnership
  BY DEF Handover
<1> QED
  BY <1>1, HandoverInvariant, PTL

\* A frame StartEncode submitted is never overlooked by the engine.
THEOREM NoFrameForgotten == Spec => []PendingIsAnnounced
<1>1. Handover => PendingIsAnnounced
  BY DEF Handover
<1> QED
  BY <1>1, HandoverInvariant, PTL

\* jxStartEncode never waits for a sync_event that nobody will set.
THEOREM NoLostSync == Spec => []SyncIsComing
<1>1. Handover => SyncIsComing
  BY DEF Handover
<1> QED
  BY <1>1, HandoverInvariant, PTL

\* What compress encodes from the shared screen is the frame of its task.
THEOREM StreamCorrect == Spec => []StreamShowsFrame
<1>1. Handover => StreamShowsFrame
  BY DEF Handover
<1> QED
  BY <1>1, HandoverInvariant, PTL

-----------------------------------------------------------------------------
(* Recovery.  RecoveryPending says that a display which is out of step has *)
(* a repair on its way.  What keeps it is the chain of modes from the      *)
(* device through transmit, compress and engine up to m_width: each frame  *)
(* in it has the mode of the one before, or configures the device, or some *)
(* later one will, or m_width is 0.  It is broken if a control transfer    *)
(* fails unnoticed (the finding ReportedResolutionIsSet), hence the        *)
(* hypothesis.                                                             *)

\* The engine has compared the mode of its frame with m_width.
Judging == enginePc \in {"first", "diff", "handover"}

\* m_width is 0, or transmit is on its way to make it so.
Upset == mGeometry = NoMode \/ transmitPc \in {"fail", "reset"}

EngineRepairs   == Judging /\ heap[analysisTask].changed
CompressRepairs == CompressOwns /\ heap[compressTask].changed
TransmitRepairs == Unwritten /\ heap[transmitTask].changed

\* The mode the device is going to have once transmit, then compress, then the
\* engine is done with its frame.
ModeInDevice == IF Unwritten THEN heap[transmitTask].mode ELSE devMode
ModeInLine   == IF CompressOwns THEN heap[compressTask].mode ELSE ModeInDevice
ModeInEngine == IF Judging THEN heap[analysisTask].mode ELSE ModeInLine

\* A frame that configures the device is a full one; the waiting one never does.
FlagsOK ==
    /\ \A t \in Tasks : heap[t].changed => heap[t].first
    /\ newTask # NoTask => ~heap[newTask].changed
    /\ transmitPc = "write" /\ heap[transmitTask].changed
         => devMode = heap[transmitTask].mode

\* The chain of modes.
ChainOK ==
    /\ Unwritten /\ ~heap[transmitTask].changed =>
         devMode = heap[transmitTask].mode \/ Upset \/ EngineRepairs \/ CompressRepairs
    /\ CompressOwns /\ ~heap[compressTask].changed =>
         heap[compressTask].mode = ModeInDevice \/ Upset \/ EngineRepairs
    /\ Judging /\ ~heap[analysisTask].changed =>
         heap[analysisTask].mode = ModeInLine \/ Upset
    /\ mGeometry = ModeInEngine \/ Upset

InRepair == inStep \/ Upset \/ EngineRepairs \/ CompressRepairs \/ TransmitRepairs

Recovery == Handover /\ FlagsOK /\ ChainOK /\ InRepair

\* Before the first frame m_width is 0.
LEMMA RecoveryInit == Init => Recovery
<1> SUFFICES ASSUME Init PROVE Recovery
  OBVIOUS
<1>1. FlagsOK
  BY DEF Init, FlagsOK, Blank
<1>2. ChainOK /\ InRepair
  BY DEF Init, ChainOK, InRepair, Upset, Judging, Unwritten, CompressOwns
<1>3. QED
  BY <1>1, <1>2, HandoverInit DEF Recovery

\* SetGeometry makes a frame a full one together with `changed`; Configure puts
\* the device in its mode.
LEMMA FlagsStep == ~ControlCanFail /\ Recovery /\ [Next]_vars => FlagsOK'
<1> SUFFICES ASSUME ~ControlCanFail, Recovery, [Next]_vars PROVE FlagsOK'
  OBVIOUS
<1> USE ConstantsAssumption DEF Recovery, Handover, FlagsOK, TypeOK, TaskOwnership,
       HandoverTokens, ExactlyOne, EngineOwns, CompressOwns, TransmitOwns, Task, Blank,
       MainGoes, EngineGoes, CompressGoes, TransmitGoes, SetEvent, WaitEvent, Delete,
       data, pcs, pointers, memory, flags, screens, device
<1>1. CASE Main
  <2>1. ASSUME NEW f \in Frame, StartEncode(f) PROVE FlagsOK'
    <3>1. CASE SubmitNew(f)
      BY <2>1, <3>1 DEF StartEncode, SubmitNew
    <3>2. CASE Resubmit(f)
      BY <2>1, <3>2 DEF StartEncode, Resubmit, Frame
    <3>3. QED
      BY <2>1, <3>1, <3>2 DEF StartEncode
  <2>2. CASE SendEvent
    BY <2>2 DEF SendEvent
  <2>3. CASE WaitSync
    BY <2>3 DEF WaitSync
  <2> QED
    BY <1>1, <2>1, <2>2, <2>3 DEF Main
<1>2. CASE Engine
  <2>1. CASE EngineBoot
    BY <2>1 DEF EngineBoot
  <2>2. CASE EngineWake
    BY <2>2 DEF EngineWake
  <2>3. CASE TakeTask
    BY <2>3 DEF TakeTask
  <2>4. CASE CheckGeometry
    BY <2>4 DEF CheckGeometry
  <2>5. CASE SetGeometry
    BY <2>5 DEF SetGeometry
  <2>6. CASE SetFirst
    BY <2>6 DEF SetFirst
  <2>7. CASE DropFrame
    BY <2>7 DEF DropFrame, NoBlocks, Repeats, FrameOf
  <2>8. CASE KeepFrame
    BY <2>8 DEF KeepFrame
  <2>9. CASE HandToCompress
    BY <2>9 DEF HandToCompress
  <2>10. CASE KickCompress
    BY <2>10 DEF KickCompress
  <2>11. CASE SignalSync
    BY <2>11 DEF SignalSync
  <2> QED
    BY <1>2, <2>1, <2>2, <2>3, <2>4, <2>5, <2>6, <2>7, <2>8, <2>9, <2>10, <2>11 DEF Engine
<1>3. CASE Compressor
  <2>1. CASE CompressBoot
    BY <2>1 DEF CompressBoot
  <2>2. CASE CompressStart
    BY <2>2 DEF CompressStart
  <2>3. CASE Compress
    BY <2>3 DEF Compress
  <2>4. CASE HandToTransmit
    BY <2>4 DEF HandToTransmit
  <2>5. CASE ReleaseCompress
    BY <2>5 DEF ReleaseCompress
  <2>6. CASE KickTransmit
    BY <2>6 DEF KickTransmit
  <2> QED
    BY <1>3, <2>1, <2>2, <2>3, <2>4, <2>5, <2>6 DEF Compressor
<1>4. CASE Transmitter
  <2>1. CASE TransmitBoot
    BY <2>1 DEF TransmitBoot
  <2>2. CASE TransmitStart
    BY <2>2 DEF TransmitStart
  <2>3. CASE Configure
    BY <2>3 DEF Configure
  <2>4. CASE WriteOk
    BY <2>4 DEF WriteOk
  <2>5. CASE WriteFails
    BY <2>5 DEF WriteFails
  <2>6. CASE ClearFirst
    BY <2>6 DEF ClearFirst
  <2>7. CASE RestoreFirst
    BY <2>7 DEF RestoreFirst
  <2>8. CASE ForgetGeometry
    BY <2>8 DEF ForgetGeometry
  <2>9. CASE FreeTask
    BY <2>9 DEF FreeTask
  <2>10. CASE TransmitReady
    BY <2>10 DEF TransmitReady
  <2> QED
    BY <1>4, <2>1, <2>2, <2>3, <2>4, <2>5, <2>6, <2>7, <2>8, <2>9, <2>10 DEF Transmitter
<1>5. CASE UNCHANGED vars
  BY <1>5 DEF vars
<1> QED
  BY <1>1, <1>2, <1>3, <1>4, <1>5 DEF Next

\* A hand-over moves a frame along the chain; a failed write ends in m_width = 0,
\* and the frame that sets m_width again repairs.
LEMMA ChainStep == ~ControlCanFail /\ Recovery /\ [Next]_vars => ChainOK' /\ InRepair'
<1> SUFFICES ASSUME ~ControlCanFail, Recovery, [Next]_vars PROVE ChainOK' /\ InRepair'
  OBVIOUS
<1> USE ConstantsAssumption DEF Recovery, Handover, FlagsOK, TypeOK, TaskOwnership,
       HandoverTokens, ExactlyOne, EngineOwns, CompressOwns, TransmitOwns, Unwritten,
       ChainOK, InRepair, Judging, Upset, EngineRepairs, CompressRepairs, TransmitRepairs,
       ModeInDevice, ModeInLine, ModeInEngine, Task, Blank,
       MainGoes, EngineGoes, CompressGoes, TransmitGoes, SetEvent, WaitEvent, Delete,
       data, pcs, pointers, memory, flags, screens, device
<1>1. CASE Main
  <2>1. ASSUME NEW f \in Frame, StartEncode(f) PROVE (ChainOK /\ InRepair)'
    <3>1. CASE SubmitNew(f)
      BY <2>1, <3>1 DEF StartEncode, SubmitNew
    <3>2. CASE Resubmit(f)
      BY <2>1, <3>2 DEF StartEncode, Resubmit, Frame
    <3>3. QED
      BY <2>1, <3>1, <3>2 DEF StartEncode
  <2>2. CASE SendEvent
    BY <2>2 DEF SendEvent
  <2>3. CASE WaitSync
    BY <2>3 DEF WaitSync
  <2> QED
    BY <1>1, <2>1, <2>2, <2>3 DEF Main
<1>2. CASE Engine
  <2>1. CASE EngineBoot
    BY <2>1 DEF EngineBoot
  <2>2. CASE EngineWake
    BY <2>2 DEF EngineWake
  <2>3. CASE TakeTask
    BY <2>3 DEF TakeTask
  <2>4. CASE CheckGeometry
    BY <2>4 DEF CheckGeometry
  <2>5. CASE SetGeometry
    BY <2>5 DEF SetGeometry
  <2>6. CASE SetFirst
    BY <2>6 DEF SetFirst
  <2>7. CASE DropFrame
    BY <2>7 DEF DropFrame, NoBlocks, Repeats, FrameOf
  <2>8. CASE KeepFrame
    BY <2>8 DEF KeepFrame
  <2>9. CASE HandToCompress
    BY <2>9 DEF HandToCompress
  <2>10. CASE KickCompress
    BY <2>10 DEF KickCompress
  <2>11. CASE SignalSync
    BY <2>11 DEF SignalSync
  <2> QED
    BY <1>2, <2>1, <2>2, <2>3, <2>4, <2>5, <2>6, <2>7, <2>8, <2>9, <2>10, <2>11 DEF Engine
<1>3. CASE Compressor
  <2>1. CASE CompressBoot
    BY <2>1 DEF CompressBoot
  <2>2. CASE CompressStart
    BY <2>2 DEF CompressStart
  <2>3. CASE Compress
    BY <2>3 DEF Compress
  <2>4. CASE HandToTransmit
    BY <2>4 DEF HandToTransmit
  <2>5. CASE ReleaseCompress
    BY <2>5 DEF ReleaseCompress
  <2>6. CASE KickTransmit
    BY <2>6 DEF KickTransmit
  <2> QED
    BY <1>3, <2>1, <2>2, <2>3, <2>4, <2>5, <2>6 DEF Compressor
<1>4. CASE Transmitter
  <2>1. CASE TransmitBoot
    BY <2>1 DEF TransmitBoot
  <2>2. CASE TransmitStart
    BY <2>2 DEF TransmitStart
  <2>3. CASE Configure
    BY <2>3 DEF Configure
  <2>4. CASE WriteOk
    BY <2>4 DEF WriteOk
  <2>5. CASE WriteFails
    BY <2>5 DEF WriteFails
  <2>6. CASE ClearFirst
    BY <2>6 DEF ClearFirst
  <2>7. CASE RestoreFirst
    BY <2>7 DEF RestoreFirst
  <2>8. CASE ForgetGeometry
    BY <2>8 DEF ForgetGeometry
  <2>9. CASE FreeTask
    BY <2>9 DEF FreeTask
  <2>10. CASE TransmitReady
    BY <2>10 DEF TransmitReady
  <2> QED
    BY <1>4, <2>1, <2>2, <2>3, <2>4, <2>5, <2>6, <2>7, <2>8, <2>9, <2>10 DEF Transmitter
<1>5. CASE UNCHANGED vars
  BY <1>5 DEF vars
<1> QED
  BY <1>1, <1>2, <1>3, <1>4, <1>5 DEF Next

\* The inductive invariant of recovery.
LEMMA RecoveryStep == ~ControlCanFail /\ Recovery /\ [Next]_vars => Recovery'
  BY FlagsStep, ChainStep, HandoverStep DEF Recovery

\* Whatever writes fail and however the unlocked writes of m_first and m_width
\* race, a display that is out of step has a repair on its way, as long as the
\* control transfers that configure it succeed.
THEOREM RecoveryCorrect == ASSUME ~ControlCanFail PROVE Spec => []RecoveryPending
<1>1. Init => Recovery
  BY RecoveryInit
<1>2. Recovery /\ [Next]_vars => Recovery'
  BY RecoveryStep
<1>3. Recovery => RecoveryPending
  BY DEF Recovery, InRepair, RecoveryPending, RepairInFlight, Upset, EngineRepairs,
         CompressRepairs, TransmitRepairs, Judging
<1>4. QED
  BY <1>1, <1>2, <1>3, PTL DEF Spec

-----------------------------------------------------------------------------
(***************************************************************************)
(* EncodePipeline implements FrameFlow: the refinement mapping of Flow,    *)
(* step by step.                                                           *)
(*                                                                         *)
(* The mapping reads frames through pointers.  That a step which changes   *)
(* one task leaves the other mapped frames alone is TaskOwnership; that    *)
(* handing a task on does not make the line longer, or out of order, is    *)
(* HandoverTokens; that the device is handed the frame of the task is      *)
(* StreamShowsFrame.                                                       *)
(***************************************************************************)
\* A task on the heap holds a frame, not nothing.
LiveFrames == \A t \in live : FrameOf(t) \in Frame

\* The mapped line, as a pair of places.
Line == InTransmit \o InCompress

\* `new task_t` is filled before anyone sees the task; nobody changes the frame
\* of a task later, except StartEncode that of the waiting one.
LEMMA LiveFramesStep == Handover /\ LiveFrames /\ [Next]_vars => LiveFrames'
<1> SUFFICES ASSUME Handover, LiveFrames, [Next]_vars PROVE LiveFrames'
  OBVIOUS
<1>1. TypeOK /\ TaskOwnership
  BY DEF Handover
<1> USE <1>1 DEF LiveFrames, FrameOf, TypeOK
<1>2. ASSUME NEW f \in Frame, StartEncode(f) PROVE LiveFrames'
  <2>1. CASE SubmitNew(f)
    BY <2>1 DEF SubmitNew, Frame
  <2>2. CASE Resubmit(f)
    BY <2>2 DEF Resubmit, Frame
  <2>3. QED
    BY <1>2, <2>1, <2>2 DEF StartEncode
<1>3. CASE DropFrame
  BY <1>3 DEF DropFrame, Delete, EngineGoes
<1>4. CASE FreeTask
  BY <1>4 DEF FreeTask, Delete, TransmitGoes
<1>5. CASE SetGeometry
  BY <1>5 DEF SetGeometry
<1>6. CASE Compress
  BY <1>6 DEF Compress
<1>7. CASE UNCHANGED <<live, heap>>
  BY <1>7
<1>8. QED
  BY <1>2, <1>3, <1>4, <1>5, <1>6, <1>7
  DEF Next, Main, SendEvent, WaitSync,
      Engine, EngineBoot, EngineWake, TakeTask, CheckGeometry, SetFirst,
      KeepFrame, HandToCompress, KickCompress, SignalSync,
      Compressor, CompressBoot, CompressStart, HandToTransmit, ReleaseCompress,
      KickTransmit,
      Transmitter, TransmitBoot, TransmitStart, Configure, WriteOk, WriteFails,
      ClearFirst, RestoreFirst, ForgetGeometry, TransmitReady,
      vars, data, memory

\* A line with both places taken.
LEMMA TwoPlaces ==
    ASSUME NEW f, NEW g
    PROVE  /\ <<f>> \o <<g>> # <<>>
           /\ Head(<<f>> \o <<g>>) = f
           /\ Tail(<<f>> \o <<g>>) = <<g>>
<1> DEFINE S == {f, g}
<1>1. <<f>> \in Seq(S) /\ g \in S
  OBVIOUS
<1>2. <<f>> \o <<g>> = Append(<<f>>, g)
  OBVIOUS
<1>3. Head(<<f>>) = f /\ Tail(<<f>>) = <<>> /\ Append(<<>>, g) = <<g>> /\ <<f>> # <<>>
  OBVIOUS
<1> HIDE DEF S
<1>4. /\ Append(<<f>>, g) # <<>>
      /\ Head(Append(<<f>>, g)) = Head(<<f>>)
      /\ Tail(Append(<<f>>, g)) = Append(Tail(<<f>>), g)
  BY <1>1, <1>3, HeadTailAppend, AppendProperties
<1>5. QED
  BY <1>2, <1>3, <1>4

-----------------------------------------------------------------------------
(* Steps that FrameFlow does not see *)

\* The frames behind the pointers, and who owns them, stay.
Quiet == /\ UNCHANGED <<heap, pointers, kept, sent>>
         /\ EngineOwns' = EngineOwns
         /\ CompressOwns' = CompressOwns
         /\ Unwritten' = Unwritten

\* Such a step leaves the abstract state alone.
LEMMA QuietStutters == Quiet => UNCHANGED Flow!vars
<1> SUFFICES ASSUME Quiet PROVE UNCHANGED Flow!vars
  OBVIOUS
<1>1. Mailbox' = Mailbox /\ Judged' = Judged
  BY DEF Quiet, pointers, Mailbox, Judged, FrameOf
<1>2. InTransmit' = InTransmit /\ InCompress' = InCompress
  BY DEF Quiet, pointers, InTransmit, InCompress, FrameOf
<1>3. QED
  BY <1>1, <1>2 DEF Quiet, Flow!vars

\* main passes its events on; engine, compress and transmit move on inside
\* their own part of the pipeline, or hand the permission over by an event.
LEMMA QuietSteps ==
    ASSUME \/ SendEvent \/ WaitSync
           \/ EngineBoot \/ EngineWake \/ CheckGeometry \/ SetFirst \/ KeepFrame
           \/ KickCompress \/ SignalSync
           \/ CompressBoot \/ CompressStart \/ ReleaseCompress \/ KickTransmit
           \/ TransmitBoot \/ TransmitStart \/ Configure \/ ClearFirst
           \/ RestoreFirst \/ ForgetGeometry \/ TransmitReady
    PROVE  Quiet
<1> USE DEF Quiet, EngineOwns, CompressOwns, Unwritten, SetEvent, WaitEvent,
            data, memory, screens, device
<1>1. CASE SendEvent \/ WaitSync
  BY <1>1 DEF SendEvent, WaitSync, MainGoes
<1>2. CASE EngineBoot \/ EngineWake \/ CheckGeometry \/ SetFirst \/ KeepFrame
  BY <1>2 DEF EngineBoot, EngineWake, CheckGeometry, SetFirst, KeepFrame, EngineGoes
<1>3. CASE KickCompress \/ SignalSync
  BY <1>3 DEF KickCompress, SignalSync, EngineGoes
<1>4. CASE CompressBoot \/ CompressStart \/ ReleaseCompress \/ KickTransmit
  BY <1>4 DEF CompressBoot, CompressStart, ReleaseCompress, KickTransmit, CompressGoes
<1>5. CASE TransmitBoot \/ TransmitStart \/ Configure \/ ClearFirst
  BY <1>5 DEF TransmitBoot, TransmitStart, Configure, ClearFirst, TransmitGoes
<1>6. CASE RestoreFirst \/ ForgetGeometry \/ TransmitReady
  BY <1>6 DEF RestoreFirst, ForgetGeometry, TransmitReady, TransmitGoes
<1>7. QED
  BY <1>1, <1>2, <1>3, <1>4, <1>5, <1>6

-----------------------------------------------------------------------------
(* Steps that change a task *)

\* SetGeometry and Compress change other fields of a task than its frame.
LEMMA FieldSteps ==
    ASSUME Handover, SetGeometry \/ Compress
    PROVE  UNCHANGED Flow!vars
<1>1. /\ \A t \in Tasks : FrameOf(t)' = FrameOf(t)
      /\ UNCHANGED <<pointers, kept, sent>>
  BY DEF SetGeometry, Compress, FrameOf, Handover, TypeOK, Task, screens, device
<1>2. EngineOwns' = EngineOwns /\ CompressOwns' = CompressOwns /\ Unwritten' = Unwritten
  BY DEF SetGeometry, Compress, EngineGoes, CompressGoes, EngineOwns, CompressOwns,
         Unwritten
<1>3. /\ newTask \in Tasks \cup {NoTask}
      /\ EngineOwns => analysisTask \in Tasks
      /\ CompressOwns => compressTask \in Tasks
      /\ Unwritten => transmitTask \in Tasks
  BY DEF Handover, TypeOK, TaskOwnership, Unwritten, TransmitOwns
<1>4. Mailbox' = Mailbox /\ Judged' = Judged
  BY <1>1, <1>2, <1>3 DEF pointers, Mailbox, Judged, FrameOf
<1>5. InTransmit' = InTransmit /\ InCompress' = InCompress
  BY <1>1, <1>2, <1>3 DEF pointers, InTransmit, InCompress, FrameOf
<1>6. QED
  BY <1>1, <1>4, <1>5 DEF Flow!vars

\* StartEncode replaces the frame in the mailbox and touches no other task.
LEMMA SubmitStep ==
    ASSUME Handover, NEW f \in Frame, StartEncode(f)
    PROVE  Flow!Submit(f)
<1> USE DEF StartEncode, pointers, screens, device
<1>1. UNCHANGED <<analysisTask, compressTask, transmitTask, kept, sent>>
  OBVIOUS
<1>2. EngineOwns' = EngineOwns /\ CompressOwns' = CompressOwns /\ Unwritten' = Unwritten
  BY DEF MainGoes, EngineOwns, CompressOwns, Unwritten
<1>3. \A t \in live \ {newTask} : FrameOf(t)' = FrameOf(t)
  BY DEF SubmitNew, Resubmit, FrameOf, Handover, TypeOK
<1>4. /\ EngineOwns => analysisTask \in live \ {newTask}
      /\ CompressOwns => compressTask \in live \ {newTask}
      /\ Unwritten => transmitTask \in live \ {newTask}
  BY DEF Handover, TaskOwnership, Unwritten, TransmitOwns
<1>5. Mailbox' = f
  <2>1. newTask' # NoTask /\ heap'[newTask'].mode = f.mode /\ heap'[newTask'].img = f.img
    BY ConstantsAssumption DEF SubmitNew, Resubmit, Handover, TypeOK, Task
  <2>2. f = [mode |-> f.mode, img |-> f.img]
    BY DEF Frame
  <2>3. QED
    BY <2>1, <2>2 DEF Mailbox, FrameOf
<1>6. Judged' = Judged
  BY <1>1, <1>2, <1>3, <1>4 DEF Judged, FrameOf
<1>7. InTransmit' = InTransmit /\ InCompress' = InCompress
  BY <1>1, <1>2, <1>3, <1>4 DEF InTransmit, InCompress, FrameOf
<1>8. QED
  BY <1>1, <1>5, <1>6, <1>7 DEF Flow!Submit

\* Deleting the task the engine drops, or transmit has written, touches no frame
\* another stage owns.
LEMMA DropStep ==
    ASSUME Handover, LiveFrames, DropFrame
    PROVE  Flow!Skip
<1> USE DEF DropFrame, pointers, screens, device
<1>1. UNCHANGED <<pointers, kept, sent>>
  OBVIOUS
<1>2. EngineOwns /\ ~EngineOwns' /\ CompressOwns' = CompressOwns /\ Unwritten' = Unwritten
  BY DEF EngineGoes, EngineOwns, CompressOwns, Unwritten
<1>3. /\ analysisTask \in live \ {newTask}
      /\ CompressOwns => compressTask \in Tasks \ {analysisTask}
      /\ Unwritten => transmitTask \in Tasks \ {analysisTask}
      /\ newTask \in (Tasks \cup {NoTask}) \ {analysisTask}
  BY <1>2 DEF Handover, TypeOK, TaskOwnership, Unwritten, TransmitOwns
<1>4. \A t \in Tasks \ {analysisTask} : FrameOf(t)' = FrameOf(t)
  BY DEF Delete, FrameOf, Handover, TypeOK
<1>5. Mailbox' = Mailbox
  BY <1>1, <1>3, <1>4 DEF Mailbox, FrameOf
<1>6. InTransmit' = InTransmit /\ InCompress' = InCompress
  BY <1>1, <1>2, <1>3, <1>4 DEF InTransmit, InCompress, FrameOf
<1>7. Judged # NoFrame /\ Judged = kept /\ Judged' = NoFrame
  <2>1. FrameOf(analysisTask) \in Frame /\ NoFrame \notin Frame
    BY <1>3, ConstantsAssumption DEF LiveFrames, Frame, NoFrame
  <2>2. FrameOf(analysisTask) = kept
    BY DEF NoBlocks, Repeats
  <2>3. QED
    BY <1>2, <2>1, <2>2 DEF Judged
<1>8. QED
  BY <1>1, <1>5, <1>6, <1>7 DEF Flow!Skip

\* The task freed has left the line with its write.
LEMMA FreeStep ==
    ASSUME Handover, FreeTask
    PROVE  UNCHANGED Flow!vars
<1> USE DEF FreeTask, screens, device
<1>1. UNCHANGED <<newTask, analysisTask, compressTask, kept, sent>>
  OBVIOUS
<1>2. transmitPc = "free" /\ TransmitOwns
  BY DEF TransmitGoes, TransmitOwns
<1>3. ~Unwritten /\ ~Unwritten' /\ EngineOwns' = EngineOwns /\ CompressOwns' = CompressOwns
  BY <1>2 DEF TransmitGoes, Unwritten, EngineOwns, CompressOwns,
              Handover, HandoverTokens, ExactlyOne
<1>4. /\ newTask \in (Tasks \cup {NoTask}) \ {transmitTask}
      /\ EngineOwns => analysisTask \in Tasks \ {transmitTask}
      /\ CompressOwns => compressTask \in Tasks \ {transmitTask}
  BY <1>2 DEF Handover, TypeOK, TaskOwnership
<1>5. \A t \in Tasks \ {transmitTask} : FrameOf(t)' = FrameOf(t)
  BY DEF Delete, FrameOf, Handover, TypeOK
<1>6. Mailbox' = Mailbox /\ Judged' = Judged
  BY <1>1, <1>3, <1>4, <1>5 DEF Mailbox, Judged, FrameOf
<1>7. InTransmit' = InTransmit /\ InCompress' = InCompress
  BY <1>1, <1>3, <1>4, <1>5 DEF InTransmit, InCompress, FrameOf
<1>8. QED
  BY <1>1, <1>6, <1>7 DEF Flow!vars

-----------------------------------------------------------------------------
(* Steps that hand a task on *)

\* The engine takes the frame out of the mailbox, or finds it empty.
LEMMA TakeStep ==
    ASSUME Handover, LiveFrames, TakeTask
    PROVE  Flow!Take \/ UNCHANGED Flow!vars
<1> USE DEF TakeTask, memory, screens, device
<1>1. UNCHANGED <<heap, compressTask, transmitTask, kept, sent>> /\ newTask' = NoTask
  OBVIOUS
<1>2. ~EngineOwns /\ CompressOwns' = CompressOwns /\ Unwritten' = Unwritten
  BY DEF EngineGoes, EngineOwns, CompressOwns, Unwritten
<1>3. InTransmit' = InTransmit /\ InCompress' = InCompress
  BY <1>1, <1>2 DEF InTransmit, InCompress, FrameOf
<1>4. Judged = NoFrame /\ Mailbox' = NoFrame
  BY <1>1, <1>2 DEF Judged, Mailbox
<1>5. CASE newTask = NoTask
  <2>1. ~EngineOwns'
    BY <1>5 DEF EngineGoes, EngineOwns
  <2>2. Judged' = NoFrame /\ Mailbox = NoFrame
    BY <1>5, <2>1 DEF Judged, Mailbox
  <2>3. QED
    BY <1>1, <1>3, <1>4, <2>2 DEF Flow!vars
<1>6. CASE newTask # NoTask
  <2>1. EngineOwns' /\ analysisTask' = newTask
    BY <1>6 DEF EngineGoes, EngineOwns
  <2>2. Judged' = Mailbox
    BY <1>1, <1>6, <2>1 DEF Judged, Mailbox, FrameOf
  <2>3. Mailbox # NoFrame
    BY <1>6, ConstantsAssumption
    DEF Mailbox, LiveFrames, Handover, TypeOK, Frame, NoFrame
  <2>4. QED
    BY <1>1, <1>3, <1>4, <2>2, <2>3 DEF Flow!Take
<1>7. QED
  BY <1>5, <1>6

\* compress is free, so the frame joins the line behind the one of transmit.
LEMMA KeepStep ==
    ASSUME Handover, LiveFrames, HandToCompress
    PROVE  Flow!Keep
<1> USE DEF HandToCompress, memory, device
<1>1. /\ UNCHANGED <<heap, newTask, analysisTask, transmitTask, sent>>
      /\ compressTask' = analysisTask /\ kept' = FrameOf(analysisTask)
  OBVIOUS
<1>2. EngineOwns /\ ~EngineOwns' /\ CompressOwns' /\ Unwritten' = Unwritten
  BY DEF EngineGoes, WaitEvent, EngineOwns, CompressOwns, Unwritten
<1>3. ~CompressOwns
  BY DEF WaitEvent, EngineGoes, CompressOwns, Handover, HandoverTokens, ExactlyOne
<1>4. Mailbox' = Mailbox /\ InTransmit' = InTransmit
  BY <1>1, <1>2 DEF Mailbox, InTransmit, FrameOf
<1>5. Judged = FrameOf(analysisTask) /\ Judged' = NoFrame /\ Judged # NoFrame
  BY <1>2, ConstantsAssumption
  DEF Judged, Handover, TaskOwnership, LiveFrames, Frame, NoFrame
<1>6. InCompress = <<>> /\ InCompress' = <<Judged>>
  BY <1>1, <1>2, <1>3, <1>5 DEF InCompress, FrameOf
<1>7. /\ Len(Line) < 2
      /\ Line' = Append(Line, Judged)
  BY <1>4, <1>6 DEF Line, InTransmit
<1>8. QED
  BY <1>1, <1>4, <1>5, <1>7 DEF Flow!Keep, Flow!Capacity, Line

\* transmit is free, so the only frame of the line stays the only one.
LEMMA PassStep ==
    ASSUME Handover, HandToTransmit
    PROVE  UNCHANGED Flow!vars
<1> USE DEF HandToTransmit, memory, screens, device
<1>1. /\ UNCHANGED <<heap, newTask, analysisTask, compressTask, kept, sent>>
      /\ transmitTask' = compressTask
  OBVIOUS
<1>2. EngineOwns' = EngineOwns /\ CompressOwns /\ ~CompressOwns' /\ ~Unwritten /\ Unwritten'
  BY DEF CompressGoes, WaitEvent, EngineOwns, CompressOwns, Unwritten,
         Handover, HandoverTokens, ExactlyOne
<1>3. Mailbox' = Mailbox /\ Judged' = Judged
  BY <1>1, <1>2 DEF Mailbox, Judged, FrameOf
<1>4. /\ InTransmit = <<>> /\ InCompress = <<FrameOf(compressTask)>>
      /\ InTransmit' = <<FrameOf(compressTask)>> /\ InCompress' = <<>>
  BY <1>1, <1>2 DEF InTransmit, InCompress, FrameOf
<1>5. (InTransmit \o InCompress)' = InTransmit \o InCompress
  BY <1>4
<1>6. QED
  BY <1>1, <1>3, <1>5 DEF Flow!vars

\* A write, successful or not, takes the oldest frame out of the line.
LEMMA WriteStep ==
    ASSUME Handover, WriteOk \/ WriteFails
    PROVE  Flow!Deliver
<1> USE DEF WriteOk, WriteFails, memory, pointers, screens
<1>1. /\ UNCHANGED <<heap, newTask, analysisTask, compressTask, transmitTask, kept>>
      /\ sent' = StreamOf(transmitTask) /\ transmitPc = "write"
  BY DEF TransmitGoes
<1>2. EngineOwns' = EngineOwns /\ CompressOwns' = CompressOwns /\ Unwritten /\ ~Unwritten'
  BY DEF TransmitGoes, EngineOwns, CompressOwns, Unwritten,
         Handover, HandoverTokens, ExactlyOne
<1>3. Mailbox' = Mailbox /\ Judged' = Judged /\ InCompress' = InCompress
  BY <1>1, <1>2 DEF Mailbox, Judged, InCompress, FrameOf
<1>4. InTransmit = <<sent'>> /\ InTransmit' = <<>>
  BY <1>1, <1>2 DEF InTransmit, Handover, StreamShowsFrame, TransmitOwns
<1>5. Line # <<>> /\ sent' = Head(Line) /\ Line' = Tail(Line)
  <2>1. CASE InCompress = <<>>
    BY <2>1, <1>3, <1>4 DEF Line
  <2>2. CASE InCompress = <<FrameOf(compressTask)>>
    <3>1. Line = <<sent'>> \o <<FrameOf(compressTask)>>
      BY <2>2, <1>4 DEF Line
    <3>2. Line' = <<FrameOf(compressTask)>>
      BY <2>2, <1>3, <1>4 DEF Line
    <3>3. QED
      BY <3>1, <3>2, TwoPlaces
  <2>3. QED
    BY <2>1, <2>2 DEF InCompress
<1>6. QED
  BY <1>1, <1>3, <1>5 DEF Flow!Deliver, Line

-----------------------------------------------------------------------------
(* The refinement *)

\* At the start nothing is on its way.
LEMMA FlowInit == Init => Flow!Init
  BY DEF Init, Flow!Init, Mailbox, Judged, InTransmit, InCompress,
         EngineOwns, CompressOwns, Unwritten

\* Every step of the pipeline is a step of FrameFlow, or none.
LEMMA FlowStep == Handover /\ LiveFrames /\ [Next]_vars => [Flow!Next]_(Flow!vars)
<1> SUFFICES ASSUME Handover, LiveFrames, [Next]_vars PROVE [Flow!Next]_(Flow!vars)
  OBVIOUS
<1> USE DEF Flow!Next, Flow!Judge
<1>1. CASE Main
  BY <1>1, SubmitStep, QuietSteps, QuietStutters DEF Main
<1>2. CASE Engine
  BY <1>2, TakeStep, FieldSteps, DropStep, KeepStep, QuietSteps, QuietStutters DEF Engine
<1>3. CASE Compressor
  BY <1>3, FieldSteps, PassStep, QuietSteps, QuietStutters DEF Compressor
<1>4. CASE Transmitter
  BY <1>4, WriteStep, FreeStep, QuietSteps, QuietStutters DEF Transmitter
<1>5. CASE UNCHANGED vars
  <2>1. Quiet
    BY <1>5 DEF vars, pcs, data, memory, pointers, screens, device, Quiet,
                EngineOwns, CompressOwns, Unwritten
  <2>2. QED
    BY <2>1, QuietStutters
<1>6. QED
  BY <1>1, <1>2, <1>3, <1>4, <1>5 DEF Next

\* The pipeline implements FrameFlow: what the device is handed is a
\* subsequence of what was submitted, in order, and a frame that is left out
\* was replaced before the engine looked at it or repeats the one before.
THEOREM PipelineImplementsFlow == Spec => FlowSafe
<1>1. Init => LiveFrames
  BY DEF Init, LiveFrames
<1>2. Spec => [](Handover /\ LiveFrames)
  BY <1>1, HandoverInvariant, LiveFramesStep, PTL DEF Spec
<1>3. QED
  BY <1>2, FlowInit, FlowStep, PTL DEF Spec, FlowSafe, Flow!Safe
=============================================================================
