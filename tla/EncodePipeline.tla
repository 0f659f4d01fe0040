--------------------------- MODULE EncodePipeline ---------------------------
(***************************************************************************)
(* The three-stage encoding pipeline of libusbdisp                         *)
(* (libenc/EncodeEngine.cpp) driven by the capture loop of main.c through  *)
(* UsbDisplay::jxStartEncode.  Four threads share it:                      *)
(*                                                                         *)
(*   main     grabs the desktop, StartEncode(), WaitEvent(sync_event)      *)
(*   engine   EncodeEngine::Run / Analysis: takes m_pNewTask, compares it  *)
(*            with the previous frame, hands it to compress                *)
(*   compress EncodeEngine::Compress: encodes the screen p_compress points *)
(*            to into the task's bitstream, hands the task to transmit     *)
(*   transmit EncodeEngine::Transmit: configures the device when the       *)
(*            resolution changed and writes the bitstream to it            *)
(*                                                                         *)
(* A task_t lives on the heap; what a stage holds is a pointer, which      *)
(* keeps its value after `delete` unless the code resets it.  event_t is   *)
(* the binary event of libenc/event.c, one step per call; m_first and      *)
(* m_width are written by engine and transmit without a lock, one step per *)
(* access.  The display at the other end of the USB cable is external: it  *)
(* shows what it receives if it is configured for the mode of the frame and*)
(* the frame is a full one, or it has decoded every frame since a full one.*)
(***************************************************************************)
EXTENDS Naturals, Sequences

CONSTANTS
    Images,          \* contents of a desktop, after colour conversion
    Modes,           \* width x height of a desktop, a whole number of blocks
    NoMode,          \* m_width = 0, or a device that was never configured
    NoImage,         \* a bitstream buffer nothing was encoded into
    Tasks,           \* addresses `new task_t` can return
    NoTask,          \* NULL
    ControlCanFail,  \* control transfers (SetQuantTable, SetResolution) may fail
    WriteCanFail     \* bulk transfers (usbdev::Write) may fail

ASSUME ConstantsAssumption ==
    /\ Images # {} /\ NoImage \notin Images
    /\ Modes # {} /\ NoMode \notin Modes
    /\ NoTask \notin Tasks
    /\ ControlCanFail \in BOOLEAN
    /\ WriteCanFail \in BOOLEAN

Frame == [mode : Modes, img : Images]
NoFrame == [mode |-> NoMode, img |-> NoImage]
AnyFrame == [mode : Modes \cup {NoMode}, img : Images \cup {NoImage}]

\* task_t: the geometry, the captured pixels, the two flags, and the image
\* its bitstream encodes.
Task == [mode : Modes \cup {NoMode}, img : Images \cup {NoImage},
         first : BOOLEAN, changed : BOOLEAN, stream : Images \cup {NoImage}]
Blank == [mode |-> NoMode, img |-> NoImage,
          first |-> FALSE, changed |-> FALSE, stream |-> NoImage]

\* sync_event, m_engine (its flag word, of which only EVENT_ENCODE is ever
\* sent while the engine runs), m_ready[] and m_start[].
Events == {"sync", "engine", "readyC", "startC", "readyT", "startT"}

VARIABLES
    mainPc, enginePc, compressPc, transmitPc,
    events,        \* the events whose flag is set
    live,          \* the tasks allocated and not deleted
    heap,          \* contents of the tasks; a deleted one is scrubbed
    newTask,       \* m_pNewTask
    analysisTask,  \* m_AnalysisTask
    compressTask,  \* m_CompressTask
    transmitTask,  \* m_TransmitTask
    mGeometry,     \* m_width, m_height: NoMode when m_width is 0
    mFirst,        \* m_first
    kept,          \* the frame in the screen p_compress points to
    settled,       \* both screens refer to the same blocks: a[i] = c[i] for all i
    devMode,       \* the mode the device was last configured for
    sent,          \* the frame handed to the device last
    inStep         \* the device shows the frame in `sent`

pcs      == <<mainPc, enginePc, compressPc, transmitPc>>
pointers == <<newTask, analysisTask, compressTask, transmitTask>>
memory   == <<live, heap>>
flags    == <<mGeometry, mFirst>>
screens  == <<kept, settled>>
device   == <<devMode, sent, inStep>>
data     == <<memory, pointers, flags, screens, device>>
vars     == <<pcs, events, data>>

-----------------------------------------------------------------------------
(* Helpers *)

FrameOf(t) == [mode |-> heap[t].mode, img |-> heap[t].img]

MainGoes(from, to)     == /\ mainPc = from /\ mainPc' = to
                          /\ UNCHANGED <<enginePc, compressPc, transmitPc>>
EngineGoes(from, to)   == /\ enginePc = from /\ enginePc' = to
                          /\ UNCHANGED <<mainPc, compressPc, transmitPc>>
CompressGoes(from, to) == /\ compressPc = from /\ compressPc' = to
                          /\ UNCHANGED <<mainPc, enginePc, transmitPc>>
TransmitGoes(from, to) == /\ transmitPc = from /\ transmitPc' = to
                          /\ UNCHANGED <<mainPc, enginePc, compressPc>>

SetEvent(e)  == events' = events \cup {e}
WaitEvent(e) == e \in events /\ events' = events \ {e}

Delete(t) == /\ live' = live \ {t}
             /\ heap' = [heap EXCEPT ![t] = Blank]

Init ==
    /\ mainPc = "idle" /\ enginePc = "boot"
    /\ compressPc = "boot" /\ transmitPc = "boot"
    /\ events = {}
    /\ live = {}
    /\ heap = [t \in Tasks |-> Blank]
    /\ newTask = NoTask /\ analysisTask = NoTask
    /\ compressTask = NoTask /\ transmitTask = NoTask
    /\ mGeometry = NoMode /\ mFirst = TRUE
    /\ kept = NoFrame /\ settled = FALSE
    /\ devMode = NoMode /\ sent = NoFrame /\ inStep = FALSE

-----------------------------------------------------------------------------
(* main: the capture loop and jxStartEncode *)

\* m_pNewTask == NULL: a new task, which copies m_first.
SubmitNew(f) ==
    /\ newTask = NoTask
    /\ \E t \in Tasks \ live :
          /\ newTask' = t
          /\ live' = live \cup {t}
          /\ heap' = [heap EXCEPT ![t] =
                        [mode |-> f.mode, img |-> f.img, first |-> mFirst,
                         changed |-> FALSE, stream |-> NoImage]]

\* The task is still waiting: it is overwritten.  `first` is read again only
\* if the size differs.
Resubmit(f) ==
    /\ newTask # NoTask
    /\ heap' = [heap EXCEPT
                  ![newTask].mode = f.mode,
                  ![newTask].img = f.img,
                  ![newTask].first = IF f.mode # heap[newTask].mode
                                     THEN mFirst ELSE heap[newTask].first]
    /\ UNCHANGED <<newTask, live>>

\* The critical section of StartEncode, with the frame main has just grabbed.
StartEncode(f) ==
    /\ MainGoes("idle", "send")
    /\ SubmitNew(f) \/ Resubmit(f)
    /\ UNCHANGED <<events, analysisTask, compressTask, transmitTask, flags,
                   screens, device>>

SendEvent ==
    /\ MainGoes("send", "sync")
    /\ SetEvent("engine")
    /\ UNCHANGED data

WaitSync ==
    /\ MainGoes("sync", "idle")
    /\ WaitEvent("sync")
    /\ UNCHANGED data

Main == (\E f \in Frame : StartEncode(f)) \/ SendEvent \/ WaitSync

-----------------------------------------------------------------------------
(* engine: Run and Analysis *)

EngineBoot ==
    /\ EngineGoes("boot", "wait")
    /\ mFirst' = TRUE
    /\ SetEvent("sync")
    /\ UNCHANGED <<memory, pointers, mGeometry, screens, device>>

EngineWake ==
    /\ EngineGoes("wait", "take")
    /\ WaitEvent("engine")
    /\ UNCHANGED data

\* Defect (a variant, for the mutation of the runs): the pointer is not reset.
TakeTaskKeepsPointer ==
    /\ EngineGoes("take", IF newTask = NoTask THEN "signal" ELSE "check")
    /\ analysisTask' = newTask
    /\ UNCHANGED <<events, memory, newTask, compressTask, transmitTask, flags,
                   screens, device>>

\* The frame may already have been taken on an earlier event.
TakeTask ==
    /\ EngineGoes("take", IF newTask = NoTask THEN "signal" ELSE "check")
    /\ analysisTask' = newTask
    /\ newTask' = NoTask
    /\ UNCHANGED <<events, memory, compressTask, transmitTask, flags, screens,
                   device>>

CheckGeometry ==
    /\ EngineGoes("check", IF heap[analysisTask].mode # mGeometry THEN "geometry" ELSE "diff")
    /\ UNCHANGED <<events, memory, pointers, flags, screens, device>>

SetGeometry ==
    /\ EngineGoes("geometry", "first")
    /\ mGeometry' = heap[analysisTask].mode
    /\ heap' = [heap EXCEPT ![analysisTask].changed = TRUE,
                            ![analysisTask].first = TRUE]
    /\ UNCHANGED <<events, live, pointers, mFirst, screens, device>>

SetFirst ==
    /\ EngineGoes("first", "diff")
    /\ mFirst' = TRUE
    /\ UNCHANGED <<events, memory, pointers, mGeometry, screens, device>>

\* BlockEncoder::Analysis compared with the kept frame: every block is equal
\* and both screens already refer to it, so there is no block to encode.
Repeats(t) == ~heap[t].first /\ FrameOf(t) = kept
NoBlocks(t) == Repeats(t) /\ settled

\* Defect: the return for a dropped frame skips SetEvent(sync_event).
DropFrameSilently ==
    /\ EngineGoes("diff", "wait")
    /\ NoBlocks(analysisTask)
    /\ Delete(analysisTask)
    /\ UNCHANGED <<events, pointers, flags, screens, device>>

DropFrame ==
    /\ EngineGoes("diff", "signal")
    /\ NoBlocks(analysisTask)
    /\ Delete(analysisTask)
    /\ UNCHANGED <<events, pointers, flags, screens, device>>

KeepFrame ==
    /\ EngineGoes("diff", "handover")
    /\ ~NoBlocks(analysisTask)
    /\ UNCHANGED <<events, memory, pointers, flags, screens, device>>

\* Defect: the engine does not wait for m_ready[PIPE_COMPRESS].
HandToBusyCompress ==
    /\ EngineGoes("handover", "kick")
    /\ events' = events \ {"readyC"}
    /\ compressTask' = analysisTask
    /\ kept' = FrameOf(analysisTask)
    /\ settled' = Repeats(analysisTask)
    /\ UNCHANGED <<memory, newTask, analysisTask, transmitTask, flags, device>>

\* Wait for compress, hand it the task, ToggleScreen.
HandToCompress ==
    /\ EngineGoes("handover", "kick")
    /\ WaitEvent("readyC")
    /\ compressTask' = analysisTask
    /\ kept' = FrameOf(analysisTask)
    /\ settled' = Repeats(analysisTask)
    /\ UNCHANGED <<memory, newTask, analysisTask, transmitTask, flags, device>>

KickCompress ==
    /\ EngineGoes("kick", "signal")
    /\ SetEvent("startC")
    /\ UNCHANGED data

\* Defect: the flags of m_engine are cleared after Analysis(), not before.
SignalSyncClearsLate ==
    /\ EngineGoes("signal", "wait")
    /\ events' = (events \cup {"sync"}) \ {"engine"}
    /\ UNCHANGED data

SignalSync ==
    /\ EngineGoes("signal", "wait")
    /\ SetEvent("sync")
    /\ UNCHANGED data

Engine == \/ EngineBoot \/ EngineWake \/ TakeTask \/ CheckGeometry
          \/ SetGeometry \/ SetFirst \/ DropFrame \/ KeepFrame
          \/ HandToCompress \/ KickCompress \/ SignalSync

-----------------------------------------------------------------------------
(* compress *)

CompressBoot ==
    /\ CompressGoes("boot", "wait")
    /\ SetEvent("readyC")
    /\ UNCHANGED data

\* Defect: compress declares itself ready before it has read the screen.
CompressStartReleases ==
    /\ CompressGoes("wait", "encode")
    /\ "startC" \in events
    /\ events' = (events \ {"startC"}) \cup {"readyC"}
    /\ UNCHANGED data

CompressStart ==
    /\ CompressGoes("wait", "encode")
    /\ WaitEvent("startC")
    /\ UNCHANGED data

\* The encoder reads the screen p_compress points to, never the task.
Compress ==
    /\ CompressGoes("encode", "pass")
    /\ heap' = [heap EXCEPT ![compressTask].stream = kept.img]
    /\ UNCHANGED <<events, live, pointers, flags, screens, device>>

\* Defect: compress does not wait for m_ready[PIPE_TRANSMIT].
HandToBusyTransmit ==
    /\ CompressGoes("pass", "release")
    /\ events' = events \ {"readyT"}
    /\ transmitTask' = compressTask
    /\ UNCHANGED <<memory, newTask, analysisTask, compressTask, flags, screens,
                   device>>

HandToTransmit ==
    /\ CompressGoes("pass", "release")
    /\ WaitEvent("readyT")
    /\ transmitTask' = compressTask
    /\ UNCHANGED <<memory, newTask, analysisTask, compressTask, flags, screens,
                   device>>

ReleaseCompress ==
    /\ CompressGoes("release", "kick")
    /\ SetEvent("readyC")
    /\ UNCHANGED data

KickTransmit ==
    /\ CompressGoes("kick", "wait")
    /\ SetEvent("startT")
    /\ UNCHANGED data

Compressor == \/ CompressBoot \/ CompressStart \/ Compress
              \/ HandToTransmit \/ ReleaseCompress \/ KickTransmit

-----------------------------------------------------------------------------
(* transmit, and the device *)

TransmitBoot ==
    /\ TransmitGoes("boot", "wait")
    /\ SetEvent("readyT")
    /\ UNCHANGED data

TransmitStart ==
    /\ TransmitGoes("wait", "config")
    /\ WaitEvent("startT")
    /\ UNCHANGED data

\* The quantisation tables and SetResolution, when the resolution changed.
\* Every result is ignored: the frame is written whatever happened.
Configure ==
    /\ TransmitGoes("config", "write")
    /\ \/ heap[transmitTask].changed /\ devMode' = heap[transmitTask].mode
       \/ heap[transmitTask].changed /\ ControlCanFail /\ UNCHANGED devMode
       \/ ~heap[transmitTask].changed /\ UNCHANGED devMode
    /\ UNCHANGED <<events, memory, pointers, flags, screens, sent, inStep>>

\* The frame the bitstream of the task shows, once decoded.
StreamOf(t) == [mode |-> heap[t].mode, img |-> heap[t].stream]

WriteOk ==
    /\ TransmitGoes("write", "ok")
    /\ sent' = StreamOf(transmitTask)
    /\ inStep' = /\ inStep \/ heap[transmitTask].first
                 /\ devMode = heap[transmitTask].mode
    /\ UNCHANGED <<events, memory, pointers, flags, screens, devMode>>

WriteFails ==
    /\ TransmitGoes("write", "fail")
    /\ WriteCanFail
    /\ sent' = StreamOf(transmitTask)
    /\ inStep' = FALSE
    /\ UNCHANGED <<events, memory, pointers, flags, screens, devMode>>

ClearFirst ==
    /\ TransmitGoes("ok", "free")
    /\ mFirst' = FALSE
    /\ UNCHANGED <<events, memory, pointers, mGeometry, screens, device>>

RestoreFirst ==
    /\ TransmitGoes("fail", "reset")
    /\ mFirst' = TRUE
    /\ UNCHANGED <<events, memory, pointers, mGeometry, screens, device>>

\* Defect: m_width keeps its value after a failed write.
ResetKeepsGeometry ==
    /\ TransmitGoes("reset", "free")
    /\ devMode' \in {devMode, NoMode}
    /\ UNCHANGED <<events, memory, pointers, flags, screens, sent, inStep>>

\* m_width = 0, then DeviceReset(): a device that comes back from the reset
\* has lost its mode, one that is gone keeps it in this model.
ForgetGeometry ==
    /\ TransmitGoes("reset", "free")
    /\ mGeometry' = NoMode
    /\ devMode' \in {devMode, NoMode}
    /\ UNCHANGED <<events, memory, pointers, mFirst, screens, sent, inStep>>

FreeTask ==
    /\ TransmitGoes("free", "ready")
    /\ Delete(transmitTask)
    /\ transmitTask' = NoTask
    /\ UNCHANGED <<events, newTask, analysisTask, compressTask, flags, screens,
                   device>>

\* Defect: transmit does not say that it is free again.
TransmitReadySilent == TransmitGoes("ready", "wait") /\ UNCHANGED <<events, data>>

TransmitReady ==
    /\ TransmitGoes("ready", "wait")
    /\ SetEvent("readyT")
    /\ UNCHANGED data

Transmitter == \/ TransmitBoot \/ TransmitStart \/ Configure \/ WriteOk
               \/ WriteFails \/ ClearFirst \/ RestoreFirst \/ ForgetGeometry
               \/ FreeTask \/ TransmitReady

-----------------------------------------------------------------------------
Next == Main \/ Engine \/ Compressor \/ Transmitter

\* Each thread is scheduled as long as it can move.  main never stops
\* grabbing frames; a transfer returns, with success or not (every libusb call
\* has a timeout; usbdev::SetResolution polls the status register without one,
\* and is taken to see the display get ready).
Fairness == WF_vars(Main) /\ WF_vars(Engine) /\ WF_vars(Compressor) /\ WF_vars(Transmitter)

Spec == Init /\ [][Next]_vars
FairSpec == Spec /\ Fairness
-----------------------------------------------------------------------------
(* Who owns a task.  A stage owns the task behind its pointer from the      *)
(* moment it is handed over until it hands it on or deletes it.             *)

EngineOwns   == enginePc \in {"check", "geometry", "first", "diff", "handover"}
CompressOwns == \/ enginePc = "kick" \/ "startC" \in events
                \/ compressPc \in {"encode", "pass"}
TransmitOwns == \/ compressPc \in {"release", "kick"} \/ "startT" \in events
                \/ transmitPc \in {"config", "write", "ok", "fail", "reset", "free"}

\* The task of transmit has not been handed to the device yet.
Unwritten == \/ compressPc \in {"release", "kick"} \/ "startT" \in events
             \/ transmitPc \in {"config", "write"}

\* The values every variable ranges over.
TypeOK ==
    /\ mainPc \in {"idle", "send", "sync"}
    /\ enginePc \in {"boot", "wait", "take", "check", "geometry", "first",
                     "diff", "handover", "kick", "signal"}
    /\ compressPc \in {"boot", "wait", "encode", "pass", "release", "kick"}
    /\ transmitPc \in {"boot", "wait", "config", "write", "ok", "fail",
                       "reset", "free", "ready"}
    /\ events \subseteq Events
    /\ live \subseteq Tasks
    /\ heap \in [Tasks -> Task]
    /\ newTask \in live \cup {NoTask}
    /\ {analysisTask, compressTask, transmitTask} \subseteq Tasks \cup {NoTask}
    /\ mGeometry \in Modes \cup {NoMode} /\ mFirst \in BOOLEAN
    /\ kept \in AnyFrame /\ settled \in BOOLEAN
    /\ devMode \in Modes \cup {NoMode}
    /\ sent \in AnyFrame /\ inStep \in BOOLEAN

\* The permission to use m_CompressTask (m_TransmitTask) is a token: set in
\* the ready event, held by the stage that fills the pointer, set in the start
\* event, or held by the stage that works on it, and never in two of these
\* places or in none.  Losing one stops the pipeline; two of them let a stage
\* overwrite a pointer the next one is still using.
ExactlyOne(a, b, c, d) ==
    /\ a \/ b \/ c \/ d
    /\ ~(a /\ b) /\ ~(a /\ c) /\ ~(a /\ d) /\ ~(b /\ c) /\ ~(b /\ d) /\ ~(c /\ d)
HandoverTokens ==
    /\ ExactlyOne("readyC" \in events,
                  enginePc = "kick",
                  "startC" \in events,
                  compressPc \in {"boot", "encode", "pass", "release"})
    /\ ExactlyOne("readyT" \in events,
                  compressPc \in {"release", "kick"},
                  "startT" \in events,
                  transmitPc # "wait")

\* A task is used only between its `new` and its `delete`: the pointer of every
\* stage that owns one leads to a live task, no two stages share one, and no
\* live task is out of everyone's reach (a leak of a bitmap and a bitstream
\* per frame).
TaskOwnership ==
    /\ EngineOwns => analysisTask \in live \ {newTask}
    /\ CompressOwns => compressTask \in live \ {newTask}
    /\ TransmitOwns => transmitTask \in live \ {newTask}
    /\ EngineOwns /\ CompressOwns => analysisTask # compressTask
    /\ EngineOwns /\ TransmitOwns => analysisTask # transmitTask
    /\ CompressOwns /\ TransmitOwns => compressTask # transmitTask
    /\ \A t \in live : \/ t = newTask
                       \/ EngineOwns /\ t = analysisTask
                       \/ CompressOwns /\ t = compressTask
                       \/ TransmitOwns /\ t = transmitTask

\* A frame StartEncode left in m_pNewTask is never forgotten: EVENT_ENCODE is
\* set, about to be set, or the engine is about to look.
PendingIsAnnounced ==
    newTask # NoTask => \/ mainPc = "send" \/ "engine" \in events
                        \/ enginePc = "take"

\* main is never left waiting for a sync_event nobody is going to set.
SyncIsComing ==
    mainPc = "sync" => \/ "sync" \in events \/ "engine" \in events
                       \/ enginePc # "wait"

\* The bitstream of a task shows the frame that was captured into it, although
\* the encoder reads the screen the engine toggles and not the task.
StreamShowsFrame ==
    /\ CompressOwns => kept = FrameOf(compressTask)
    /\ compressPc = "pass" => StreamOf(compressTask) = FrameOf(compressTask)
    /\ TransmitOwns => StreamOf(transmitTask) = FrameOf(transmitTask)

\* After a failed write, or in the wrong mode, the display cannot use what it
\* receives.  Either a full frame that configures the device is on its way, or
\* m_width is (or is about to be) 0, so that the next frame is such a frame:
\* whatever the unlocked writes of m_first and m_width by engine and transmit
\* race to, and whatever was in flight behind the failed write.
RepairInFlight ==
    \/ enginePc \in {"first", "diff", "handover"} /\ heap[analysisTask].changed
    \/ CompressOwns /\ heap[compressTask].changed
    \/ Unwritten /\ heap[transmitTask].changed
RecoveryPending ==
    inStep \/ mGeometry = NoMode \/ enginePc = "geometry"
           \/ transmitPc \in {"fail", "reset"} \/ RepairInFlight

\* The trace "SetResolution : %d x %d" of Transmit says that the device is in
\* the resolution of the frame which is about to be written.
ReportedResolutionIsSet ==
    transmitPc = "write" /\ heap[transmitTask].changed
    => devMode = heap[transmitTask].mode

-----------------------------------------------------------------------------
(* Liveness, under FairSpec *)

\* jxStartEncode returns to the capture loop.
CallReturns == mainPc = "sync" ~> mainPc = "idle"

\* Once the desktop rests at f (no other frame is submitted) and writes have
\* stopped failing, the display shows f and goes on showing it.
DisplayCatchesUp ==
    \A f \in Frame :
        <>[](newTask # NoTask => FrameOf(newTask) = f) /\ <>[](transmitPc # "fail")
        => <>[](sent = f /\ inStep)

-----------------------------------------------------------------------------
(* The pipeline is a FrameFlow: a task waiting in m_pNewTask is the        *)
(* mailbox, the one the engine owns is being judged, those of compress and *)
(* of transmit, until its write, are the line.                             *)

Mailbox    == IF newTask = NoTask THEN NoFrame ELSE FrameOf(newTask)
Judged     == IF EngineOwns THEN FrameOf(analysisTask) ELSE NoFrame
InTransmit == IF Unwritten THEN <<FrameOf(transmitTask)>> ELSE <<>>
InCompress == IF CompressOwns THEN <<FrameOf(compressTask)>> ELSE <<>>

Flow == INSTANCE FrameFlow WITH
    Frames <- Frame, NoFrame <- NoFrame,
    mailbox <- Mailbox, judged <- Judged, last <- kept,
    line <- InTransmit \o InCompress, shown <- sent

\* Every step of the pipeline is a step of FrameFlow or leaves it alone: frames
\* are never reordered or made up, skipped only when they repeat the last kept
\* one, and what the device is handed is the oldest of them, undisturbed.
FlowSafe == Flow!Safe

\* And every behaviour of the pipeline is one of FrameFlow: what was submitted
\* last is looked at, and what was kept gets to the device, in the end.
FlowSpec == Flow!Spec
=============================================================================
