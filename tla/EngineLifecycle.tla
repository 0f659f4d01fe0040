-------------------------- MODULE EngineLifecycle --------------------------
(***************************************************************************)
(* The life of an EncodeEngine: construction, Start, frames and            *)
(* destruction, with every thread it owns (libenc/ThreadBase.cpp,          *)
(* EncodeEngine.cpp, Encoder.cpp) and the display behind usbdev.cpp.       *)
(*                                                                         *)
(*   main     constructs, starts, submits and destroys the engine          *)
(*   engine   the thread of ThreadBase::Start: PrivateStart, Run,          *)
(*            PrivateClose                                                 *)
(*   compress BlockEncoder::Compress: shares a frame's list of blocks out  *)
(*            to the encode units and waits for them                       *)
(*   transmit configures the display and writes to it                      *)
(*   unit u   EncodeUnit::ThreadStart, for u in 1..Helpers; unit 0 is run  *)
(*            by compress itself                                           *)
(*                                                                         *)
(* EncodePipeline follows the frames through the same stages; here a frame *)
(* is the number of blocks it lists, and what is followed is who may touch *)
(* what while the engine is built up and torn down.  No caller in the      *)
(* repository deletes an engine today (capture.cpp:17 has the delete in a  *)
(* comment): the destructor is modelled as the class offers it.            *)
(***************************************************************************)
EXTENDS Naturals, FiniteSets

CONSTANTS
    Helpers,        \* ENC_THREADS - 1, the units with a thread of their own
    Share,          \* PROCESS_BLOCKS, the blocks a helper takes
    MaxCount,       \* bound: blocks a frame lists
    MaxFrames,      \* bound: frames submitted
    CreateCanFail   \* pthread_create may fail in ThreadBase::Start

ASSUME LifecycleAssumption ==
    /\ Helpers \in Nat /\ Share \in Nat \ {0}
    /\ MaxCount \in Nat \ {0} /\ MaxFrames \in Nat
    /\ CreateCanFail \in BOOLEAN

Unit   == 1..Helpers
Stages == {"main", "engine", "compress", "transmit"}
Objects == {"base", "device", "encoder"}

Ev(name)     == <<name, 0>>
EvOf(name, u) == <<name, u>>
Events ==
    {Ev(n) : n \in {"sync", "encode", "remove", "threadReady", "threadEnd",
                    "readyC", "startC", "readyT", "startT",
                    "compressEnd", "transmitEnd"}}
    \cup {EvOf(n, u) : n \in {"start", "ready", "end"}, u \in Unit}

VARIABLES
    pc,        \* where each stage's thread stands
    unitPc,    \* where each helper's thread stands
    events,    \* the events whose flag is set; m_engine has a flag per bit
    created,   \* ThreadBase::m_created
    ready,     \* ThreadBase::m_thread_ready
    done,      \* EncodeEngine::m_done
    ending,    \* the helpers whose `done` is set
    newTask,   \* m_pNewTask # NULL
    transmitTask, \* m_TransmitTask: never assigned, NULL or a task
    listed,    \* encode_count of the screen p_compress points to
    analysed,  \* encode_count of the screen p_analysis points to
    range,     \* block_start and block_end of every unit
    encoded,   \* how often each entry of the list was encoded for this frame
    frames,    \* frames submitted so far
    display,   \* its status register: busy or ready; or it is unplugged
    alive,     \* what is allocated and not yet deleted or destroyed
    crashed    \* the process has died

threads == <<pc, unitPc>>
base    == <<created, ready>>
tasks   == <<newTask, transmitTask, frames>>
blocks  == <<listed, analysed, range, encoded>>
vars    == <<threads, events, base, done, ending, tasks, blocks, display,
             alive, crashed>>

-----------------------------------------------------------------------------
Goes(t, from, to) == /\ ~crashed
                     /\ pc[t] = from
                     /\ pc' = [pc EXCEPT ![t] = to]
UnitGoes(u, from, to) == /\ ~crashed
                         /\ unitPc[u] = from
                         /\ unitPc' = [unitPc EXCEPT ![u] = to]

SetEvent(e)  == events' = events \cup {e}
WaitEvent(e) == e \in events /\ events' = events \ {e}

\* What a step of a stage leaves alone when it only moves on.
Rest == <<unitPc, base, done, ending, tasks, blocks, display, alive, crashed>>
JustGoes(t, from, to) == Goes(t, from, to) /\ UNCHANGED <<events, Rest>>
Sets(t, from, to, e)  == Goes(t, from, to) /\ SetEvent(e) /\ UNCHANGED Rest
Waits(t, from, to, e) == Goes(t, from, to) /\ WaitEvent(e) /\ UNCHANGED Rest

Init ==
    /\ pc = [t \in Stages |-> IF t = "main" THEN "new" ELSE "none"]
    /\ unitPc = [u \in Unit |-> "none"]
    /\ events = {}
    /\ created = FALSE /\ ready = FALSE /\ done = FALSE /\ ending = {}
    /\ newTask = FALSE /\ transmitTask = "unset" /\ frames = 0
    /\ listed = 0 /\ analysed = 0
    /\ range = [u \in 0..Helpers |-> <<0, 0>>]
    /\ encoded = [i \in 1..MaxCount |-> 0]
    /\ display = "ready" /\ alive = {} /\ crashed = FALSE

-----------------------------------------------------------------------------
(* main: EncodeEngine(), ThreadBase::Start(), StartEncode() *)

\* new BlockEncoder() starts the helpers; the engine's own constructor starts
\* compress and transmit.  m_TransmitTask is not initialised.
Construct ==
    /\ pc["main"] = "new"
    /\ pc' = [pc EXCEPT !["main"] = "constructed",
                        !["compress"] = "boot", !["transmit"] = "boot"]
    /\ unitPc' = [u \in Unit |-> "wait"]
    /\ alive' = Objects
    /\ UNCHANGED <<events, base, done, ending, tasks, blocks, display, crashed>>

\* Start holds m_critical_section while it creates the thread.
Start ==
    /\ pc["main"] = "constructed"
    /\ ~created /\ created' = TRUE
    /\ pc' = [pc EXCEPT !["main"] = "starting", !["engine"] = "boot"]
    /\ UNCHANGED <<unitPc, events, ready, done, ending, tasks, blocks, display,
                   alive, crashed>>

\* pthread_create fails: Start locks the mutex it holds once more.
StartFails ==
    /\ CreateCanFail
    /\ JustGoes("main", "constructed", "stuck")

\* WaitThreadReady: m_thread_ready is read without the event's mutex.
ThreadReady ==
    \/ /\ ready
       /\ JustGoes("main", "starting", "idle")
    \/ /\ ~ready
       /\ JustGoes("main", "starting", "waitReady")
    \/ Waits("main", "waitReady", "idle", Ev("threadReady"))

Submit ==
    /\ frames < MaxFrames
    /\ Goes("main", "idle", "submitted")
    /\ newTask' = TRUE
    /\ frames' = frames + 1
    /\ SetEvent(Ev("encode"))
    /\ UNCHANGED <<unitPc, base, done, ending, transmitTask, blocks, display,
                   alive, crashed>>

Synced == Waits("main", "submitted", "idle", Ev("sync"))

-----------------------------------------------------------------------------
(* main: ~EncodeEngine(), ~BlockEncoder(), ~ThreadBase() *)

\* Between two calls, also while the frame submitted last is under way, and
\* for an engine whose device could not be created and was never started.
Remove ==
    \E from \in {"constructed", "idle", "submitted"} :
        Sets("main", from, "waitExit", Ev("remove"))

\* WaitThreadExit: m_thread_ready is read without m_critical_section.
WaitThreadExit ==
    \/ /\ ready
       /\ JustGoes("main", "waitExit", "waitEnd")
    \/ /\ ~ready
       /\ JustGoes("main", "waitExit", "markDone")
    \/ Waits("main", "waitEnd", "markDone", Ev("threadEnd"))

MarkDone ==
    /\ Goes("main", "markDone", "wakeTransmit")
    /\ done' = TRUE
    /\ UNCHANGED <<unitPc, events, base, ending, tasks, blocks, display, alive,
                   crashed>>

WakeStages ==
    \/ Sets("main", "wakeTransmit", "wakeCompress", Ev("startT"))
    \/ Sets("main", "wakeCompress", "waitCompress", Ev("startC"))

\* Defect: the end of transmit is not awaited.
WaitStagesCompressOnly ==
    \/ Waits("main", "waitCompress", "waitTransmit", Ev("compressEnd"))
    \/ JustGoes("main", "waitTransmit", "deleteDevice")

WaitStages ==
    \/ Waits("main", "waitCompress", "waitTransmit", Ev("compressEnd"))
    \/ Waits("main", "waitTransmit", "deleteDevice", Ev("transmitEnd"))

\* delete m_device: ~usbdev closes the handle.
DeleteDevice ==
    /\ Goes("main", "deleteDevice", "endUnits")
    /\ alive' = alive \ {"device"}
    /\ UNCHANGED <<unitPc, events, base, done, ending, tasks, blocks, display,
                   crashed>>

\* ~BlockEncoder: ThreadEnd() for every helper ...
EndUnits ==
    /\ Goes("main", "endUnits", "waitUnits")
    /\ ending' = Unit
    /\ events' = events \cup {EvOf("start", u) : u \in Unit}
    /\ UNCHANGED <<unitPc, base, done, tasks, blocks, display, alive, crashed>>

\* ... then WaitThreadEnd(), and the buffers are freed.
FreeEncoder ==
    /\ Goes("main", "waitUnits", "exitBase")
    /\ \A u \in Unit : EvOf("end", u) \in events
    /\ events' = events \ {EvOf("end", u) : u \in Unit}
    /\ alive' = alive \ {"encoder"}
    /\ UNCHANGED <<unitPc, base, done, ending, tasks, blocks, display, crashed>>

\* ~ThreadBase would wait once more; by now m_thread_ready is false.  It
\* destroys the mutex and the events.
DestroyBase ==
    /\ ~ready
    /\ Goes("main", "exitBase", "end")
    /\ alive' = alive \ {"base"}
    /\ UNCHANGED <<unitPc, events, base, done, ending, tasks, blocks, display,
                   crashed>>

-----------------------------------------------------------------------------
(* engine: ThreadBase's threadfunction around EncodeEngine::Run *)

PrivateStart ==
    /\ Goes("engine", "boot", "run")
    /\ ready' = TRUE
    /\ SetEvent(Ev("threadReady"))
    /\ UNCHANGED <<unitPc, created, done, ending, tasks, blocks, display,
                   alive, crashed>>

Run == Sets("engine", "run", "loop", Ev("sync"))

\* All flags are taken at once and EVENT_REMOVE is looked at first: a frame
\* that is announced together with it stays in m_pNewTask.
TakeFlags ==
    /\ {Ev("encode"), Ev("remove")} \cap events # {}
    /\ Goes("engine", "loop",
            IF Ev("remove") \in events THEN "close" ELSE "analysis")
    /\ events' = events \ {Ev("encode"), Ev("remove")}
    /\ UNCHANGED Rest

\* The blocks of the frame that differ, from none to all of them.
Analysis ==
    /\ newTask' = FALSE
    /\ \E n \in 0..MaxCount :
          /\ analysed' = n
          /\ Goes("engine", "analysis",
                  IF newTask /\ n > 0 THEN "waitCompressReady" ELSE "announce")
          /\ newTask \/ n = analysed
    /\ UNCHANGED <<unitPc, events, base, done, ending, transmitTask, frames,
                   listed, range, encoded, display, alive, crashed>>

\* Defect: the screens are toggled before compress has said it is ready.
ToggleUnawaited ==
    /\ Goes("engine", "waitCompressReady", "startCompress")
    /\ listed' = analysed /\ analysed' = listed
    /\ UNCHANGED <<events, unitPc, base, done, ending, tasks, range, encoded,
                   display, alive, crashed>>

\* ToggleScreen, once compress is ready for the next frame.
Toggle ==
    /\ Goes("engine", "waitCompressReady", "startCompress")
    /\ WaitEvent(Ev("readyC"))
    /\ listed' = analysed /\ analysed' = listed
    /\ UNCHANGED <<unitPc, base, done, ending, tasks, range, encoded, display,
                   alive, crashed>>

StartCompress == Sets("engine", "startCompress", "announce", Ev("startC"))
Announce      == Sets("engine", "announce", "loop", Ev("sync"))

\* PrivateClose unlocks m_critical_section after SetEvent(m_ThreadEnd): what
\* either of them does once main has destroyed the base is undefined, and the
\* process may or may not survive it.
PrivateClose ==
    \/ /\ Goes("engine", "close", "closeSet")
       /\ created' = FALSE /\ ready' = FALSE
       /\ UNCHANGED <<unitPc, events, done, ending, tasks, blocks, display,
                      alive, crashed>>
    \/ /\ Goes("engine", "closeSet", "closeUnlock")
       /\ SetEvent(Ev("threadEnd"))
       /\ crashed' \in {FALSE, "base" \notin alive}
       /\ UNCHANGED <<unitPc, base, done, ending, tasks, blocks, display, alive>>
    \/ /\ Goes("engine", "closeUnlock", "gone")
       /\ crashed' \in {FALSE, "base" \notin alive}
       /\ UNCHANGED <<unitPc, events, base, done, ending, tasks, blocks,
                      display, alive>>

-----------------------------------------------------------------------------
(* compress, and the encode units it shares a frame out to *)

CompressBoot == Sets("compress", "boot", "check", Ev("readyC"))

\* while(!m_done) and the second look at m_done after the wait.
CompressCheck ==
    \/ JustGoes("compress", "check", IF done THEN "end" ELSE "wait")
    \/ Waits("compress", "wait", IF done THEN "end" ELSE "setup", Ev("startC"))

\* One unit more than the list fills shares, up to all of them.
UnitCount == LET wanted == (listed \div Share) + 1
             IN IF wanted > Helpers + 1 THEN Helpers + 1 ELSE wanted
Triggered == 1..(UnitCount - 1)

\* The helpers take a share each from the front, unit 0 whatever remains.
Ranges == [u \in 0..Helpers |->
    IF u \in Triggered THEN <<(u - 1) * Share, u * Share>>
    ELSE IF u = 0 THEN <<(UnitCount - 1) * Share, listed>>
    ELSE range[u]]

Setup ==
    /\ Goes("compress", "setup", "ownBlocks")
    /\ range' = Ranges
    /\ encoded' = [i \in 1..MaxCount |-> 0]
    /\ events' = events \cup {EvOf("start", u) : u \in Triggered}
    /\ UNCHANGED <<unitPc, base, done, ending, tasks, listed, analysed,
                   display, alive, crashed>>

\* EncodeBlocks over a unit's range of the list.
EncodeBlocks(u) ==
    encoded' = [i \in 1..MaxCount |->
        IF range[u][1] < i /\ i <= range[u][2] THEN encoded[i] + 1
        ELSE encoded[i]]

OwnBlocks ==
    /\ Goes("compress", "ownBlocks", "join")
    /\ EncodeBlocks(0)
    /\ UNCHANGED <<unitPc, events, base, done, ending, tasks, listed, analysed,
                   range, display, alive, crashed>>

\* Defect: the helper with the highest number is not waited for.
JoinAllButOne ==
    /\ Goes("compress", "join", "gather")
    /\ \A u \in Triggered \ {Helpers} : EvOf("ready", u) \in events
    /\ events' = events \ {EvOf("ready", u) : u \in Triggered}
    /\ UNCHANGED Rest

\* WaitComplete() for every helper that was triggered.
Join ==
    /\ Goes("compress", "join", "gather")
    /\ \A u \in Triggered : EvOf("ready", u) \in events
    /\ events' = events \ {EvOf("ready", u) : u \in Triggered}
    /\ UNCHANGED Rest

\* get_bitstream, then the hand-over to transmit.
TransmitIsReady == Waits("compress", "gather", "assign", Ev("readyT"))

Assign ==
    /\ Goes("compress", "assign", "announceReady")
    /\ transmitTask' = "task"
    /\ UNCHANGED <<unitPc, events, base, done, ending, newTask, frames, blocks,
                   display, alive, crashed>>

AnnounceReady == Sets("compress", "announceReady", "startTransmit", Ev("readyC"))
StartTransmit == Sets("compress", "startTransmit", "check", Ev("startT"))
CompressEnds  == Sets("compress", "end", "gone", Ev("compressEnd"))

\* EncodeUnit::ThreadStart looks at `done` before and after the wait.
UnitWakes(u) ==
    \/ /\ UnitGoes(u, "wait", IF u \in ending THEN "end" ELSE "encode")
       /\ WaitEvent(EvOf("start", u))
       /\ UNCHANGED <<pc, base, done, ending, tasks, blocks, display, alive,
                      crashed>>
    \/ /\ u \in ending
       /\ UnitGoes(u, "wait", "end")
       /\ UNCHANGED <<pc, events, base, done, ending, tasks, blocks, display,
                      alive, crashed>>
UnitEncodes(u) ==
    /\ UnitGoes(u, "encode", "complete")
    /\ EncodeBlocks(u)
    /\ UNCHANGED <<pc, events, base, done, ending, tasks, listed, analysed,
                   range, display, alive, crashed>>
UnitCompletes(u) ==
    /\ UnitGoes(u, "complete", "wait")
    /\ SetEvent(EvOf("ready", u))
    /\ UNCHANGED <<pc, base, done, ending, tasks, blocks, display, alive,
                   crashed>>
UnitEnds(u) ==
    /\ UnitGoes(u, "end", "gone")
    /\ SetEvent(EvOf("end", u))
    /\ UNCHANGED <<pc, base, done, ending, tasks, blocks, display, alive,
                   crashed>>

-----------------------------------------------------------------------------
(* transmit and usbdev *)

TransmitBoot  == Sets("transmit", "boot", "check", Ev("readyT"))
TransmitCheck == JustGoes("transmit", "check", IF done THEN "end" ELSE "wait")

\* There is no second look at m_done: woken by the destructor, transmit reads
\* m_TransmitTask, which is NULL or was never assigned when it had no task.
TransmitWakes ==
    \/ Waits("transmit", "wait", "task", Ev("startT"))
    \/ /\ transmitTask # "task"
       /\ Goes("transmit", "task", "gone")
       /\ crashed' = TRUE
       /\ UNCHANGED <<unitPc, events, base, done, ending, tasks, blocks,
                      display, alive>>

\* The task's resolution_chahged decides whether the display is configured:
\* SetQuantTable three times, whose failures are only printed.
TransmitTask ==
    /\ transmitTask = "task"
    /\ \E to \in {"settle", "write"} : JustGoes("transmit", "task", to)

\* usbdev::SetResolution.  It polls GetStatus until it reads zero, sends the
\* resolution, and polls again; it gives up only when GetStatus fails.
Configured(from, to) ==
    \/ display = "ready" /\ JustGoes("transmit", from, to)
    \/ display = "gone"  /\ JustGoes("transmit", from, "write")

\* Defect: GetStatus failing is taken for a display that is still busy.
SendResolutionRetries ==
    \/ display = "ready" /\ JustGoes("transmit", "settle", "resolution")
    \/ display = "ready" /\ JustGoes("transmit", "settled", "write")
    \/ /\ Goes("transmit", "resolution", "settled")
       /\ display' \in (IF display = "gone" THEN {"gone"} ELSE {"ready", "busy"})
       /\ UNCHANGED <<unitPc, events, base, done, ending, tasks, blocks, alive,
                      crashed>>

SendResolution ==
    \/ Configured("settle", "resolution")
    \/ Configured("settled", "write")
    \/ /\ Goes("transmit", "resolution", "settled")
       /\ display' \in (IF display = "gone" THEN {"gone"} ELSE {"ready", "busy"})
       /\ UNCHANGED <<unitPc, events, base, done, ending, tasks, blocks, alive,
                      crashed>>

\* Write clears the halt and reports failure when the display is gone, and
\* the engine resets the device; either way the task is deleted and transmit
\* is ready for the next one.
Write ==
    /\ Goes("transmit", "write", "check")
    /\ transmitTask' = "null"
    /\ SetEvent(Ev("readyT"))
    /\ UNCHANGED <<unitPc, base, done, ending, newTask, frames, blocks, display,
                   alive, crashed>>

TransmitEnds  == Sets("transmit", "end", "gone", Ev("transmitEnd"))

\* The display settles, or is unplugged.  The latter only makes a difference
\* while transmit is configuring it.
Settles ==
    /\ ~crashed /\ display = "busy"
    /\ display' = "ready"
    /\ UNCHANGED <<threads, events, base, done, ending, tasks, blocks, alive,
                   crashed>>
Unplug ==
    /\ ~crashed /\ display # "gone"
    /\ pc["transmit"] \in {"settle", "resolution", "settled"}
    /\ display' = "gone"
    /\ UNCHANGED <<threads, events, base, done, ending, tasks, blocks, alive,
                   crashed>>

-----------------------------------------------------------------------------
MainCall == ThreadReady \/ Synced \/ WaitThreadExit \/ MarkDone \/ WakeStages
            \/ WaitStages \/ DeleteDevice \/ EndUnits \/ FreeEncoder
            \/ DestroyBase
Main     == Construct \/ Start \/ StartFails \/ Submit \/ Remove \/ MainCall
Engine   == PrivateStart \/ Run \/ TakeFlags \/ Analysis \/ Toggle
            \/ StartCompress \/ Announce \/ PrivateClose
Compress == CompressBoot \/ CompressCheck \/ Setup \/ OwnBlocks \/ Join
            \/ TransmitIsReady \/ Assign \/ AnnounceReady
            \/ StartTransmit \/ CompressEnds
Transmit == TransmitBoot \/ TransmitCheck \/ TransmitWakes \/ TransmitTask
            \/ SendResolution \/ Write \/ TransmitEnds
UnitStep(u) == UnitWakes(u) \/ UnitEncodes(u) \/ UnitCompletes(u)
               \/ UnitEnds(u)

Next == Main \/ Engine \/ Compress \/ Transmit \/ (\E u \in Unit : UnitStep(u))
        \/ Settles \/ Unplug

Spec == Init /\ [][Next]_vars

\* Every thread is scheduled, a call main has begun goes on, and a display
\* that is still there does not stay busy for ever.
FairSpec == /\ Spec
            /\ WF_vars(MainCall)
            /\ WF_vars(Engine) /\ WF_vars(Compress) /\ WF_vars(Transmit)
            /\ \A u \in Unit : WF_vars(UnitStep(u))
            /\ WF_vars(Settles)

-----------------------------------------------------------------------------
(* Properties *)

\* Where each thread can stand.
MainAt == {"new", "constructed", "starting", "waitReady", "idle", "submitted", "stuck",
           "waitExit", "waitEnd", "markDone", "wakeTransmit", "wakeCompress",
           "waitCompress", "waitTransmit", "deleteDevice", "endUnits", "waitUnits",
           "exitBase", "end"}
EngineAt == {"none", "boot", "run", "loop", "analysis", "waitCompressReady",
             "startCompress", "announce", "close", "closeSet", "closeUnlock", "gone"}
CompressAt == {"none", "boot", "check", "wait", "setup", "ownBlocks", "join", "gather",
               "assign", "announceReady", "startTransmit", "end", "gone"}
TransmitAt == {"none", "boot", "check", "wait", "task", "settle", "resolution", "settled",
               "write", "end", "gone"}
UnitAt == {"none", "wait", "encode", "complete", "end", "gone"}

\* Every variable has a value of its type; no block is encoded twice.
TypeOK ==
    /\ pc \in [Stages -> MainAt \cup EngineAt \cup CompressAt \cup TransmitAt]
    /\ pc["main"] \in MainAt /\ pc["engine"] \in EngineAt
    /\ pc["compress"] \in CompressAt /\ pc["transmit"] \in TransmitAt
    /\ unitPc \in [Unit -> UnitAt]
    /\ events \subseteq Events
    /\ created \in BOOLEAN /\ ready \in BOOLEAN /\ done \in BOOLEAN
    /\ ending \subseteq Unit
    /\ newTask \in BOOLEAN /\ transmitTask \in {"unset", "null", "task"}
    /\ frames \in 0..MaxFrames
    /\ listed \in 0..MaxCount /\ analysed \in 0..MaxCount
    /\ range \in [0..Helpers -> (0..(Helpers * Share)) \X (0..MaxCount + Share)]
    /\ encoded \in [1..MaxCount -> 0..1]
    /\ display \in {"ready", "busy", "gone"}
    /\ alive \subseteq Objects /\ crashed \in BOOLEAN

\* When compress gathers the bitstream, every block the screen lists has been
\* encoded for this frame exactly once, by whichever unit: the shares cover
\* the list, and the last helper is done.
ListEncoded ==
    pc["compress"] = "gather" =>
        \A i \in 1..MaxCount : encoded[i] = (IF i <= listed THEN 1 ELSE 0)

\* A unit is at work, or will be woken to work, only while compress is between
\* triggering the units and joining them: the engine never toggles the screens
\* under a unit, and no trigger is left over for the next frame.
UnitsWorkInTurn ==
    \A u \in Unit :
        unitPc[u] \in {"encode", "complete"}
          \/ (u \notin ending /\ {EvOf("start", u), EvOf("ready", u)} \cap events # {})
        => /\ pc["compress"] \in {"ownBlocks", "join"}
           /\ pc["engine"] # "startCompress"

\* What the destructor has deleted is used by no thread any more: the device
\* not by transmit, the buffers by none of the stages or units, and Run is
\* over.  The base is left out: PrivateClose may still be using it.
DeletedUnused ==
    /\ "device" \in alive \/ pc["transmit"] \in {"none", "gone"}
    /\ "encoder" \in alive \/
          /\ {pc["compress"], pc["transmit"]} \subseteq {"none", "gone"}
          /\ pc["engine"] \in {"none", "closeSet", "closeUnlock", "gone"}
          /\ \A u \in Unit : unitPc[u] \in {"none", "gone"}

\* Only a destruction can kill the process: transmit is never woken without a
\* task by the pipeline itself.
DiesOnlyDestroyed == crashed => done

\* transmit left its loop at while(!m_done), with a frame handed to it that it
\* never took, and compress waits for it with the next one: the destructor
\* then waits for compress.
Stranded == /\ done
            /\ pc["transmit"] = "gone"
            /\ pc["compress"] = "gather"

\* Every call main makes comes to an end, Start, the wait for sync_event and
\* the destruction included: no stage or unit is left waiting for another,
\* except for the two ways a destruction goes wrong in this code, transmit
\* dying without a task and compress stranded behind it.
CallsEnd ==
    (pc["main"] \notin {"new", "constructed", "idle", "stuck", "end"})
        ~> (crashed \/ Stranded \/ pc["main"] \in {"idle", "end"})

\* The life of engine, threads and objects: nothing is used before it is there
\* or after it is gone, and the process only dies of the destructor.
LifetimesRespected == TypeOK /\ DeletedUnused /\ DiesOnlyDestroyed
=============================================================================
