------------------------ MODULE EngineLifecycleProofs -------------------------
(***************************************************************************)
(* What EngineLifecycle promises for every number of helper units, size of *)
(* their shares and length of the list: every listed block is encoded      *)
(* once, units work only in their turn, and nothing is used before it is   *)
(* there or after it is gone.                                              *)
(***************************************************************************)
EXTENDS EngineLifecycle, TLAPS

At == MainAt \cup EngineAt \cup CompressAt \cup TransmitAt

AtMostOne(a, b, c, d) == (a => ~(b \/ c \/ d)) /\ (b => ~(c \/ d)) /\ ~(c /\ d)

\* What main does in order, from the moment the engine's thread is over.
WakesStages  == {"wakeTransmit", "wakeCompress", "waitCompress", "waitTransmit"}
Deletes      == {"deleteDevice", "endUnits", "waitUnits", "exitBase", "end"}
EngineOver   == {"none", "closeSet", "closeUnlock", "gone"}

\* m_thread_ready and m_ThreadEnd tell main how far the engine's thread is.
EngineOK ==
    /\ ready <=> pc["engine"] \in {"run", "loop", "analysis", "waitCompressReady",
                                   "startCompress", "announce", "close"}
    /\ pc["engine"] = "boot" => pc["main"] \in {"starting", "waitReady"}
    /\ pc["main"] \in {"new", "constructed"} => pc["engine"] = "none"
    /\ Ev("threadReady") \in events => pc["engine"] \notin {"none", "boot"}
    /\ Ev("threadEnd") \in events => pc["engine"] \in {"closeUnlock", "gone"}
    /\ pc["main"] \in {"markDone"} \cup WakesStages \cup Deletes => pc["engine"] \in EngineOver
    /\ done <=> pc["main"] \in WakesStages \cup Deletes

\* Nothing runs before the engine is constructed, and a stage that was awaited
\* is gone.
StagesOK ==
    /\ pc["main"] = "new" <=> pc["compress"] = "none"
    /\ pc["main"] = "new" <=> pc["transmit"] = "none"
    /\ pc["main"] = "new" => events = {} /\ alive = {} /\ \A u \in Unit : unitPc[u] = "none"
    /\ pc["main"] \in {"waitTransmit"} \cup Deletes \/ Ev("compressEnd") \in events
          => pc["compress"] = "gone"
    /\ pc["main"] \in Deletes \/ Ev("transmitEnd") \in events => pc["transmit"] = "gone"
    /\ "encoder" \notin alive => pc["main"] \in {"new", "exitBase", "end"}
    /\ "base" \notin alive => pc["main"] \in {"new", "end"}

\* Compress is ready, is being started or is at work, and so is transmit.
Works == {"setup", "ownBlocks", "join", "gather", "assign", "announceReady"}
Sends == {"task", "settle", "resolution", "settled", "write"}
Handed == \/ pc["compress"] \in {"announceReady", "startTransmit"}
          \/ Ev("startT") \in events
          \/ pc["transmit"] \in Sends
HandoverOK ==
    ~done =>
        /\ AtMostOne(Ev("readyC") \in events, pc["engine"] = "startCompress",
                     Ev("startC") \in events, pc["compress"] \in {"boot"} \cup Works)
        /\ AtMostOne(Ev("readyT") \in events,
                     pc["compress"] \in {"assign", "announceReady", "startTransmit"},
                     Ev("startT") \in events, pc["transmit"] \in {"boot"} \cup Sends)
        /\ Handed => transmitTask = "task"

\* A unit is triggered, encodes, completes or is ready, one at a time, and only
\* while compress shares a frame out; a helper is told to end only afterwards.
Sharing == pc["compress"] \in {"ownBlocks", "join"}
UnitOK(u) ==
    /\ IF Sharing /\ u \in Triggered
       THEN AtMostOne(EvOf("start", u) \in events, unitPc[u] = "encode",
                      unitPc[u] = "complete", EvOf("ready", u) \in events)
       ELSE /\ EvOf("start", u) \in events => u \in ending
            /\ unitPc[u] \notin {"encode", "complete"}
            /\ EvOf("ready", u) \notin events
    /\ u \in ending => pc["compress"] = "gone"
    /\ EvOf("end", u) \in events => unitPc[u] = "gone"
UnitsOK == \A u \in Unit : UnitOK(u)

\* The share of a unit, and what is encoded of it.
Shared(u) == IF u = 0 THEN <<(UnitCount - 1) * Share, listed>>
             ELSE <<(u - 1) * Share, u * Share>>
In(u, i) == Shared(u)[1] < i /\ i <= Shared(u)[2]
Finished(u) == IF u = 0 THEN pc["compress"] = "join"
               ELSE unitPc[u] = "complete" \/ EvOf("ready", u) \in events
SharesOK ==
    /\ Sharing =>
          /\ \A u \in Triggered \cup {0} : range[u] = Shared(u)
          /\ \A i \in 1..MaxCount :
                encoded[i] = IF \E u \in Triggered \cup {0} : Finished(u) /\ In(u, i)
                             THEN 1 ELSE 0
    /\ ListEncoded

Lifecycle == /\ LifetimesRespected /\ EngineOK /\ StagesOK /\ HandoverOK /\ UnitsOK /\ SharesOK

\* The events of a frame are different flags.
LEMMA Flags ==
    /\ \A m, n : Ev(m) = Ev(n) <=> m = n
    /\ \A m, n, u, v : EvOf(m, u) = EvOf(n, v) <=> m = n /\ u = v
    /\ \A m, n : \A u \in Unit : Ev(m) # EvOf(n, u)
  BY LifecycleAssumption DEF Ev, EvOf, Unit

\* Nothing has happened yet.
LEMMA LifecycleInit == Init => Lifecycle
<1> SUFFICES ASSUME Init PROVE Lifecycle
  OBVIOUS
<1> USE DEF Init
<1>1. /\ pc \in [Stages -> At] /\ pc["main"] = "new" /\ pc["engine"] = "none"
      /\ pc["compress"] = "none" /\ pc["transmit"] = "none"
  <2>1. pc \in [Stages -> At]
    BY DEF At, MainAt, EngineAt, CompressAt, TransmitAt, Stages
  <2>2. /\ pc["main"] = "new" /\ pc["engine"] = "none"
        /\ pc["compress"] = "none" /\ pc["transmit"] = "none"
    BY DEF Stages
  <2>3. QED
    BY <2>1, <2>2
<1>2. TypeOK
  <2>1. range \in [0..Helpers -> (0..(Helpers * Share)) \X (0..MaxCount + Share)]
    <3>1. Helpers * Share \in Nat /\ MaxCount + Share \in Nat
      BY LifecycleAssumption
    <3>2. 0 \in 0..(Helpers * Share) /\ 0 \in 0..MaxCount + Share
      BY <3>1
    <3>3. <<0, 0>> \in (0..(Helpers * Share)) \X (0..MaxCount + Share)
      BY <3>2
    <3>4. QED
      BY <3>3
  <2>2. unitPc \in [Unit -> UnitAt]
    BY DEF UnitAt
  <2>3. encoded \in [1..MaxCount -> 0..1] /\ 0 \in 0..MaxFrames /\ 0 \in 0..MaxCount
    BY LifecycleAssumption
  <2>4. QED
    BY <1>1, <2>1, <2>2, <2>3 DEF TypeOK, At, MainAt, EngineAt, CompressAt, TransmitAt
<1>3. DeletedUnused /\ DiesOnlyDestroyed /\ ListEncoded
  BY <1>1 DEF DeletedUnused, DiesOnlyDestroyed, ListEncoded
<1>4. EngineOK
  BY <1>1 DEF EngineOK, WakesStages, Deletes
<1>5. StagesOK
  BY <1>1 DEF StagesOK, Deletes
<1>6. HandoverOK
  BY <1>1 DEF HandoverOK, Handed, AtMostOne, Works, Sends
<1>7. UnitsOK
  BY <1>1 DEF UnitsOK, UnitOK, Sharing
<1>8. SharesOK
  BY <1>1, <1>3 DEF SharesOK, Sharing
<1>9. QED
  BY <1>2, <1>3, <1>4, <1>5, <1>6, <1>7, <1>8 DEF Lifecycle, LifetimesRespected

-----------------------------------------------------------------------------
(* What each thread leaves alone *)

LEMMA Typed == ASSUME Lifecycle
               PROVE  /\ pc \in [Stages -> At] /\ unitPc \in [Unit -> UnitAt]
                      /\ Stages = {"main", "engine", "compress", "transmit"}
                      /\ TypeOK /\ listed \in 0..MaxCount
                      /\ done \in BOOLEAN /\ crashed \in BOOLEAN
  BY DEF Lifecycle, LifetimesRespected, TypeOK, Stages, At

\* Main changes the flags of its own calls.
LEMMA MainFrame ==
    ASSUME Lifecycle, Main, pc["main"] # "new"
    PROVE  /\ \A t \in {"compress", "transmit"} : pc'[t] = pc[t]
           /\ pc'["engine"] # pc["engine"] => pc["engine"] = "none" /\ pc'["engine"] = "boot"
           /\ done => done'
           /\ UNCHANGED <<unitPc, blocks, display, crashed, ready, transmitTask>>
           /\ \A n \in {"readyC", "readyT"} : Ev(n) \in events' <=> Ev(n) \in events
           /\ \A n \in {"startC", "startT"} :
                 Ev(n) \in events' => Ev(n) \in events \/ done
           /\ \A u \in Unit : EvOf("ready", u) \in events' <=> EvOf("ready", u) \in events
<1> USE DEF Goes, SetEvent, WaitEvent, Rest, JustGoes, Sets, Waits, base, tasks, Stages
<1>1. pc \in [Stages -> At]
  BY Typed
<1>2. CASE Start
  <2>1. /\ pc' = [pc EXCEPT !["main"] = "starting", !["engine"] = "boot"]
        /\ pc["main"] = "constructed" /\ ready' = ready /\ events' = events
        /\ UNCHANGED <<unitPc, blocks, display, crashed, transmitTask, done>>
    BY <1>2 DEF Start
  <2>2. /\ pc'["compress"] = pc["compress"] /\ pc'["transmit"] = pc["transmit"]
        /\ pc'["engine"] = "boot"
    BY <1>1, <2>1
  <2>3. Lifecycle => pc["engine"] = "none"
    BY <2>1 DEF Lifecycle, EngineOK
  <2>4. QED
    BY <2>1, <2>2, <2>3
<1>7. CASE StartFails
  BY <1>1, <1>7, Flags, Typed DEF StartFails
<1>8. CASE ThreadReady
  BY <1>1, <1>8, Flags, Typed DEF ThreadReady
<1>9. CASE Submit
  BY <1>1, <1>9, Flags, Typed DEF Submit
<1>10. CASE Synced
  BY <1>1, <1>10, Flags, Typed DEF Synced
<1>3. CASE Remove \/ WaitThreadExit \/ MarkDone
  BY <1>1, <1>3, Flags, Typed DEF Remove, WaitThreadExit, MarkDone
<1>4. CASE WakeStages \/ WaitStages
  BY <1>1, <1>4, Flags, Typed DEF WakeStages, WaitStages, Lifecycle, EngineOK, WakesStages
<1>5. CASE DeleteDevice \/ EndUnits \/ FreeEncoder \/ DestroyBase
  BY <1>1, <1>5, Flags, Typed DEF DeleteDevice, EndUnits, FreeEncoder, DestroyBase
<1>6. QED
  BY <1>2, <1>3, <1>4, <1>5, <1>7, <1>8, <1>9, <1>10 DEF Main, MainCall, Construct

\* How many units share a list out.
LEMMA Shares ==
    ASSUME Lifecycle
    PROVE  /\ UnitCount - 1 \in 0..Helpers /\ Triggered = 1..(UnitCount - 1)
           /\ Triggered \subseteq Unit /\ Unit \subseteq Nat \ {0}
           /\ (UnitCount - 1) * Share \in 0..listed
<1> DEFINE q == listed \div Share
<1>1. listed \in Nat /\ Share \in Nat \ {0} /\ Helpers \in Nat
  BY Typed, LifecycleAssumption
<1>2. q \in Nat
  BY <1>1
<1>3. q * Share <= listed
  BY <1>1
<1>4. UnitCount - 1 = IF q > Helpers THEN Helpers ELSE q
  <2>1. UnitCount = IF q + 1 > Helpers + 1 THEN Helpers + 1 ELSE q + 1
    BY DEF UnitCount
  <2> HIDE DEF q
  <2>2. QED
    BY <2>1, <1>1, <1>2
<1> HIDE DEF q
<1>5. UnitCount - 1 \in 0..Helpers /\ UnitCount - 1 <= q
  BY <1>1, <1>2, <1>4
<1>6. (UnitCount - 1) * Share <= q * Share /\ (UnitCount - 1) * Share \in Nat
  <2> DEFINE t == UnitCount - 1
  <2>1. t \in Nat /\ t <= q
    BY <1>1, <1>5
  <2> HIDE DEF t
  <2>2. t * Share <= q * Share /\ t * Share \in Nat
    BY <2>1, <1>1, <1>2
  <2>3. QED
    BY <2>2 DEF t
<1>7. (UnitCount - 1) * Share \in 0..listed
  <2> DEFINE s == (UnitCount - 1) * Share
             r == q * Share
  <2>1. s \in Nat /\ s <= r /\ r <= listed /\ r \in Nat
    <3>1. q * Share \in Nat
      BY <1>1, <1>2
    <3>2. QED
      BY <1>3, <1>6, <3>1
  <2> HIDE DEF s, r
  <2>2. s \in 0..listed
    BY <2>1, <1>1
  <2>3. QED
    BY <2>2 DEF s
<1>8. Unit \subseteq Nat \ {0}
  BY <1>1 DEF Unit
<1>9. Triggered \subseteq Unit
  <2> DEFINE t == UnitCount - 1
  <2>1. t \in 0..Helpers
    BY <1>5
  <2> HIDE DEF t
  <2>2. 1..t \subseteq 1..Helpers
    BY <2>1, <1>1
  <2>3. QED
    BY <2>2 DEF t, Triggered, Unit
<1>10. QED
  BY <1>5, <1>7, <1>8, <1>9 DEF Triggered

\* What a stage does to where the stages stand.
LEMMA Moves ==
    ASSUME Lifecycle
    PROVE  /\ \A from, to : Goes("main", from, to) =>
                 /\ ~crashed /\ pc["main"] = from /\ pc'["main"] = to
                 /\ \A t \in {"engine", "compress", "transmit"} : pc'[t] = pc[t]
           /\ \A from, to : Goes("engine", from, to) =>
                 /\ ~crashed /\ pc["engine"] = from /\ pc'["engine"] = to
                 /\ \A t \in {"main", "compress", "transmit"} : pc'[t] = pc[t]
           /\ \A from, to : Goes("compress", from, to) =>
                 /\ ~crashed /\ pc["compress"] = from /\ pc'["compress"] = to
                 /\ \A t \in {"main", "engine", "transmit"} : pc'[t] = pc[t]
           /\ \A from, to : Goes("transmit", from, to) =>
                 /\ ~crashed /\ pc["transmit"] = from /\ pc'["transmit"] = to
                 /\ \A t \in {"main", "engine", "compress"} : pc'[t] = pc[t]
  BY Typed DEF Goes

\* The engine is constructed first.
LEMMA OnlyConstructs == ASSUME Lifecycle, Main, pc["main"] = "new" PROVE Construct
<1>1. ~(StartFails \/ ThreadReady \/ Submit \/ Synced \/ Remove \/ WaitThreadExit)
  BY Moves
  DEF StartFails, ThreadReady, Submit, Synced, Remove, WaitThreadExit, Sets, Waits, JustGoes
<1>2. ~(Start \/ MarkDone \/ WakeStages \/ WaitStages \/ DeleteDevice)
  BY Moves DEF Start, MarkDone, WakeStages, WaitStages, DeleteDevice, Sets, Waits, JustGoes
<1>3. ~(EndUnits \/ FreeEncoder \/ DestroyBase)
  BY Moves DEF EndUnits, FreeEncoder, DestroyBase
<1>4. QED
  BY <1>1, <1>2, <1>3 DEF Main, MainCall

\* What PrivateClose does, apart from what becomes of the process.
LEMMA Closes ==
    ASSUME Lifecycle, PrivateClose
    PROVE  /\ UNCHANGED <<unitPc, done, ending, newTask, transmitTask, frames, listed, analysed,
                          range, encoded, display, alive>>
           /\ \A t \in {"main", "compress", "transmit"} : pc'[t] = pc[t]
           /\ \/ /\ pc["engine"] = "close" /\ pc'["engine"] = "closeSet"
                 /\ ~ready' /\ events' = events
              \/ /\ pc["engine"] = "closeSet" /\ pc'["engine"] = "closeUnlock"
                 /\ (ready' <=> ready) /\ events' = events \cup {Ev("threadEnd")}
              \/ /\ pc["engine"] = "closeUnlock" /\ pc'["engine"] = "gone"
                 /\ (ready' <=> ready) /\ events' = events
<1>1. UNCHANGED <<unitPc, done, ending, newTask, transmitTask, frames, listed, analysed,
                  range, encoded, display, alive>>
  BY DEF PrivateClose, base, tasks, blocks
<1>2. \A t \in {"main", "compress", "transmit"} : pc'[t] = pc[t]
  BY Moves DEF PrivateClose
<1>3. \/ pc["engine"] = "close" /\ pc'["engine"] = "closeSet" /\ ~ready' /\ events' = events
      \/ /\ pc["engine"] = "closeSet" /\ pc'["engine"] = "closeUnlock"
         /\ (ready' <=> ready) /\ events' = events \cup {Ev("threadEnd")}
      \/ /\ pc["engine"] = "closeUnlock" /\ pc'["engine"] = "gone"
         /\ (ready' <=> ready) /\ events' = events
  BY Moves DEF PrivateClose, SetEvent, base
<1>4. QED
  BY <1>1, <1>2, <1>3

\* The engine's thread: the screens change hands only when compress was ready.
LEMMA EngineFrame ==
    ASSUME Lifecycle, Engine
    PROVE  /\ \A t \in {"main", "compress", "transmit"} : pc'[t] = pc[t]
           /\ UNCHANGED <<unitPc, done, ending, transmitTask, range, encoded, display, alive>>
           /\ pc["engine"] # "none" /\ pc'["engine"] # "none"
<1> USE DEF WaitEvent, Rest, JustGoes, Sets, Waits, base, tasks, blocks
<1>1. CASE PrivateStart
  BY <1>1, Moves DEF PrivateStart
<1>2. CASE Run
  BY <1>2, Moves DEF Run
<1>3. CASE StartCompress \/ Announce
  BY <1>3, Moves DEF StartCompress, Announce
<1>4. CASE TakeFlags
  BY <1>4, Moves DEF TakeFlags
<1>5. CASE Analysis
  BY <1>5, Moves DEF Analysis
<1>6. CASE Toggle
  BY <1>6, Moves DEF Toggle
<1>7. CASE PrivateClose
  BY <1>7, Closes
<1>8. QED
  BY <1>1, <1>2, <1>3, <1>4, <1>5, <1>6, <1>7 DEF Engine

LEMMA EngineToggles ==
    ASSUME Lifecycle, Engine
    PROVE  listed' # listed => pc["engine"] = "waitCompressReady" /\ Ev("readyC") \in events
<1>1. CASE Toggle
  BY <1>1, Moves DEF Toggle, WaitEvent
<1>2. CASE Run \/ TakeFlags \/ StartCompress \/ Announce
  <2>1. listed' = listed
    BY <1>2 DEF Run, TakeFlags, StartCompress, Announce, Sets, Rest, blocks, base, tasks
  <2>2. QED
    BY <2>1
<1>3. CASE PrivateStart \/ Analysis \/ PrivateClose
  <2>1. listed' = listed
    BY <1>3 DEF PrivateStart, Analysis, PrivateClose, blocks, base, tasks
  <2>2. QED
    BY <2>1
<1>4. QED
  BY <1>1, <1>2, <1>3 DEF Engine

LEMMA EngineFlags ==
    ASSUME Lifecycle, Engine
    PROVE  /\ \A n \in {"readyT", "startT", "compressEnd", "transmitEnd"} :
                 Ev(n) \in events' <=> Ev(n) \in events
           /\ \A u \in Unit : \A n \in {"start", "ready", "end"} :
                 EvOf(n, u) \in events' <=> EvOf(n, u) \in events
<1> USE DEF SetEvent, WaitEvent, Rest, JustGoes, Sets, Waits
<1>1. CASE PrivateStart
  BY <1>1, Flags DEF PrivateStart
<1>2. CASE Run
  BY <1>2, Flags DEF Run
<1>3. CASE StartCompress \/ Announce
  BY <1>3, Flags DEF StartCompress, Announce
<1>4. CASE TakeFlags
  BY <1>4, Flags DEF TakeFlags
<1>5. CASE Analysis
  BY <1>5 DEF Analysis
<1>6. CASE Toggle
  BY <1>6, Flags DEF Toggle
<1>7. CASE PrivateClose
  BY <1>7, Flags DEF PrivateClose
<1>8. QED
  BY <1>1, <1>2, <1>3, <1>4, <1>5, <1>6, <1>7 DEF Engine

\* A process the engine's thread kills had its base destroyed.
LEMMA EngineDies ==
    ASSUME Lifecycle, Engine
    PROVE  crashed' = crashed \/ "base" \notin alive
<1>1. CASE PrivateClose
  <2> SUFFICES ASSUME "base" \in alive PROVE crashed' = crashed
    OBVIOUS
  <2>1. ("base" \notin alive) = FALSE
    OBVIOUS
  <2>2. crashed' = FALSE \/ crashed' = crashed
    BY <1>1, <2>1 DEF PrivateClose
  <2>3. ~crashed
    BY <1>1, Moves DEF PrivateClose
  <2>4. QED
    BY <2>2, <2>3, Typed
<1>2. CASE Run \/ TakeFlags \/ StartCompress \/ Announce
  BY <1>2 DEF Run, TakeFlags, StartCompress, Announce, Sets, Rest
<1>3. CASE PrivateStart \/ Analysis \/ Toggle
  BY <1>3 DEF PrivateStart, Analysis, Toggle
<1>4. QED
  BY <1>1, <1>2, <1>3 DEF Engine

\* compress: it leaves the screens to the engine.
LEMMA CompressFrame ==
    ASSUME Lifecycle, Compress
    PROVE  /\ \A t \in {"main", "engine", "transmit"} : pc'[t] = pc[t]
           /\ UNCHANGED <<unitPc, created, ready, done, ending, listed, display, alive, crashed>>
           /\ pc["compress"] # "gone" /\ pc["compress"] # "none" /\ pc'["compress"] # "none"
<1> USE DEF WaitEvent, Rest, JustGoes, Sets, Waits, base, tasks, blocks
<1>1. CASE CompressBoot \/ AnnounceReady
  BY <1>1, Moves DEF CompressBoot, AnnounceReady
<1>2. CASE StartTransmit \/ CompressEnds
  BY <1>2, Moves DEF StartTransmit, CompressEnds
<1>3. CASE CompressCheck
  BY <1>3, Moves DEF CompressCheck
<1>4. CASE Setup
  BY <1>4, Moves DEF Setup
<1>5. CASE OwnBlocks \/ Assign
  BY <1>5, Moves DEF OwnBlocks, Assign
<1>6. CASE Join
  BY <1>6, Moves DEF Join
<1>7. CASE TransmitIsReady
  BY <1>7, Moves DEF TransmitIsReady
<1>8. QED
  BY <1>1, <1>2, <1>3, <1>4, <1>5, <1>6, <1>7 DEF Compress

LEMMA CompressFlags ==
    ASSUME Lifecycle, Compress
    PROVE  /\ \A n \in {"threadReady", "threadEnd", "transmitEnd"} :
                 Ev(n) \in events' <=> Ev(n) \in events
           /\ \A u \in Unit : EvOf("end", u) \in events' <=> EvOf("end", u) \in events
           /\ Ev("compressEnd") \in events' =>
                 Ev("compressEnd") \in events \/ pc'["compress"] = "gone"
<1> USE DEF SetEvent, WaitEvent, Rest, JustGoes, Sets, Waits
<1>1. CASE CompressBoot \/ AnnounceReady
  BY <1>1, Flags DEF CompressBoot, AnnounceReady
<1>2. CASE StartTransmit \/ CompressEnds
  BY <1>2, Flags, Moves DEF StartTransmit, CompressEnds
<1>3. CASE CompressCheck
  BY <1>3, Flags DEF CompressCheck
<1>4. CASE Setup
  <2>1. events' = events \cup {EvOf("start", u) : u \in Triggered}
    BY <1>4 DEF Setup
  <2>2. QED
    BY <2>1, Flags, Shares
<1>5. CASE OwnBlocks \/ Assign
  BY <1>5 DEF OwnBlocks, Assign
<1>6. CASE Join
  <2>1. events' = events \ {EvOf("ready", u) : u \in Triggered}
    BY <1>6 DEF Join
  <2>2. QED
    BY <2>1, Flags, Shares
<1>7. CASE TransmitIsReady
  BY <1>7, Flags DEF TransmitIsReady
<1>8. QED
  BY <1>1, <1>2, <1>3, <1>4, <1>5, <1>6, <1>7 DEF Compress

\* transmit: it shares a task and two events with compress.
LEMMA TransmitFrame ==
    ASSUME Lifecycle, Transmit
    PROVE  /\ \A t \in {"main", "engine", "compress"} : pc'[t] = pc[t]
           /\ UNCHANGED <<unitPc, created, ready, done, ending, listed, range, encoded, alive>>
           /\ pc["transmit"] # "gone" /\ pc["transmit"] # "none" /\ pc'["transmit"] # "none"
<1> USE DEF WaitEvent, Rest, JustGoes, Sets, Waits, base, tasks, blocks
<1>1. CASE TransmitBoot \/ TransmitEnds
  BY <1>1, Moves DEF TransmitBoot, TransmitEnds
<1>2. CASE TransmitCheck
  BY <1>2, Moves DEF TransmitCheck
<1>3. CASE TransmitWakes
  BY <1>3, Moves DEF TransmitWakes
<1>4. CASE TransmitTask
  BY <1>4, Moves DEF TransmitTask
<1>5. CASE SendResolution
  BY <1>5, Moves DEF SendResolution, Configured
<1>6. CASE Write
  BY <1>6, Moves DEF Write
<1>7. QED
  BY <1>1, <1>2, <1>3, <1>4, <1>5, <1>6 DEF Transmit

LEMMA TransmitFlags ==
    ASSUME Lifecycle, Transmit
    PROVE  /\ \A n \in {"threadReady", "threadEnd", "compressEnd", "readyC", "startC"} :
                 Ev(n) \in events' <=> Ev(n) \in events
           /\ \A u \in Unit : \A n \in {"start", "ready", "end"} :
                 EvOf(n, u) \in events' <=> EvOf(n, u) \in events
<1> USE DEF SetEvent, WaitEvent, Rest, JustGoes, Sets, Waits
<1>1. CASE TransmitBoot \/ TransmitEnds
  BY <1>1, Flags DEF TransmitBoot, TransmitEnds
<1>2. CASE TransmitCheck \/ TransmitTask
  BY <1>2 DEF TransmitCheck, TransmitTask
<1>3. CASE TransmitWakes
  BY <1>3, Flags DEF TransmitWakes
<1>4. CASE SendResolution
  BY <1>4 DEF SendResolution, Configured
<1>5. CASE Write
  BY <1>5, Flags DEF Write
<1>6. QED
  BY <1>1, <1>2, <1>3, <1>4, <1>5 DEF Transmit

\* A unit and the display leave the stages and each other alone.
LEMMA UnitFrame ==
    ASSUME Lifecycle, NEW u \in Unit, UnitStep(u)
    PROVE  /\ UNCHANGED <<pc, base, done, ending, transmitTask, listed, range, display, alive,
                          crashed>>
           /\ \A v \in Unit \ {u} : unitPc'[v] = unitPc[v]
           /\ \A n : Ev(n) \in events' <=> Ev(n) \in events
           /\ \A n : \A v \in Unit \ {u} : EvOf(n, v) \in events' <=> EvOf(n, v) \in events
           /\ unitPc[u] \notin {"none", "gone"} /\ unitPc'[u] # "none"
<1> USE DEF SetEvent, WaitEvent, UnitGoes, base, tasks, blocks
<1>1. CASE UnitWakes(u)
  BY <1>1, Flags, Typed DEF UnitWakes
<1>2. CASE UnitEncodes(u)
  BY <1>2, Flags, Typed DEF UnitEncodes
<1>3. CASE UnitCompletes(u) \/ UnitEnds(u)
  BY <1>3, Flags, Typed DEF UnitCompletes, UnitEnds
<1>4. QED
  BY <1>1, <1>2, <1>3 DEF UnitStep

LEMMA DisplayFrame ==
    ASSUME Settles \/ Unplug
    PROVE  UNCHANGED <<pc, unitPc, events, created, ready, done, ending, newTask, transmitTask,
                       frames, listed, analysed, range, encoded, alive, crashed>>
  BY DEF Settles, Unplug, threads, base, tasks, blocks

-----------------------------------------------------------------------------
(* The engine's thread and main *)

LEMMA MainKeepsEngineOK == ASSUME Lifecycle, Main PROVE EngineOK'
<1> USE DEF Goes, SetEvent, WaitEvent, Rest, JustGoes, Sets, Waits, base
<1>0. EngineOK /\ StagesOK /\ pc \in [Stages -> At]
  BY Typed DEF Lifecycle
<1>1. CASE Construct
  <2>1. /\ pc["main"] = "new" /\ pc'["main"] = "constructed" /\ pc'["engine"] = pc["engine"]
        /\ UNCHANGED <<events, ready, done>>
    BY <1>1, <1>0, Typed DEF Construct
  <2>2. QED
    BY <2>1, <1>0 DEF EngineOK, WakesStages, Deletes
<1>2. CASE Start
  <2>1. /\ pc["main"] = "constructed" /\ pc'["main"] = "starting" /\ pc'["engine"] = "boot"
        /\ UNCHANGED <<events, ready, done>>
    BY <1>2, <1>0, Typed DEF Start
  <2>2. QED
    BY <2>1, <1>0 DEF EngineOK, WakesStages, Deletes, EngineOver
<1>3. CASE StartFails
  BY <1>3, <1>0, Moves DEF StartFails, EngineOK, WakesStages, Deletes
<1>4. CASE ThreadReady
  BY <1>4, <1>0, Moves, Flags DEF ThreadReady, EngineOK, WakesStages, Deletes
<1>5. CASE Submit
  BY <1>5, <1>0, Moves, Flags DEF Submit, EngineOK, WakesStages, Deletes
<1>6. CASE Synced
  BY <1>6, <1>0, Moves, Flags DEF Synced, EngineOK, WakesStages, Deletes
<1>7. CASE Remove
  BY <1>7, <1>0, Moves, Flags DEF Remove, EngineOK, WakesStages, Deletes
<1>8. CASE WaitThreadExit
  BY <1>8, <1>0, Moves, Flags, Typed
     DEF WaitThreadExit, EngineOK, WakesStages, Deletes, EngineOver, TypeOK, EngineAt
<1>9. CASE MarkDone
  BY <1>9, <1>0, Moves DEF MarkDone, EngineOK, WakesStages, Deletes
<1>10. CASE WakeStages
  BY <1>10, <1>0, Moves, Flags DEF WakeStages, EngineOK, WakesStages, Deletes
<1>11. CASE WaitStages
  BY <1>11, <1>0, Moves, Flags DEF WaitStages, EngineOK, WakesStages, Deletes
<1>12. CASE DeleteDevice \/ DestroyBase
  BY <1>12, <1>0, Moves DEF DeleteDevice, DestroyBase, EngineOK, WakesStages, Deletes
<1>13. CASE EndUnits
  BY <1>13, <1>0, Moves, Flags DEF EndUnits, EngineOK, WakesStages, Deletes
<1>14. CASE FreeEncoder
  BY <1>14, <1>0, Moves, Flags DEF FreeEncoder, EngineOK, WakesStages, Deletes
<1>15. QED
  BY <1>1, <1>2, <1>3, <1>4, <1>5, <1>6, <1>7, <1>8, <1>9, <1>10, <1>11, <1>12, <1>13, <1>14
  DEF Main, MainCall

LEMMA EngineKeepsEngineOK == ASSUME Lifecycle, Engine PROVE EngineOK'
<1> USE DEF SetEvent, WaitEvent, Rest, JustGoes, Sets, Waits, base, EngineOver
<1>0. EngineOK /\ ready \in BOOLEAN /\ done' = done
  BY EngineFrame, Typed DEF Lifecycle, TypeOK
<1>1. CASE PrivateStart
  BY <1>1, <1>0, Moves, Flags DEF PrivateStart, EngineOK, WakesStages, Deletes
<1>2. CASE Run \/ StartCompress
  BY <1>2, <1>0, Moves, Flags DEF Run, StartCompress, EngineOK, WakesStages, Deletes
<1>3. CASE Announce
  BY <1>3, <1>0, Moves, Flags DEF Announce, EngineOK, WakesStages, Deletes
<1>4. CASE TakeFlags
  BY <1>4, <1>0, Moves, Flags DEF TakeFlags, EngineOK, WakesStages, Deletes
<1>5. CASE Analysis
  BY <1>5, <1>0, Moves DEF Analysis, EngineOK, WakesStages, Deletes
<1>6. CASE Toggle
  BY <1>6, <1>0, Moves, Flags DEF Toggle, EngineOK, WakesStages, Deletes
<1>7. CASE PrivateClose
  <2>1. CASE pc["engine"] = "close"
    BY <1>7, <2>1, <1>0, Closes DEF EngineOK, WakesStages, Deletes
  <2>2. CASE pc["engine"] # "close"
    BY <1>7, <2>2, <1>0, Flags, Closes DEF EngineOK, WakesStages, Deletes
  <2>3. QED
    BY <2>1, <2>2
<1>8. QED
  BY <1>1, <1>2, <1>3, <1>4, <1>5, <1>6, <1>7 DEF Engine

LEMMA EngineOKStep == ASSUME Lifecycle, [Next]_vars PROVE EngineOK'
<1>0. EngineOK
  BY DEF Lifecycle
<1>1. CASE Main
  BY <1>1, MainKeepsEngineOK
<1>2. CASE Engine
  BY <1>2, EngineKeepsEngineOK
<1>3. CASE Compress
  BY <1>0, <1>3, CompressFrame, CompressFlags DEF EngineOK
<1>4. CASE Transmit
  BY <1>0, <1>4, TransmitFrame, TransmitFlags DEF EngineOK
<1>5. ASSUME NEW u \in Unit, UnitStep(u) PROVE EngineOK'
  BY <1>0, <1>5, UnitFrame DEF EngineOK, base
<1>6. CASE Settles \/ Unplug
  BY <1>0, <1>6, DisplayFrame DEF EngineOK
<1>7. CASE UNCHANGED vars
  BY <1>0, <1>7 DEF EngineOK, vars, threads, base
<1>8. QED
  BY <1>1, <1>2, <1>3, <1>4, <1>5, <1>6, <1>7 DEF Next

\* What stands before the engine is constructed and after it is destroyed.
LEMMA MainKeepsStagesOK == ASSUME Lifecycle, Main PROVE StagesOK'
<1> USE DEF Goes, SetEvent, WaitEvent, Rest, JustGoes, Sets, Waits
<1>0. EngineOK /\ StagesOK /\ pc \in [Stages -> At]
  BY Typed DEF Lifecycle
<1>1. CASE Construct
  <2>1. /\ pc["main"] = "new" /\ pc'["main"] = "constructed" /\ pc'["compress"] = "boot"
        /\ pc'["transmit"] = "boot" /\ events' = events /\ alive' = Objects
    BY <1>1, <1>0, Typed DEF Construct, Objects
  <2>2. QED
    BY <2>1, <1>0 DEF StagesOK, Deletes, Objects
<1>2. CASE Start
  <2>1. /\ pc["main"] = "constructed" /\ pc'["main"] = "starting"
        /\ pc'["compress"] = pc["compress"] /\ pc'["transmit"] = pc["transmit"]
        /\ UNCHANGED <<events, alive>>
    BY <1>2, <1>0, Typed DEF Start
  <2>2. QED
    BY <2>1, <1>0 DEF StagesOK, Deletes, Objects
<1>3. CASE StartFails
  BY <1>3, <1>0, Moves DEF StartFails, StagesOK, Deletes
<1>4. CASE ThreadReady
  BY <1>4, <1>0, Moves, Flags DEF ThreadReady, StagesOK, Deletes
<1>5. CASE Submit
  BY <1>5, <1>0, Moves, Flags DEF Submit, StagesOK, Deletes
<1>6. CASE Synced
  BY <1>6, <1>0, Moves, Flags DEF Synced, StagesOK, Deletes
<1>7. CASE Remove
  BY <1>7, <1>0, Moves, Flags DEF Remove, StagesOK, Deletes
<1>8. CASE WaitThreadExit
  BY <1>8, <1>0, Moves, Flags DEF WaitThreadExit, StagesOK, Deletes
<1>9. CASE MarkDone
  BY <1>9, <1>0, Moves DEF MarkDone, StagesOK, Deletes
<1>10. CASE WakeStages
  BY <1>10, <1>0, Moves, Flags DEF WakeStages, StagesOK, Deletes
<1>11. CASE WaitStages
  BY <1>11, <1>0, Moves, Flags DEF WaitStages, StagesOK, Deletes
<1>12. CASE DeleteDevice \/ DestroyBase
  BY <1>12, <1>0, Moves DEF DeleteDevice, DestroyBase, StagesOK, Deletes
<1>13. CASE EndUnits
  BY <1>13, <1>0, Moves, Flags DEF EndUnits, StagesOK, Deletes
<1>14. CASE FreeEncoder
  BY <1>14, <1>0, Moves, Flags DEF FreeEncoder, StagesOK, Deletes
<1>15. QED
  BY <1>1, <1>2, <1>3, <1>4, <1>5, <1>6, <1>7, <1>8, <1>9, <1>10, <1>11, <1>12, <1>13, <1>14
  DEF Main, MainCall

LEMMA StagesOKStep == ASSUME Lifecycle, [Next]_vars PROVE StagesOK'
<1>0. StagesOK /\ EngineOK
  BY DEF Lifecycle
<1>1. CASE Main
  BY <1>1, MainKeepsStagesOK
<1>2. CASE Engine
  <2>1. pc["main"] # "new"
    BY <1>0, <1>2, EngineFrame DEF EngineOK
  <2>2. QED
    BY <1>0, <1>2, <2>1, EngineFrame, EngineFlags DEF StagesOK
<1>3. CASE Compress
  <2>1. pc["main"] # "new"
    BY <1>0, <1>3, CompressFrame DEF StagesOK
  <2>2. QED
    BY <1>0, <1>3, <2>1, CompressFrame, CompressFlags DEF StagesOK
<1>4. CASE Transmit
  <2>1. pc["main"] # "new"
    BY <1>0, <1>4, TransmitFrame DEF StagesOK
  <2>2. Ev("transmitEnd") \in events' => Ev("transmitEnd") \in events \/ pc'["transmit"] = "gone"
    BY <1>4, Flags, Moves
    DEF Transmit, TransmitBoot, TransmitCheck, TransmitWakes, TransmitTask, SendResolution,
        Configured, Write, TransmitEnds, Sets, Waits, JustGoes, SetEvent, WaitEvent
  <2>3. QED
    BY <1>0, <1>4, <2>1, <2>2, TransmitFrame, TransmitFlags DEF StagesOK
<1>5. ASSUME NEW u \in Unit, UnitStep(u) PROVE StagesOK'
  BY <1>0, <1>5, UnitFrame DEF StagesOK
<1>6. CASE Settles \/ Unplug
  BY <1>0, <1>6, DisplayFrame DEF StagesOK
<1>7. CASE UNCHANGED vars
  BY <1>0, <1>7 DEF StagesOK, vars, threads
<1>8. QED
  BY <1>1, <1>2, <1>3, <1>4, <1>5, <1>6, <1>7 DEF Next

-----------------------------------------------------------------------------
(* The two hand-overs: engine to compress, compress to transmit *)

LEMMA MainKeepsHandover == ASSUME Lifecycle, Main PROVE HandoverOK'
<1>1. CASE Construct
  <2>1. /\ pc["main"] = "new" /\ pc'["engine"] = pc["engine"] /\ events' = events
        /\ pc'["compress"] = "boot" /\ pc'["transmit"] = "boot"
    BY <1>1, Typed DEF Construct
  <2>2. pc["engine"] = "none" /\ events = {}
    BY <2>1 DEF Lifecycle, EngineOK, StagesOK
  <2>3. QED
    BY <2>1, <2>2 DEF HandoverOK, Handed, AtMostOne, Works, Sends
<1>2. CASE pc["main"] # "new"
  <2>1. HandoverOK
    BY DEF Lifecycle
  <2>2. QED
    BY <1>2, <2>1, MainFrame DEF HandoverOK, Handed, AtMostOne
<1>3. QED
  BY <1>1, <1>2, OnlyConstructs

LEMMA EngineKeepsHandover == ASSUME Lifecycle, Engine PROVE HandoverOK'
<1> SUFFICES ASSUME ~done PROVE HandoverOK'
  BY EngineFrame DEF HandoverOK
<1> USE DEF SetEvent, WaitEvent, Rest, JustGoes, Sets, Waits
<1>0. HandoverOK
  BY DEF Lifecycle
<1>1. /\ pc'["compress"] = pc["compress"] /\ pc'["transmit"] = pc["transmit"]
      /\ transmitTask' = transmitTask
      /\ Ev("readyT") \in events' <=> Ev("readyT") \in events
      /\ Ev("startT") \in events' <=> Ev("startT") \in events
  BY EngineFrame, EngineFlags
<1>2. AtMostOne(Ev("readyC") \in events', pc'["engine"] = "startCompress",
                Ev("startC") \in events', pc'["compress"] \in {"boot"} \cup Works)
  <2>1. AtMostOne(Ev("readyC") \in events, pc["engine"] = "startCompress",
                  Ev("startC") \in events, pc["compress"] \in {"boot"} \cup Works)
    BY <1>0 DEF HandoverOK
  <2>2. CASE Toggle
    BY <2>1, <2>2, <1>1, Moves, Flags DEF Toggle, AtMostOne
  <2>3. CASE StartCompress
    BY <2>1, <2>3, <1>1, Moves, Flags DEF StartCompress, AtMostOne
  <2>4. CASE PrivateStart
    BY <2>1, <2>4, <1>1, Moves, Flags DEF PrivateStart, AtMostOne
  <2>5. CASE Run \/ Announce
    BY <2>1, <2>5, <1>1, Moves, Flags DEF Run, Announce, AtMostOne
  <2>6. CASE TakeFlags
    BY <2>1, <2>6, <1>1, Moves, Flags DEF TakeFlags, AtMostOne
  <2>7. CASE Analysis
    BY <2>1, <2>7, <1>1, Moves DEF Analysis, AtMostOne
  <2>8. CASE PrivateClose
    BY <2>1, <2>8, <1>1, Closes, Flags DEF AtMostOne
  <2>9. QED
    BY <2>2, <2>3, <2>4, <2>5, <2>6, <2>7, <2>8 DEF Engine
<1>3. QED
  BY <1>0, <1>1, <1>2 DEF HandoverOK, Handed, AtMostOne

\* compress hears of a frame only when it is ready, and starts transmit only
\* with a task, once transmit is ready.
LEMMA CompressKeepsHandover == ASSUME Lifecycle, Compress PROVE HandoverOK'
<1> SUFFICES ASSUME ~done PROVE HandoverOK'
  BY CompressFrame DEF HandoverOK
<1> USE DEF SetEvent, WaitEvent, Rest, JustGoes, Sets, Waits, tasks, Works, Handed
<1>0. /\ AtMostOne(Ev("readyC") \in events, pc["engine"] = "startCompress",
                   Ev("startC") \in events, pc["compress"] \in {"boot"} \cup Works)
      /\ AtMostOne(Ev("readyT") \in events,
                   pc["compress"] \in {"assign", "announceReady", "startTransmit"},
                   Ev("startT") \in events, pc["transmit"] \in {"boot"} \cup Sends)
      /\ Handed => transmitTask = "task"
  BY DEF Lifecycle, HandoverOK
<1>1. pc'["engine"] = pc["engine"] /\ pc'["transmit"] = pc["transmit"]
  BY CompressFrame
<1>2. CASE CompressBoot
  BY <1>0, <1>1, <1>2, Moves, Flags DEF CompressBoot, HandoverOK, AtMostOne
<1>3. CASE CompressCheck
  BY <1>0, <1>1, <1>3, Moves, Flags DEF CompressCheck, HandoverOK, AtMostOne
<1>4. CASE Setup
  <2>1. /\ pc["compress"] = "setup" /\ pc'["compress"] = "ownBlocks" /\ transmitTask' = transmitTask
        /\ \A n : Ev(n) \in events' <=> Ev(n) \in events
    BY <1>4, Moves, Flags, Shares DEF Setup
  <2>2. QED
    BY <1>0, <1>1, <2>1 DEF HandoverOK, AtMostOne
<1>5. CASE OwnBlocks
  BY <1>0, <1>1, <1>5, Moves DEF OwnBlocks, HandoverOK, AtMostOne
<1>6. CASE Join
  <2>1. /\ pc["compress"] = "join" /\ pc'["compress"] = "gather" /\ transmitTask' = transmitTask
        /\ \A n : Ev(n) \in events' <=> Ev(n) \in events
    BY <1>6, Moves, Flags, Shares DEF Join
  <2>2. QED
    BY <1>0, <1>1, <2>1 DEF HandoverOK, AtMostOne
<1>7. CASE TransmitIsReady
  BY <1>0, <1>1, <1>7, Moves, Flags DEF TransmitIsReady, HandoverOK, AtMostOne
<1>8. CASE Assign
  BY <1>0, <1>1, <1>8, Moves DEF Assign, HandoverOK, AtMostOne
<1>9. CASE AnnounceReady
  BY <1>0, <1>1, <1>9, Moves, Flags DEF AnnounceReady, HandoverOK, AtMostOne
<1>10. CASE StartTransmit
  BY <1>0, <1>1, <1>10, Moves, Flags DEF StartTransmit, HandoverOK, AtMostOne
<1>11. CASE CompressEnds
  BY <1>0, <1>1, <1>11, Moves, Flags DEF CompressEnds, HandoverOK, AtMostOne
<1>12. QED
  BY <1>2, <1>3, <1>4, <1>5, <1>6, <1>7, <1>8, <1>9, <1>10, <1>11 DEF Compress

\* transmit deletes a task only when nobody has handed it the next one.
LEMMA TransmitKeepsHandover == ASSUME Lifecycle, Transmit PROVE HandoverOK'
<1> SUFFICES ASSUME ~done PROVE HandoverOK'
  BY TransmitFrame DEF HandoverOK
<1> USE DEF SetEvent, WaitEvent, Rest, JustGoes, Sets, Waits, tasks, Sends, Handed
<1>0. /\ AtMostOne(Ev("readyC") \in events, pc["engine"] = "startCompress",
                   Ev("startC") \in events, pc["compress"] \in {"boot"} \cup Works)
      /\ AtMostOne(Ev("readyT") \in events,
                   pc["compress"] \in {"assign", "announceReady", "startTransmit"},
                   Ev("startT") \in events, pc["transmit"] \in {"boot"} \cup Sends)
      /\ Handed => transmitTask = "task"
  BY DEF Lifecycle, HandoverOK
<1>1. /\ pc'["engine"] = pc["engine"] /\ pc'["compress"] = pc["compress"]
      /\ Ev("readyC") \in events' <=> Ev("readyC") \in events
      /\ Ev("startC") \in events' <=> Ev("startC") \in events
  BY TransmitFrame, TransmitFlags
<1>2. CASE TransmitBoot
  BY <1>0, <1>1, <1>2, Moves, Flags DEF TransmitBoot, HandoverOK, AtMostOne
<1>3. CASE TransmitCheck
  BY <1>0, <1>1, <1>3, Moves DEF TransmitCheck, HandoverOK, AtMostOne
<1>4. CASE TransmitWakes
  <2>0. transmitTask' = transmitTask
    BY <1>4 DEF TransmitWakes
  <2>1. \/ /\ Goes("transmit", "wait", "task") /\ Ev("startT") \in events
           /\ events' = events \ {Ev("startT")}
        \/ Goes("transmit", "task", "gone") /\ transmitTask # "task"
    BY <1>4 DEF TransmitWakes
  <2>2. CASE pc["transmit"] = "wait"
    <3>1. /\ pc'["transmit"] = "task" /\ Ev("startT") \in events
          /\ events' = events \ {Ev("startT")}
      BY <2>1, <2>2, Moves
    <3>2. QED
      BY <1>0, <1>1, <2>0, <2>2, <3>1, Flags DEF HandoverOK, AtMostOne
  <2>3. CASE pc["transmit"] = "task" /\ transmitTask # "task"
    BY <1>0, <2>3
  <2>4. QED
    BY <2>1, <2>2, <2>3, Moves
<1>5. CASE TransmitTask
  BY <1>0, <1>1, <1>5, Moves DEF TransmitTask, HandoverOK, AtMostOne
<1>6. CASE SendResolution
  BY <1>0, <1>1, <1>6, Moves DEF SendResolution, Configured, HandoverOK, AtMostOne
<1>7. CASE Write
  BY <1>0, <1>1, <1>7, Moves, Flags DEF Write, HandoverOK, AtMostOne
<1>8. CASE TransmitEnds
  BY <1>0, <1>1, <1>8, Moves, Flags DEF TransmitEnds, HandoverOK, AtMostOne
<1>9. QED
  BY <1>2, <1>3, <1>4, <1>5, <1>6, <1>7, <1>8 DEF Transmit

LEMMA HandoverStep == ASSUME Lifecycle, [Next]_vars PROVE HandoverOK'
<1>0. HandoverOK
  BY DEF Lifecycle
<1>1. ASSUME NEW u \in Unit, UnitStep(u) PROVE HandoverOK'
  BY <1>0, <1>1, UnitFrame DEF HandoverOK, Handed
<1>2. CASE Settles \/ Unplug
  BY <1>0, <1>2, DisplayFrame DEF HandoverOK, Handed
<1>3. CASE UNCHANGED vars
  BY <1>0, <1>3 DEF HandoverOK, Handed, vars, threads, tasks
<1>4. QED
  BY <1>1, <1>2, <1>3, MainKeepsHandover, EngineKeepsHandover, CompressKeepsHandover,
     TransmitKeepsHandover
  DEF Next

-----------------------------------------------------------------------------
(* The units *)

\* The list does not change while it is shared out.
LEMMA ListStands ==
    ASSUME Lifecycle, Engine
    PROVE  listed' = listed \/ pc["compress"] \notin {"boot"} \cup Works
<1> SUFFICES ASSUME listed' # listed PROVE pc["compress"] \notin {"boot"} \cup Works
  OBVIOUS
<1>1. pc["engine"] = "waitCompressReady" /\ Ev("readyC") \in events
  BY EngineToggles
<1>2. ~done
  BY <1>1 DEF Lifecycle, EngineOK, EngineOver
<1>3. QED
  BY <1>1, <1>2 DEF Lifecycle, HandoverOK, AtMostOne

LEMMA SameUnits == ASSUME listed' = listed
                   PROVE  UnitCount' = UnitCount /\ Triggered' = Triggered
  BY DEF UnitCount, Triggered

\* Main triggers a unit only to let it end.
LEMMA MainKeepsUnits == ASSUME Lifecycle, Main PROVE UnitsOK'
<1> SUFFICES ASSUME NEW u \in Unit PROVE UnitOK(u)'
  BY DEF UnitsOK
<1>0. UnitOK(u) /\ EngineOK /\ StagesOK
  BY DEF Lifecycle, UnitsOK
<1>1. CASE Construct
  <2>1. /\ pc["main"] = "new" /\ events' = events /\ ending' = ending
        /\ pc'["compress"] = "boot" /\ unitPc'[u] = "wait"
    BY <1>1, Typed DEF Construct
  <2>2. events = {} /\ pc["compress"] = "none"
    BY <2>1, <1>0 DEF StagesOK
  <2>3. QED
    BY <2>1, <2>2, <1>0 DEF UnitOK, Sharing
<1>2. CASE pc["main"] # "new"
  <2>1. /\ pc'["compress"] = pc["compress"] /\ unitPc' = unitPc /\ listed' = listed
        /\ EvOf("ready", u) \in events' <=> EvOf("ready", u) \in events
    BY <1>2, MainFrame DEF blocks
  <2>2. EvOf("end", u) \in events' => EvOf("end", u) \in events
    BY <1>2, Flags
    DEF Main, MainCall, Construct, Start, StartFails, ThreadReady, Submit, Synced, Remove,
        WaitThreadExit, MarkDone, WakeStages, WaitStages, DeleteDevice, EndUnits, FreeEncoder,
        DestroyBase, Sets, Waits, JustGoes, SetEvent, WaitEvent
  <2>3. \/ /\ ending' = ending
           /\ EvOf("start", u) \in events' => EvOf("start", u) \in events
        \/ ending' = Unit /\ pc["compress"] = "gone"
    <3>1. CASE EndUnits
      BY <3>1, <1>0, Moves DEF EndUnits, StagesOK, Deletes
    <3>2. CASE ~EndUnits
      BY <1>2, <3>2, Flags
      DEF Main, MainCall, Construct, Start, StartFails, ThreadReady, Submit, Synced, Remove,
          WaitThreadExit, MarkDone, WakeStages, WaitStages, DeleteDevice, FreeEncoder,
          DestroyBase, Sets, Waits, JustGoes, SetEvent, WaitEvent, Rest
    <3>3. QED
      BY <3>1, <3>2
  <2>4. QED
    BY <1>0, <2>1, <2>2, <2>3, SameUnits DEF UnitOK, Sharing, AtMostOne
<1>3. QED
  BY <1>1, <1>2, OnlyConstructs

LEMMA EngineKeepsUnits == ASSUME Lifecycle, Engine PROVE UnitsOK'
<1> SUFFICES ASSUME NEW u \in Unit PROVE UnitOK(u)'
  BY DEF UnitsOK
<1>0. UnitOK(u)
  BY DEF Lifecycle, UnitsOK
<1>1. \/ listed' = listed
      \/ ~Sharing
  BY ListStands DEF Sharing, Works
<1>2. QED
  BY <1>0, <1>1, EngineFrame, EngineFlags, SameUnits DEF UnitOK, Sharing

\* compress triggers a unit that is waiting and joins those it triggered.
LEMMA CompressKeepsUnits == ASSUME Lifecycle, Compress PROVE UnitsOK'
<1> SUFFICES ASSUME NEW u \in Unit PROVE UnitOK(u)'
  BY DEF UnitsOK
<1>0. UnitOK(u)
  BY DEF Lifecycle, UnitsOK
<1>1. /\ unitPc' = unitPc /\ ending' = ending /\ UnitCount' = UnitCount /\ Triggered' = Triggered
      /\ EvOf("end", u) \in events' <=> EvOf("end", u) \in events
      /\ u \notin ending
  BY <1>0, CompressFrame, CompressFlags, SameUnits DEF UnitOK
<1>2. CASE Setup
  <2>1. /\ pc["compress"] = "setup" /\ pc'["compress"] = "ownBlocks"
        /\ EvOf("ready", u) \in events' <=> EvOf("ready", u) \in events
        /\ EvOf("start", u) \in events' <=> EvOf("start", u) \in events \/ u \in Triggered
    BY <1>2, Moves, Flags, Shares DEF Setup
  <2>2. QED
    BY <1>0, <1>1, <2>1 DEF UnitOK, Sharing, AtMostOne
<1>3. CASE Join
  <2>1. /\ pc["compress"] = "join" /\ pc'["compress"] = "gather"
        /\ EvOf("ready", u) \in events' <=> EvOf("ready", u) \in events /\ u \notin Triggered
        /\ EvOf("start", u) \in events' <=> EvOf("start", u) \in events
        /\ u \in Triggered => EvOf("ready", u) \in events
    BY <1>3, Moves, Flags, Shares DEF Join
  <2>2. QED
    BY <1>0, <1>1, <2>1 DEF UnitOK, Sharing, AtMostOne
<1>4. CASE OwnBlocks
  BY <1>0, <1>1, <1>4, Moves DEF OwnBlocks, UnitOK, Sharing
<1>5. CASE ~(Setup \/ Join \/ OwnBlocks)
  <2>1. \A n : EvOf(n, u) \in events' <=> EvOf(n, u) \in events
    BY <1>5, Flags
    DEF Compress, CompressBoot, CompressCheck, TransmitIsReady, Assign, AnnounceReady,
        StartTransmit, CompressEnds, Sets, Waits, JustGoes, SetEvent, WaitEvent
  <2>2. ~Sharing /\ ~Sharing'
    BY <1>5, Moves
    DEF Compress, CompressBoot, CompressCheck, TransmitIsReady, Assign, AnnounceReady,
        StartTransmit, CompressEnds, Sets, Waits, JustGoes, Sharing
  <2>3. QED
    BY <1>0, <1>1, <2>1, <2>2 DEF UnitOK
<1>6. QED
  BY <1>2, <1>3, <1>4, <1>5

LEMMA UnitKeepsUnits == ASSUME Lifecycle, NEW u \in Unit, UnitStep(u) PROVE UnitsOK'
<1>0. UnitsOK /\ unitPc \in [Unit -> UnitAt]
  BY Typed DEF Lifecycle
<1>1. /\ pc' = pc /\ ending' = ending /\ Triggered' = Triggered /\ Sharing' = Sharing
      /\ \A v \in Unit \ {u} : unitPc'[v] = unitPc[v]
      /\ \A n : \A v \in Unit \ {u} : EvOf(n, v) \in events' <=> EvOf(n, v) \in events
  BY UnitFrame, SameUnits DEF Sharing
<1>2. ASSUME NEW v \in Unit \ {u} PROVE UnitOK(v)'
  BY <1>0, <1>1, <1>2 DEF UnitsOK, UnitOK
<1>3. UnitOK(u)'
  <2> USE DEF UnitGoes, WaitEvent, SetEvent
  <2>1. CASE UnitWakes(u)
    BY <1>0, <1>1, <2>1, Flags DEF UnitWakes, UnitsOK, UnitOK, AtMostOne
  <2>2. CASE UnitEncodes(u)
    BY <1>0, <1>1, <2>2 DEF UnitEncodes, UnitsOK, UnitOK, AtMostOne
  <2>3. CASE UnitCompletes(u)
    BY <1>0, <1>1, <2>3, Flags DEF UnitCompletes, UnitsOK, UnitOK, AtMostOne
  <2>4. CASE UnitEnds(u)
    BY <1>0, <1>1, <2>4, Flags DEF UnitEnds, UnitsOK, UnitOK, AtMostOne
  <2>5. QED
    BY <2>1, <2>2, <2>3, <2>4 DEF UnitStep
<1>4. QED
  BY <1>2, <1>3 DEF UnitsOK

LEMMA UnitsStep == ASSUME Lifecycle, [Next]_vars PROVE UnitsOK'
<1>0. UnitsOK
  BY DEF Lifecycle
<1>1. CASE Transmit
  BY <1>0, <1>1, TransmitFrame, TransmitFlags, SameUnits DEF UnitsOK, UnitOK, Sharing
<1>2. CASE Settles \/ Unplug
  BY <1>0, <1>2, DisplayFrame, SameUnits DEF UnitsOK, UnitOK, Sharing
<1>3. CASE UNCHANGED vars
  BY <1>0, <1>3, SameUnits DEF UnitsOK, UnitOK, Sharing, vars, threads, blocks
<1>4. QED
  BY <1>1, <1>2, <1>3, MainKeepsUnits, EngineKeepsUnits, CompressKeepsUnits, UnitKeepsUnits
  DEF Next

-----------------------------------------------------------------------------
(* The shares of a list *)

\* No unit starts before the one in front of it has ended.
LEMMA SharesApart ==
    ASSUME NEW s \in Nat, NEW u \in Nat, NEW v \in Nat, NEW i \in Nat, u < v, i <= u * s
    PROVE  ~((v - 1) * s < i)
<1> DEFINE w == v - 1
<1>1. w \in Nat /\ u <= w
  OBVIOUS
<1> HIDE DEF w
<1>2. u * s <= w * s /\ u * s \in Nat /\ w * s \in Nat
  BY <1>1
<1> DEFINE us == u * s
           ws == w * s
<1>3. us \in Nat /\ ws \in Nat /\ us <= ws /\ i <= us
  BY <1>2
<1> HIDE DEF us, ws
<1>4. ~(ws < i)
  BY <1>3
<1>5. QED
  BY <1>4 DEF ws, w

\* Shares of equal size leave nothing out in front of the last one's end.
LEMMA SharesCover ==
    ASSUME NEW s \in Nat \ {0}, NEW t \in Nat, NEW i \in Nat \ {0}, i <= t * s
    PROVE  \E u \in 1..t : (u - 1) * s < i /\ i <= u * s
<1> DEFINE q == (i - 1) \div s
<1>1. q \in Nat /\ q * s <= i - 1 /\ i - 1 < (q + 1) * s
  OBVIOUS
<1> HIDE DEF q
<1>2. q * s \in Nat /\ (q + 1) * s \in Nat
  BY <1>1
<1>3. q * s < i /\ i <= (q + 1) * s
  <2> DEFINE a == q * s
             b == (q + 1) * s
  <2>1. a \in Nat /\ b \in Nat /\ a <= i - 1 /\ i - 1 < b
    BY <1>1, <1>2
  <2> HIDE DEF a, b
  <2>2. a < i /\ i <= b
    BY <2>1
  <2>3. QED
    BY <2>2 DEF a, b
<1>4. q + 1 \in 1..t
  <2> SUFFICES ASSUME ~(q < t) PROVE FALSE
    BY <1>1
  <2>1. t <= q
    BY <1>1
  <2>2. t * s <= q * s /\ t * s \in Nat
    BY <1>1, <2>1
  <2> DEFINE a == q * s
             b == t * s
  <2>3. a \in Nat /\ b \in Nat /\ b <= a /\ a < i /\ i <= b
    BY <1>2, <1>3, <2>2
  <2> HIDE DEF a, b
  <2>4. QED
    BY <2>3
<1>5. (q + 1) - 1 = q
  BY <1>1
<1>6. QED
  BY <1>3, <1>4, <1>5

\* Every entry listed is in the share of exactly one unit.
LEMMA ShareFacts ==
    ASSUME Lifecycle, NEW i \in 1..MaxCount
    PROVE  /\ \A u, v \in Triggered \cup {0} : In(u, i) /\ In(v, i) => u = v
           /\ (\E u \in Triggered \cup {0} : In(u, i)) <=> i <= listed
<1> DEFINE t == UnitCount - 1
<1>1. /\ t \in Nat /\ Triggered = 1..t /\ t * Share \in 0..listed /\ Share \in Nat \ {0}
      /\ listed \in Nat /\ i \in Nat \ {0} /\ 0 \notin Triggered
  BY Shares, Typed, LifecycleAssumption
<1>2. \A u : In(u, i) <=> IF u = 0 THEN t * Share < i /\ i <= listed
                          ELSE (u - 1) * Share < i /\ i <= u * Share
  BY DEF In, Shared
<1> HIDE DEF t
<1>3. \A u \in 1..t : u * Share <= t * Share /\ u * Share \in Nat
  BY <1>1
<1>4. ASSUME NEW u \in 1..t, NEW v \in 1..t, In(u, i), In(v, i) PROVE u = v
  <2>1. /\ u \in Nat \ {0} /\ (u - 1) * Share < i /\ i <= u * Share
        /\ v \in Nat \ {0} /\ (v - 1) * Share < i /\ i <= v * Share
    BY <1>1, <1>2, <1>4
  <2>2. ~(u < v)
    BY <1>1, <2>1, SharesApart
  <2>3. ~(v < u)
    BY <1>1, <2>1, SharesApart
  <2>4. QED
    BY <2>1, <2>2, <2>3
<1>5. ASSUME NEW u \in 1..t, In(u, i) PROVE ~In(0, i) /\ i <= listed
  <2>1. i <= u * Share /\ u * Share <= t * Share /\ u * Share \in Nat
    BY <1>1, <1>2, <1>3, <1>5
  <2> DEFINE a == u * Share
             b == t * Share
  <2>2. i <= a /\ a <= b /\ a \in Nat /\ b \in 0..listed
    BY <1>1, <2>1
  <2> HIDE DEF a, b
  <2>3. ~(b < i) /\ i <= listed
    BY <1>1, <2>2
  <2>4. QED
    BY <1>2, <2>3 DEF b
<1>6. \A u, v \in Triggered \cup {0} : In(u, i) /\ In(v, i) => u = v
  BY <1>1, <1>4, <1>5
<1>7. ASSUME i <= listed PROVE \E u \in Triggered \cup {0} : In(u, i)
  <2>1. CASE i <= t * Share
    BY <1>1, <1>2, <2>1, SharesCover
  <2>2. CASE ~(i <= t * Share)
    <3> DEFINE b == t * Share
    <3>1. b \in 0..listed /\ ~(i <= b)
      BY <1>1, <2>2
    <3> HIDE DEF b
    <3>2. b < i
      BY <1>1, <3>1
    <3>3. In(0, i)
      BY <1>2, <1>7, <3>2 DEF b
    <3>4. QED
      BY <3>3
  <2>3. QED
    BY <2>1, <2>2
<1>8. ASSUME NEW u \in Triggered \cup {0}, In(u, i) PROVE i <= listed
  BY <1>1, <1>2, <1>5, <1>8
<1>9. QED
  BY <1>6, <1>7, <1>8

-----------------------------------------------------------------------------
(* What is encoded of a list *)

LEMMA SharesStand ==
    ASSUME Lifecycle, UNCHANGED <<listed, range, encoded>>,
           pc'["compress"] = pc["compress"],
           \A u \in Unit : Finished(u)' <=> Finished(u)
    PROVE  SharesOK'
<1>1. /\ UnitCount' = UnitCount /\ Triggered' = Triggered /\ Sharing' = Sharing
      /\ \A u \in Triggered \cup {0} : Finished(u)' <=> Finished(u)
  BY SameUnits, Shares DEF Sharing, Finished
<1>2. /\ \A u : Shared(u)' = Shared(u)
      /\ \A u, i : In(u, i)' <=> In(u, i)
  BY <1>1 DEF Shared, In
<1>3. ListEncoded'
  BY DEF Lifecycle, SharesOK, ListEncoded
<1>4. SharesOK
  BY DEF Lifecycle
<1>5. QED
  BY <1>1, <1>2, <1>3, <1>4 DEF SharesOK

LEMMA NothingShared ==
    ASSUME pc'["compress"] \notin {"ownBlocks", "join", "gather"}
    PROVE  SharesOK'
  BY DEF SharesOK, ListEncoded, Sharing

\* A unit encodes its share, which no other unit has.
LEMMA ShareEncoded ==
    ASSUME Lifecycle, Sharing, NEW u \in Triggered \cup {0}, EncodeBlocks(u),
           ~Finished(u), Finished(u)', UNCHANGED <<listed, range>>, Sharing',
           \A v \in (Triggered \cup {0}) \ {u} : Finished(v)' <=> Finished(v)
    PROVE  SharesOK' /\ encoded' \in [1..MaxCount -> 0..1]
<1>1. /\ \A v \in Triggered \cup {0} : range[v] = Shared(v)
      /\ \A i \in 1..MaxCount :
            encoded[i] = IF \E v \in Triggered \cup {0} : Finished(v) /\ In(v, i) THEN 1 ELSE 0
  BY DEF Lifecycle, SharesOK
<1>2. /\ UnitCount' = UnitCount /\ Triggered' = Triggered
      /\ \A v : Shared(v)' = Shared(v)
      /\ \A v, i : In(v, i)' <=> In(v, i)
  BY SameUnits DEF Shared, In
<1>3. ASSUME NEW i \in 1..MaxCount
      PROVE  encoded'[i] = IF \E v \in Triggered \cup {0} : Finished(v)' /\ In(v, i)
                           THEN 1 ELSE 0
  <2>1. encoded'[i] = IF In(u, i) THEN encoded[i] + 1 ELSE encoded[i]
    BY <1>1 DEF EncodeBlocks, In
  <2>2. CASE In(u, i)
    <3>1. ~(\E v \in Triggered \cup {0} : Finished(v) /\ In(v, i))
      BY <2>2, ShareFacts
    <3>2. encoded[i] = 0
      BY <1>1, <3>1
    <3>3. QED
      BY <2>1, <2>2, <3>2
  <2>3. CASE ~In(u, i)
    <3>1. (\E v \in Triggered \cup {0} : Finished(v)' /\ In(v, i))
          <=> (\E v \in Triggered \cup {0} : Finished(v) /\ In(v, i))
      BY <2>3
    <3>2. QED
      BY <1>1, <2>1, <2>3, <3>1
  <2>4. QED
    BY <2>2, <2>3
<1>4. encoded' \in [1..MaxCount -> 0..1]
  <2>1. \A i \in 1..MaxCount : encoded'[i] \in 0..1
    BY <1>3
  <2>2. encoded' = [i \in 1..MaxCount |-> encoded'[i]]
    BY DEF EncodeBlocks
  <2>3. QED
    BY <2>1, <2>2
<1>5. \A v \in Triggered' \cup {0} : range'[v] = Shared(v)'
  BY <1>1, <1>2
<1>6. \A i \in 1..MaxCount :
          encoded'[i] = IF \E v \in Triggered' \cup {0} : Finished(v)' /\ In(v, i)'
                        THEN 1 ELSE 0
  BY <1>2, <1>3
<1>7. ListEncoded'
  BY DEF ListEncoded, Sharing
<1>8. QED
  BY <1>4, <1>5, <1>6, <1>7 DEF SharesOK

LEMMA MainKeepsShares == ASSUME Lifecycle, Main PROVE SharesOK'
<1>1. CASE Construct
  <2>1. pc'["compress"] = "boot"
    BY <1>1, Typed DEF Construct
  <2>2. QED
    BY <2>1, NothingShared
<1>2. CASE pc["main"] # "new"
  <2>1. /\ UNCHANGED <<listed, range, encoded, unitPc>> /\ pc'["compress"] = pc["compress"]
        /\ \A u \in Unit : EvOf("ready", u) \in events' <=> EvOf("ready", u) \in events
    BY <1>2, MainFrame DEF blocks
  <2>2. \A u \in Unit : Finished(u)' <=> Finished(u)
    BY <2>1 DEF Finished
  <2>3. QED
    BY <2>1, <2>2, SharesStand
<1>3. QED
  BY <1>1, <1>2, OnlyConstructs

LEMMA EngineKeepsShares == ASSUME Lifecycle, Engine PROVE SharesOK'
<1>1. CASE listed' = listed
  <2>1. \A u \in Unit : Finished(u)' <=> Finished(u)
    BY EngineFrame, EngineFlags DEF Finished
  <2>2. QED
    BY <1>1, <2>1, EngineFrame, SharesStand
<1>2. CASE listed' # listed
  BY <1>2, ListStands, EngineFrame, NothingShared DEF Works
<1>3. QED
  BY <1>1, <1>2

\* compress gathers the bitstream when every unit has finished its share.
LEMMA CompressKeepsShares == ASSUME Lifecycle, Compress PROVE SharesOK'
<1>0. SharesOK /\ UnitsOK /\ listed' = listed /\ unitPc' = unitPc
  BY CompressFrame DEF Lifecycle
<1>1. CASE Setup
  <2>1. /\ pc["compress"] = "setup" /\ pc'["compress"] = "ownBlocks" /\ range' = Ranges
        /\ encoded' = [i \in 1..MaxCount |-> 0]
        /\ \A u \in Unit : EvOf("ready", u) \in events' <=> EvOf("ready", u) \in events
    BY <1>1, Moves, Flags, Shares DEF Setup
  <2>2. \A u \in Triggered \cup {0} : ~Finished(u)'
    BY <1>0, <2>1, Shares DEF Finished, UnitsOK, UnitOK, Sharing
  <2>3. \A u \in Triggered \cup {0} : u \in 0..Helpers /\ (u \in Triggered <=> u # 0)
    BY Shares, LifecycleAssumption DEF Unit
  <2>4. \A u \in Triggered \cup {0} : range'[u] = Shared(u)
    BY <2>1, <2>3 DEF Ranges, Shared
  <2>5. Triggered' = Triggered /\ \A u : Shared(u)' = Shared(u)
    BY <1>0, SameUnits DEF Shared
  <2>6. ListEncoded'
    BY <2>1 DEF ListEncoded
  <2>7. QED
    BY <2>1, <2>2, <2>4, <2>5, <2>6 DEF SharesOK
<1>2. CASE OwnBlocks
  <2>1. /\ pc["compress"] = "ownBlocks" /\ pc'["compress"] = "join" /\ EncodeBlocks(0)
        /\ UNCHANGED <<events, range>>
    BY <1>2, Moves DEF OwnBlocks
  <2>2. /\ ~Finished(0) /\ Finished(0)' /\ Sharing /\ Sharing'
        /\ \A v \in Triggered : Finished(v)' <=> Finished(v)
    BY <1>0, <2>1, Shares DEF Finished, Sharing
  <2>3. QED
    BY <1>0, <2>1, <2>2, ShareEncoded
<1>3. CASE Join
  <2>1. /\ pc["compress"] = "join" /\ pc'["compress"] = "gather" /\ encoded' = encoded
        /\ \A u \in Triggered : EvOf("ready", u) \in events
    BY <1>3, Moves DEF Join, Rest, blocks
  <2>2. \A u \in Triggered \cup {0} : Finished(u)
    BY <2>1 DEF Finished
  <2>3. \A i \in 1..MaxCount : encoded[i] = IF i <= listed THEN 1 ELSE 0
    BY <1>0, <2>1, <2>2, ShareFacts DEF SharesOK, Sharing
  <2>4. QED
    BY <1>0, <2>1, <2>3 DEF SharesOK, ListEncoded, Sharing
<1>4. CASE ~(Setup \/ OwnBlocks \/ Join)
  <2>1. pc'["compress"] \notin {"ownBlocks", "join", "gather"}
    BY <1>4, Moves
    DEF Compress, CompressBoot, CompressCheck, TransmitIsReady, Assign, AnnounceReady,
        StartTransmit, CompressEnds, Sets, Waits, JustGoes
  <2>2. QED
    BY <2>1, NothingShared
<1>5. QED
  BY <1>1, <1>2, <1>3, <1>4

\* A unit that encodes was triggered and has not finished.
LEMMA UnitEncodesShare ==
    ASSUME Lifecycle, NEW u \in Unit, UnitEncodes(u)
    PROVE  SharesOK' /\ encoded' \in [1..MaxCount -> 0..1]
<1>1. UnitOK(u) /\ unitPc \in [Unit -> UnitAt] /\ u # 0
  BY Typed, Shares DEF Lifecycle, UnitsOK
<1>2. /\ unitPc[u] = "encode" /\ unitPc'[u] = "complete" /\ EncodeBlocks(u)
      /\ UNCHANGED <<pc, events, listed, range>>
      /\ \A v \in Unit \ {u} : unitPc'[v] = unitPc[v]
  BY <1>1 DEF UnitEncodes, UnitGoes
<1>3. Sharing /\ Sharing' /\ u \in Triggered /\ ~Finished(u) /\ Finished(u)'
  BY <1>1, <1>2 DEF UnitOK, Sharing, AtMostOne, Finished
<1>4. \A v \in (Triggered \cup {0}) \ {u} : Finished(v)' <=> Finished(v)
  BY <1>2, Shares DEF Finished
<1>5. QED
  BY <1>2, <1>3, <1>4, ShareEncoded

LEMMA UnitKeepsShares == ASSUME Lifecycle, NEW u \in Unit, UnitStep(u) PROVE SharesOK'
<1>1. CASE UnitEncodes(u)
  BY <1>1, UnitEncodesShare
<1>2. CASE ~UnitEncodes(u)
  <2>1. UNCHANGED <<pc, listed, range>> /\ \A v \in Unit \ {u} : Finished(v)' <=> Finished(v)
    BY UnitFrame, Shares DEF Finished
  <2>2. encoded' = encoded /\ (Finished(u)' <=> Finished(u))
    <3>1. unitPc \in [Unit -> UnitAt] /\ u # 0
      BY Typed, Shares
    <3>2. CASE UnitWakes(u)
      BY <3>1, <3>2, Flags DEF UnitWakes, UnitGoes, WaitEvent, Finished, blocks
    <3>3. CASE UnitCompletes(u)
      BY <3>1, <3>3, Flags DEF UnitCompletes, UnitGoes, SetEvent, Finished, blocks
    <3>4. CASE UnitEnds(u)
      BY <3>1, <3>4, Flags DEF UnitEnds, UnitGoes, SetEvent, Finished, blocks
    <3>5. QED
      BY <1>2, <3>2, <3>3, <3>4 DEF UnitStep
  <2>3. QED
    BY <2>1, <2>2, SharesStand
<1>3. QED
  BY <1>1, <1>2

LEMMA SharesStep == ASSUME Lifecycle, [Next]_vars PROVE SharesOK'
<1>1. CASE Transmit
  <2>1. \A u \in Unit : Finished(u)' <=> Finished(u)
    BY <1>1, TransmitFrame, TransmitFlags DEF Finished
  <2>2. QED
    BY <1>1, <2>1, TransmitFrame, SharesStand
<1>2. CASE Settles \/ Unplug \/ UNCHANGED vars
  <2>1. UNCHANGED <<pc, unitPc, events, listed, range, encoded>>
    BY <1>2, DisplayFrame DEF vars, threads, blocks
  <2>2. \A u \in Unit : Finished(u)' <=> Finished(u)
    BY <2>1 DEF Finished
  <2>3. QED
    BY <2>1, <2>2, SharesStand
<1>3. QED
  BY <1>1, <1>2, MainKeepsShares, EngineKeepsShares, CompressKeepsShares, UnitKeepsShares
  DEF Next

-----------------------------------------------------------------------------
(* Types and lifetimes *)

LEMMA Named ==
    /\ \A n \in {"sync", "encode", "remove", "threadReady", "threadEnd", "readyC", "startC",
                 "readyT", "startT", "compressEnd", "transmitEnd"} : Ev(n) \in Events
    /\ \A u \in Unit : \A n \in {"start", "ready", "end"} : EvOf(n, u) \in Events
  BY DEF Events

\* Where the stages stand, and the flags they set.
PlacesOK == /\ pc \in [Stages -> MainAt \cup EngineAt \cup CompressAt \cup TransmitAt]
            /\ pc["main"] \in MainAt /\ pc["engine"] \in EngineAt
            /\ pc["compress"] \in CompressAt /\ pc["transmit"] \in TransmitAt
            /\ events \subseteq Events

\* A stage that moves to a place of its own keeps the places right.
LEMMA Places ==
    ASSUME Lifecycle, NEW from, NEW to, events' \subseteq Events
    PROVE  /\ Goes("main", from, to) /\ to \in MainAt => PlacesOK'
           /\ Goes("engine", from, to) /\ to \in EngineAt => PlacesOK'
           /\ Goes("compress", from, to) /\ to \in CompressAt => PlacesOK'
           /\ Goes("transmit", from, to) /\ to \in TransmitAt => PlacesOK'
<1>1. PlacesOK
  BY DEF Lifecycle, LifetimesRespected, TypeOK, PlacesOK
<1>2. CASE Goes("main", from, to) /\ to \in MainAt
  BY <1>1, <1>2 DEF PlacesOK, Goes, Stages
<1>3. CASE Goes("engine", from, to) /\ to \in EngineAt
  BY <1>1, <1>3 DEF PlacesOK, Goes, Stages
<1>4. CASE Goes("compress", from, to) /\ to \in CompressAt
  BY <1>1, <1>4 DEF PlacesOK, Goes, Stages
<1>5. CASE Goes("transmit", from, to) /\ to \in TransmitAt
  BY <1>1, <1>5 DEF PlacesOK, Goes, Stages
<1>6. QED
  BY <1>2, <1>3, <1>4, <1>5

LEMMA MainPlaces == ASSUME Lifecycle, Main PROVE PlacesOK'
<1> USE DEF SetEvent, WaitEvent, JustGoes, Sets, Waits, Rest, MainAt
<1>0. PlacesOK
  BY DEF Lifecycle, LifetimesRespected, TypeOK, PlacesOK
<1>1. CASE Construct
  <2>1. /\ events' = events
        /\ pc' = [pc EXCEPT !["main"] = "constructed",
                            !["compress"] = "boot", !["transmit"] = "boot"]
    BY <1>1 DEF Construct
  <2>2. QED
    BY <1>0, <2>1 DEF PlacesOK, Stages, CompressAt, TransmitAt
<1>2. CASE Start
  <2>1. /\ events' = events
        /\ pc' = [pc EXCEPT !["main"] = "starting", !["engine"] = "boot"]
    BY <1>2 DEF Start
  <2>2. QED
    BY <1>0, <2>1 DEF PlacesOK, Stages, EngineAt
<1>3. events' \subseteq Events
  <2>1. events \subseteq Events
    BY <1>0 DEF PlacesOK
  <2>2. CASE EndUnits
    BY <2>1, <2>2, Named DEF EndUnits
  <2>3. CASE ~EndUnits
    BY <2>1, <2>3, Named
    DEF Main, MainCall, Construct, Start, StartFails, ThreadReady, Submit, Synced, Remove,
        WaitThreadExit, MarkDone, WakeStages, WaitStages, DeleteDevice, FreeEncoder, DestroyBase
  <2>4. QED
    BY <2>2, <2>3
<1>4. CASE StartFails \/ ThreadReady \/ Submit \/ Synced
  BY <1>3, <1>4, Places DEF StartFails, ThreadReady, Submit, Synced
<1>5. CASE Remove \/ WaitThreadExit \/ MarkDone \/ WakeStages
  BY <1>3, <1>5, Places DEF Remove, WaitThreadExit, MarkDone, WakeStages
<1>6. CASE WaitStages \/ DeleteDevice \/ EndUnits \/ FreeEncoder \/ DestroyBase
  BY <1>3, <1>6, Places DEF WaitStages, DeleteDevice, EndUnits, FreeEncoder, DestroyBase
<1>7. QED
  BY <1>1, <1>2, <1>4, <1>5, <1>6 DEF Main, MainCall

LEMMA EnginePlaces == ASSUME Lifecycle, Engine PROVE PlacesOK'
<1> USE DEF SetEvent, WaitEvent, JustGoes, Sets, Waits, Rest, EngineAt
<1>1. events' \subseteq Events
  <2>1. events \subseteq Events
    BY DEF Lifecycle, LifetimesRespected, TypeOK
  <2>2. CASE PrivateClose
    BY <2>1, <2>2, Closes, Named
  <2>3. CASE ~PrivateClose
    BY <2>1, <2>3, Named
    DEF Engine, PrivateStart, Run, TakeFlags, Analysis, Toggle, StartCompress, Announce
  <2>4. QED
    BY <2>2, <2>3
<1>2. CASE PrivateStart \/ Run \/ TakeFlags \/ Announce
  BY <1>1, <1>2, Places DEF PrivateStart, Run, TakeFlags, Announce
<1>3. CASE Analysis \/ Toggle \/ StartCompress
  BY <1>1, <1>3, Places DEF Analysis, Toggle, StartCompress
<1>4. CASE PrivateClose
  <2>1. \E from : \E to \in {"closeSet", "closeUnlock", "gone"} : Goes("engine", from, to)
    BY <1>4 DEF PrivateClose
  <2>2. QED
    BY <1>1, <2>1, Places
<1>5. QED
  BY <1>2, <1>3, <1>4 DEF Engine

LEMMA CompressPlaces == ASSUME Lifecycle, Compress PROVE PlacesOK'
<1> USE DEF SetEvent, WaitEvent, JustGoes, Sets, Waits, Rest, CompressAt
<1>1. events' \subseteq Events
  <2>1. events \subseteq Events
    BY DEF Lifecycle, LifetimesRespected, TypeOK
  <2>2. CASE Setup
    BY <2>1, <2>2, Named, Shares DEF Setup
  <2>3. CASE ~Setup
    BY <2>1, <2>3, Named
    DEF Compress, CompressBoot, CompressCheck, OwnBlocks, Join, TransmitIsReady, Assign,
        AnnounceReady, StartTransmit, CompressEnds
  <2>4. QED
    BY <2>2, <2>3
<1>2. CASE CompressBoot \/ CompressCheck \/ Setup \/ OwnBlocks \/ Join
  BY <1>1, <1>2, Places DEF CompressBoot, CompressCheck, Setup, OwnBlocks, Join
<1>3. CASE TransmitIsReady \/ Assign \/ AnnounceReady \/ StartTransmit \/ CompressEnds
  BY <1>1, <1>3, Places DEF TransmitIsReady, Assign, AnnounceReady, StartTransmit, CompressEnds
<1>4. QED
  BY <1>2, <1>3 DEF Compress

LEMMA TransmitPlaces == ASSUME Lifecycle, Transmit PROVE PlacesOK'
<1> USE DEF SetEvent, WaitEvent, JustGoes, Sets, Waits, Rest, TransmitAt
<1>1. events' \subseteq Events
  <2>1. events \subseteq Events
    BY DEF Lifecycle, LifetimesRespected, TypeOK
  <2>2. QED
    BY <2>1, Named
    DEF Transmit, TransmitBoot, TransmitCheck, TransmitWakes, TransmitTask, SendResolution,
        Configured, Write, TransmitEnds
<1>2. CASE TransmitBoot \/ TransmitCheck \/ TransmitTask \/ TransmitEnds
  BY <1>1, <1>2, Places DEF TransmitBoot, TransmitCheck, TransmitTask, TransmitEnds
<1>3. CASE TransmitWakes
  <2>1. \E from : \E to \in {"task", "gone"} : Goes("transmit", from, to)
    BY <1>3 DEF TransmitWakes
  <2>2. QED
    BY <1>1, <2>1, Places
<1>4. CASE SendResolution \/ Write
  BY <1>1, <1>4, Places DEF SendResolution, Configured, Write
<1>5. QED
  BY <1>2, <1>3, <1>4 DEF Transmit

LEMMA PlacesStep == ASSUME Lifecycle, [Next]_vars PROVE PlacesOK'
<1>0. PlacesOK
  BY DEF Lifecycle, LifetimesRespected, TypeOK, PlacesOK
<1>1. ASSUME NEW u \in Unit, UnitStep(u) PROVE PlacesOK'
  <2>1. events' \subseteq Events /\ pc' = pc
    BY <1>0, <1>1, Named, UnitFrame
    DEF UnitStep, UnitWakes, UnitEncodes, UnitCompletes, UnitEnds, SetEvent, WaitEvent, PlacesOK
  <2>2. QED
    BY <1>0, <2>1 DEF PlacesOK
<1>2. CASE Settles \/ Unplug \/ UNCHANGED vars
  BY <1>0, <1>2, DisplayFrame DEF PlacesOK, vars, threads
<1>3. QED
  BY <1>1, <1>2, MainPlaces, EnginePlaces, CompressPlaces, TransmitPlaces DEF Next

\* The values of the variables but pc and events.
ValuesOK ==
    /\ unitPc \in [Unit -> UnitAt]
    /\ created \in BOOLEAN /\ ready \in BOOLEAN /\ done \in BOOLEAN
    /\ ending \subseteq Unit
    /\ newTask \in BOOLEAN /\ transmitTask \in {"unset", "null", "task"}
    /\ frames \in 0..MaxFrames
    /\ listed \in 0..MaxCount /\ analysed \in 0..MaxCount
    /\ range \in [0..Helpers -> (0..(Helpers * Share)) \X (0..MaxCount + Share)]
    /\ encoded \in [1..MaxCount -> 0..1]
    /\ display \in {"ready", "busy", "gone"}
    /\ alive \subseteq Objects /\ crashed \in BOOLEAN

LEMMA TypeParts == TypeOK <=> PlacesOK /\ ValuesOK
  BY DEF TypeOK, PlacesOK, ValuesOK

LEMMA MainValues == ASSUME Lifecycle, Main PROVE ValuesOK'
<1> USE DEF JustGoes, Sets, Waits, Rest, base, tasks, blocks
<1>0. ValuesOK /\ MaxFrames \in Nat
  BY TypeParts, Typed, LifecycleAssumption
<1>1. CASE Construct
  BY <1>0, <1>1 DEF Construct, ValuesOK, UnitAt
<1>2. CASE Start
  BY <1>0, <1>2 DEF Start, ValuesOK
<1>3. CASE Submit
  <2>1. frames' \in 0..MaxFrames /\ newTask' \in BOOLEAN
    BY <1>0, <1>3 DEF Submit, ValuesOK
  <2>2. QED
    BY <1>0, <1>3, <2>1 DEF Submit, ValuesOK
<1>4. CASE StartFails \/ ThreadReady \/ Synced \/ Remove
  BY <1>0, <1>4 DEF StartFails, ThreadReady, Synced, Remove, ValuesOK
<1>5. CASE WaitThreadExit \/ WakeStages \/ WaitStages
  BY <1>0, <1>5 DEF WaitThreadExit, WakeStages, WaitStages, ValuesOK
<1>6. CASE MarkDone \/ EndUnits
  BY <1>0, <1>6 DEF MarkDone, EndUnits, ValuesOK
<1>7. CASE DeleteDevice \/ FreeEncoder \/ DestroyBase
  BY <1>0, <1>7 DEF DeleteDevice, FreeEncoder, DestroyBase, ValuesOK
<1>8. QED
  BY <1>1, <1>2, <1>3, <1>4, <1>5, <1>6, <1>7 DEF Main, MainCall

LEMMA EngineValues == ASSUME Lifecycle, Engine PROVE ValuesOK'
<1> USE DEF JustGoes, Sets, Waits, Rest, base, tasks, blocks
<1>0. ValuesOK
  BY TypeParts, Typed
<1>1. CASE PrivateStart \/ Run \/ TakeFlags
  BY <1>0, <1>1 DEF PrivateStart, Run, TakeFlags, ValuesOK
<1>2. CASE Analysis
  BY <1>0, <1>2 DEF Analysis, ValuesOK
<1>3. CASE Toggle \/ StartCompress \/ Announce
  BY <1>0, <1>3 DEF Toggle, StartCompress, Announce, ValuesOK
<1>4. CASE PrivateClose
  <2>1. created' \in BOOLEAN /\ ready' \in BOOLEAN
    BY <1>0, <1>4 DEF PrivateClose, ValuesOK
  <2>2. crashed' \in BOOLEAN
    BY <1>0, <1>4 DEF PrivateClose, ValuesOK
  <2>3. QED
    BY <1>0, <1>4, <2>1, <2>2, Closes DEF ValuesOK
<1>5. QED
  BY <1>1, <1>2, <1>3, <1>4 DEF Engine

\* The ranges Setup hands out are within the list.
LEMMA RangesTyped ==
    ASSUME Lifecycle
    PROVE  Ranges \in [0..Helpers -> (0..(Helpers * Share)) \X (0..MaxCount + Share)]
<1> DEFINE t == UnitCount - 1
           Pair == (0..(Helpers * Share)) \X (0..MaxCount + Share)
<1>1. /\ t \in 0..Helpers /\ Triggered = 1..t /\ t * Share \in 0..listed
      /\ listed \in 0..MaxCount /\ Helpers \in Nat /\ Share \in Nat \ {0} /\ MaxCount \in Nat
      /\ range \in [0..Helpers -> Pair]
  BY Shares, Typed, LifecycleAssumption DEF TypeOK
<1> HIDE DEF t
<1>2. ASSUME NEW n \in 0..t PROVE n * Share \in 0..(Helpers * Share) /\ n * Share \in 0..listed
  <2>1. n \in Nat /\ t \in Nat /\ n <= t /\ t <= Helpers
    BY <1>1
  <2>2. n * Share <= t * Share /\ t * Share <= Helpers * Share
    BY <1>1, <2>1
  <2>3. n * Share \in Nat /\ t * Share \in Nat /\ Helpers * Share \in Nat
    BY <1>1, <2>1
  <2> DEFINE a == n * Share
             b == t * Share
             c == Helpers * Share
  <2>4. a \in Nat /\ b \in 0..listed /\ c \in Nat /\ a <= b /\ b <= c
    BY <1>1, <2>2, <2>3
  <2> HIDE DEF a, b, c
  <2>5. a \in 0..c /\ a \in 0..listed
    BY <1>1, <2>4
  <2>6. QED
    BY <2>5 DEF a, c
<1>3. \A n \in 0..listed : n \in 0..MaxCount + Share
  BY <1>1
<1>4. ASSUME NEW u \in 1..t PROVE <<(u - 1) * Share, u * Share>> \in Pair
  <2>1. u - 1 \in 0..t /\ u \in 0..t
    BY <1>1
  <2>2. QED
    BY <1>2, <1>3, <2>1
<1>5. <<t * Share, listed>> \in Pair
  <2>1. t \in 0..t /\ listed \in 0..listed
    BY <1>1
  <2>2. QED
    BY <1>2, <1>3, <2>1
<1>6. Ranges = [u \in 0..Helpers |-> IF u \in 1..t THEN <<(u - 1) * Share, u * Share>>
                                     ELSE IF u = 0 THEN <<t * Share, listed>> ELSE range[u]]
  BY <1>1 DEF Ranges, t
<1> HIDE DEF Pair
<1>7. Ranges \in [0..Helpers -> Pair]
  BY <1>1, <1>4, <1>5, <1>6
<1>8. QED
  BY <1>7 DEF Pair

LEMMA CompressValues == ASSUME Lifecycle, Compress PROVE ValuesOK'
<1> USE DEF JustGoes, Sets, Waits, Rest, base, tasks, blocks
<1>0. ValuesOK
  BY TypeParts, Typed
<1>1. CASE Setup
  <2>1. range' \in [0..Helpers -> (0..(Helpers * Share)) \X (0..MaxCount + Share)]
    BY <1>1, RangesTyped DEF Setup
  <2>2. encoded' \in [1..MaxCount -> 0..1]
    BY <1>1 DEF Setup
  <2>3. QED
    BY <1>0, <1>1, <2>1, <2>2 DEF Setup, ValuesOK
<1>2. CASE OwnBlocks
  <2>1. encoded' \in [1..MaxCount -> 0..1]
    <3>1. /\ pc["compress"] = "ownBlocks" /\ pc'["compress"] = "join" /\ EncodeBlocks(0)
          /\ UNCHANGED <<unitPc, events, listed, range>>
      BY <1>2, Moves DEF OwnBlocks
    <3>2. /\ ~Finished(0) /\ Finished(0)' /\ Sharing /\ Sharing'
          /\ \A v \in Triggered : Finished(v)' <=> Finished(v)
      BY <3>1, Shares DEF Finished, Sharing
    <3>3. QED
      BY <3>1, <3>2, ShareEncoded
  <2>2. QED
    BY <1>0, <1>2, <2>1 DEF OwnBlocks, ValuesOK
<1>3. CASE Assign
  BY <1>0, <1>3 DEF Assign, ValuesOK
<1>4. CASE CompressBoot \/ CompressCheck \/ Join \/ TransmitIsReady
  BY <1>0, <1>4 DEF CompressBoot, CompressCheck, Join, TransmitIsReady, ValuesOK
<1>5. CASE AnnounceReady \/ StartTransmit \/ CompressEnds
  BY <1>0, <1>5 DEF AnnounceReady, StartTransmit, CompressEnds, ValuesOK
<1>6. QED
  BY <1>1, <1>2, <1>3, <1>4, <1>5 DEF Compress

LEMMA TransmitValues == ASSUME Lifecycle, Transmit PROVE ValuesOK'
<1> USE DEF JustGoes, Sets, Waits, Rest, base, tasks, blocks
<1>0. ValuesOK
  BY TypeParts, Typed
<1>1. CASE TransmitBoot \/ TransmitCheck \/ TransmitTask \/ TransmitEnds
  BY <1>0, <1>1 DEF TransmitBoot, TransmitCheck, TransmitTask, TransmitEnds, ValuesOK
<1>2. CASE TransmitWakes
  BY <1>0, <1>2 DEF TransmitWakes, ValuesOK
<1>3. CASE SendResolution
  BY <1>0, <1>3 DEF SendResolution, Configured, ValuesOK
<1>4. CASE Write
  BY <1>0, <1>4 DEF Write, ValuesOK
<1>5. QED
  BY <1>1, <1>2, <1>3, <1>4 DEF Transmit

LEMMA ValuesStep == ASSUME Lifecycle, [Next]_vars PROVE ValuesOK'
<1>0. ValuesOK
  BY TypeParts, Typed
<1>1. ASSUME NEW u \in Unit, UnitStep(u) PROVE ValuesOK'
  <2>1. unitPc' \in [Unit -> UnitAt]
    BY <1>0, <1>1
    DEF UnitStep, UnitWakes, UnitEncodes, UnitCompletes, UnitEnds, UnitGoes, ValuesOK, UnitAt
  <2>2. encoded' \in [1..MaxCount -> 0..1]
    BY <1>0, <1>1, UnitEncodesShare
    DEF UnitStep, UnitWakes, UnitCompletes, UnitEnds, ValuesOK, blocks
  <2>3. UNCHANGED <<created, ready, done, ending, newTask, transmitTask, frames, listed, analysed,
                    range, display, alive, crashed>>
    BY <1>1
    DEF UnitStep, UnitWakes, UnitEncodes, UnitCompletes, UnitEnds, base, tasks, blocks
  <2>4. QED
    BY <1>0, <2>1, <2>2, <2>3 DEF ValuesOK
<1>2. CASE Settles
  BY <1>0, <1>2, DisplayFrame DEF ValuesOK, Settles
<1>3. CASE Unplug
  BY <1>0, <1>3, DisplayFrame DEF ValuesOK, Unplug
<1>4. CASE UNCHANGED vars
  BY <1>0, <1>4 DEF ValuesOK, vars, threads, base, tasks, blocks
<1>5. QED
  BY <1>1, <1>2, <1>3, <1>4, MainValues, EngineValues, CompressValues, TransmitValues DEF Next

\* What is deleted stays unused: nothing starts again.
LEMMA DeletedStep == ASSUME Lifecycle, [Next]_vars PROVE DeletedUnused'
<1>0. DeletedUnused /\ StagesOK /\ EngineOK /\ UnitsOK
  BY DEF Lifecycle, LifetimesRespected
<1>1. CASE Construct
  BY <1>1 DEF Construct, DeletedUnused, Objects
<1>2. CASE Main /\ pc["main"] # "new"
  <2>1. /\ pc'["compress"] = pc["compress"] /\ pc'["transmit"] = pc["transmit"]
        /\ unitPc' = unitPc
        /\ pc'["engine"] # pc["engine"] => pc["engine"] = "none" /\ pc'["engine"] = "boot"
    BY <1>2, MainFrame
  <2>2. CASE Start
    <3>1. pc["main"] = "constructed" /\ alive' = alive
      BY <2>2 DEF Start
    <3>2. "encoder" \in alive
      BY <1>0, <3>1 DEF StagesOK
    <3>3. QED
      BY <1>0, <2>1, <3>1, <3>2 DEF DeletedUnused
  <2>3. CASE DeleteDevice
    <3>1. pc["main"] = "deleteDevice" /\ pc'["engine"] = pc["engine"] /\ alive' = alive \ {"device"}
      BY <2>3, Moves DEF DeleteDevice
    <3>2. pc["transmit"] = "gone"
      BY <1>0, <3>1 DEF StagesOK, Deletes
    <3>3. QED
      BY <1>0, <2>1, <3>1, <3>2 DEF DeletedUnused
  <2>4. CASE FreeEncoder
    <3>1. /\ pc["main"] = "waitUnits" /\ pc'["engine"] = pc["engine"]
          /\ alive' = alive \ {"encoder"} /\ \A u \in Unit : EvOf("end", u) \in events
      BY <2>4, Moves DEF FreeEncoder
    <3>2. /\ pc["transmit"] = "gone" /\ pc["compress"] = "gone" /\ pc["engine"] \in EngineOver
          /\ \A u \in Unit : unitPc[u] = "gone"
      BY <1>0, <3>1 DEF StagesOK, EngineOK, UnitsOK, UnitOK, Deletes
    <3>3. QED
      BY <1>0, <2>1, <3>1, <3>2 DEF DeletedUnused, EngineOver
  <2>5. CASE ~(Start \/ DeleteDevice \/ FreeEncoder)
    <3>1. pc'["engine"] = pc["engine"]
      BY <1>2, <2>5, Moves
      DEF Main, MainCall, Construct, StartFails, ThreadReady, Submit, Synced, Remove,
          WaitThreadExit, MarkDone, WakeStages, WaitStages, EndUnits, DestroyBase, Sets, Waits,
          JustGoes
    <3>2. alive' = alive \/ alive' = alive \ {"base"}
      BY <1>2, <2>5
      DEF Main, MainCall, Construct, StartFails, ThreadReady, Submit, Synced, Remove,
          WaitThreadExit, MarkDone, WakeStages, WaitStages, EndUnits, DestroyBase, Sets, Waits,
          JustGoes, Rest
    <3>3. QED
      BY <1>0, <2>1, <3>1, <3>2 DEF DeletedUnused
  <2>6. QED
    BY <2>2, <2>3, <2>4, <2>5
<1>3. CASE Engine
  <2>1. pc["engine"] \in {"closeSet", "closeUnlock", "gone"} =>
           pc'["engine"] \in {"closeSet", "closeUnlock", "gone"}
    BY <1>3, Moves, Closes
    DEF Engine, PrivateStart, Run, TakeFlags, Analysis, Toggle, StartCompress, Announce, Sets
  <2>2. QED
    BY <1>0, <1>3, <2>1, EngineFrame DEF DeletedUnused
<1>4. CASE Compress
  BY <1>0, <1>4, CompressFrame DEF DeletedUnused
<1>5. CASE Transmit
  BY <1>0, <1>5, TransmitFrame DEF DeletedUnused
<1>6. ASSUME NEW u \in Unit, UnitStep(u) PROVE DeletedUnused'
  BY <1>0, <1>6, UnitFrame DEF DeletedUnused
<1>7. CASE Settles \/ Unplug \/ UNCHANGED vars
  BY <1>0, <1>7, DisplayFrame DEF DeletedUnused, vars, threads
<1>8. CASE Main
  BY <1>1, <1>2, <1>8, OnlyConstructs
<1>9. QED
  BY <1>3, <1>4, <1>5, <1>6, <1>7, <1>8 DEF Next

\* transmit is never woken without a task but by the destructor, and the base
\* the engine's thread needs to close is there until the destructor ends.
LEMMA DiesStep == ASSUME Lifecycle, [Next]_vars PROVE DiesOnlyDestroyed'
<1>0. DiesOnlyDestroyed /\ StagesOK /\ EngineOK /\ HandoverOK
  BY DEF Lifecycle, LifetimesRespected
<1>1. CASE Main
  <2>1. CASE Construct
    BY <1>0, <2>1 DEF Construct, DiesOnlyDestroyed
  <2>2. CASE pc["main"] # "new"
    BY <1>0, <1>1, <2>2, MainFrame DEF DiesOnlyDestroyed
  <2>3. QED
    BY <1>1, <2>1, <2>2, OnlyConstructs
<1>2. CASE Engine
  <2>1. done' = done /\ (crashed' = crashed \/ "base" \notin alive) /\ pc["engine"] # "none"
    BY <1>2, EngineFrame, EngineDies
  <2>2. "base" \notin alive => done
    <3>1. pc["main"] # "new"
      BY <1>0, <2>1 DEF EngineOK
    <3>2. QED
      BY <1>0, <3>1 DEF StagesOK, EngineOK, Deletes
  <2>3. QED
    BY <1>0, <2>1, <2>2 DEF DiesOnlyDestroyed
<1>3. CASE Compress
  BY <1>0, <1>3, CompressFrame DEF DiesOnlyDestroyed
<1>4. CASE Transmit
  <2>1. done' = done
    BY <1>4, TransmitFrame
  <2>2. crashed' = crashed \/ done
    <3>1. CASE pc["transmit"] = "task" /\ transmitTask # "task"
      BY <1>0, <3>1 DEF HandoverOK, Handed, Sends
    <3>2. CASE ~(pc["transmit"] = "task" /\ transmitTask # "task")
      BY <1>4, <3>2, Moves
      DEF Transmit, TransmitBoot, TransmitCheck, TransmitWakes, TransmitTask, SendResolution,
          Configured, Write, TransmitEnds, Sets, Waits, JustGoes, Rest
    <3>3. QED
      BY <3>1, <3>2
  <2>3. QED
    BY <1>0, <2>1, <2>2 DEF DiesOnlyDestroyed
<1>5. ASSUME NEW u \in Unit, UnitStep(u) PROVE DiesOnlyDestroyed'
  BY <1>0, <1>5, UnitFrame DEF DiesOnlyDestroyed
<1>6. CASE Settles \/ Unplug
  BY <1>0, <1>6, DisplayFrame DEF DiesOnlyDestroyed
<1>7. CASE UNCHANGED vars
  BY <1>0, <1>7 DEF DiesOnlyDestroyed, vars
<1>8. QED
  BY <1>1, <1>2, <1>3, <1>4, <1>5, <1>6, <1>7 DEF Next

-----------------------------------------------------------------------------
(* The theorems *)

LEMMA LifecycleStep == ASSUME Lifecycle, [Next]_vars PROVE Lifecycle'
<1>1. TypeOK'
  BY PlacesStep, ValuesStep, TypeParts DEF TypeOK, PlacesOK, ValuesOK
<1>2. QED
  BY <1>1, DeletedStep, DiesStep, EngineOKStep, StagesOKStep, HandoverStep, UnitsStep, SharesStep
  DEF Lifecycle, LifetimesRespected

LEMMA LifecycleInvariant == Spec => []Lifecycle
<1>1. Lifecycle /\ [Next]_vars => Lifecycle'
  BY LifecycleStep
<1>2. QED
  BY LifecycleInit, <1>1, PTL DEF Spec

\* Nothing the destructor deleted is used by a stage or a unit any more, and
\* the process dies of nothing but the destructor, for any number of units
\* and frames.
THEOREM LifetimesAreRespected == Spec => []LifetimesRespected
<1>1. Lifecycle => LifetimesRespected
  BY DEF Lifecycle
<1>2. QED
  BY LifecycleInvariant, <1>1, PTL

\* When compress gathers the bitstream, every block listed was encoded once,
\* for every number of units, size of the shares and length of the list.
THEOREM ListIsEncoded == Spec => []ListEncoded
<1>1. Lifecycle => ListEncoded
  BY DEF Lifecycle, SharesOK
<1>2. QED
  BY LifecycleInvariant, <1>1, PTL

\* A unit is woken and works only between Setup and Join, and the engine does
\* not hand the screens over meanwhile.
THEOREM UnitsTakeTurns == Spec => []UnitsWorkInTurn
<1>1. ASSUME Lifecycle PROVE UnitsWorkInTurn
  <2> SUFFICES ASSUME NEW u \in Unit,
                      \/ unitPc[u] \in {"encode", "complete"}
                      \/ u \notin ending /\ {EvOf("start", u), EvOf("ready", u)} \cap events # {}
               PROVE  Sharing /\ pc["engine"] # "startCompress"
    BY DEF UnitsWorkInTurn, Sharing
  <2>1. Sharing
    BY <1>1 DEF Lifecycle, UnitsOK, UnitOK
  <2>2. done => pc["engine"] # "startCompress"
    BY <1>1 DEF Lifecycle, EngineOK, EngineOver
  <2>3. ~done => pc["engine"] # "startCompress"
    BY <1>1, <2>1 DEF Lifecycle, HandoverOK, AtMostOne, Sharing, Works
  <2>4. QED
    BY <2>1, <2>2, <2>3
<1>2. QED
  BY LifecycleInvariant, <1>1, PTL
=============================================================================
