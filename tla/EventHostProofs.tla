-------------------------- MODULE EventHostProofs ---------------------------
(***************************************************************************)
(* The event, and the host that waits for one.                             *)
(*                                                                         *)
(* libenc/event.c, for any number of threads: the mutex protects the flag, *)
(* no wakeup is lost, and the calls implement a binary flag.               *)
(*                                                                         *)
(* Plugging and unplugging, for any number of times and any order of the   *)
(* hotplug events: main encodes only with a Capture, and does not wait for *)
(* an event nobody sets.  SyncIsComing needs CaptureUsable: that the       *)
(* SetEvent of the engine main waits for is not lost on a destroyed event. *)
(***************************************************************************)
EXTENDS EventSync, UsbHost, TLAPS

-----------------------------------------------------------------------------
(* event.c *)

\* The type invariant holds in every reachable state of set_event, wait_event
\* and time_wait_event: the owner of the mutex is the one thread in a critical
\* section.
THEOREM EventTypeCorrect == EventSpec => []EventTypeOK
<1> USE EventAssumption DEF Threads
<1>1. InitEvent => EventTypeOK
  BY DEF InitEvent, EventTypeOK, InMutex
<1>2. EventTypeOK /\ [NextCall]_eventVars => EventTypeOK'
  <2> SUFFICES ASSUME EventTypeOK, [NextCall]_eventVars PROVE EventTypeOK'
    OBVIOUS
  <2> USE DEF EventTypeOK, InMutex, Goto
  <2>1. ASSUME NEW s \in Setters, CallSet(s) PROVE EventTypeOK'
    BY <2>1 DEF CallSet
  <2>2. ASSUME NEW s \in Setters, SetLock(s) PROVE EventTypeOK'
    BY <2>2 DEF SetLock
  <2>3. ASSUME NEW s \in Setters, SetFlag(s) PROVE EventTypeOK'
    BY <2>3 DEF SetFlag
  <2>4. ASSUME NEW s \in Setters, Signal(s) PROVE EventTypeOK'
    BY <2>4 DEF Signal, Asleep
  <2>5. ASSUME NEW t \in Threads, Unlock(t) PROVE EventTypeOK'
    BY <2>5 DEF Unlock
  <2>6. ASSUME NEW w \in Waiters, CallWait(w) PROVE EventTypeOK'
    BY <2>6 DEF CallWait
  <2>7. ASSUME NEW w \in Waiters, WaitLock(w) PROVE EventTypeOK'
    BY <2>7 DEF WaitLock
  <2>8. ASSUME NEW w \in Waiters, TestSet(w) PROVE EventTypeOK'
    BY <2>8 DEF TestSet
  <2>9. ASSUME NEW w \in Waiters, TestClear(w) PROVE EventTypeOK'
    BY <2>9 DEF TestClear
  <2>10. ASSUME NEW w \in Waiters, WaitRelock(w) PROVE EventTypeOK'
    BY <2>10 DEF WaitRelock
  <2>11. ASSUME NEW w \in Waiters, ExpiredRelock(w) PROVE EventTypeOK'
    BY <2>11 DEF ExpiredRelock
  <2>12. ASSUME NEW w \in Waiters, SpuriousWakeup(w) PROVE EventTypeOK'
    BY <2>12 DEF SpuriousWakeup
  <2>13. ASSUME NEW w \in Waiters, TimeOut(w) PROVE EventTypeOK'
    BY <2>13 DEF TimeOut
  <2>14. CASE UNCHANGED eventVars
    BY <2>14 DEF eventVars
  <2>15. QED
    BY <2>1, <2>2, <2>3, <2>4, <2>5, <2>6, <2>7, <2>8, <2>9, <2>10, <2>11,
       <2>12, <2>13, <2>14 DEF NextCall, Setter, Waiter
<1>3. QED
  BY <1>1, <1>2, PTL DEF EventSpec

\* While the flag is set and somebody sleeps, a thread is on its way that will
\* wake a sleeper or take the flag: pthread_cond_signal is called after the
\* flag is set, and a woken waiter tests the flag before it sleeps again.
THEOREM NoWakeupIsLost == EventSpec => []NoLostWakeup
<1> USE EventAssumption DEF Threads
<1>1. InitEvent => NoLostWakeup
  BY DEF InitEvent, NoLostWakeup
<1>2. EventTypeOK /\ NoLostWakeup /\ [NextCall]_eventVars => NoLostWakeup'
  <2> SUFFICES ASSUME EventTypeOK, NoLostWakeup, [NextCall]_eventVars PROVE NoLostWakeup'
    OBVIOUS
  <2> pc \in [Threads -> {"out", "lock", "asleep", "relock", "expired"} \cup InMutex]
    BY DEF EventTypeOK
  <2> USE DEF NoLostWakeup, Asleep, Goto
  <2>1. ASSUME NEW s \in Setters, CallSet(s) PROVE NoLostWakeup'
    BY <2>1 DEF CallSet
  <2>2. ASSUME NEW s \in Setters, SetLock(s) PROVE NoLostWakeup'
    BY <2>2 DEF SetLock
  \* The setter is about to signal.
  <2>3. ASSUME NEW s \in Setters, SetFlag(s) PROVE NoLostWakeup'
    BY <2>3 DEF SetFlag
  \* Nobody sleeps, or one sleeper is going to test the flag.
  <2>4. ASSUME NEW s \in Setters, Signal(s) PROVE NoLostWakeup'
    <3>1. CASE Asleep = {}
      BY <2>4, <3>1 DEF Signal
    <3>2. ASSUME NEW w \in Asleep,
                 pc' = [pc EXCEPT ![s] = "unlock", ![w] = "relock"]
          PROVE NoLostWakeup'
      BY <3>2
    <3>3. QED
      BY <2>4, <3>1, <3>2 DEF Signal
  <2>5. ASSUME NEW t \in Threads, Unlock(t) PROVE NoLostWakeup'
    BY <2>5 DEF Unlock
  <2>6. ASSUME NEW w \in Waiters, CallWait(w) PROVE NoLostWakeup'
    BY <2>6 DEF CallWait
  <2>7. ASSUME NEW w \in Waiters, WaitLock(w) PROVE NoLostWakeup'
    BY <2>7 DEF WaitLock
  \* The flag is cleared, or was not set.
  <2>8. ASSUME NEW w \in Waiters, TestSet(w) \/ TestClear(w) PROVE NoLostWakeup'
    BY <2>8 DEF TestSet, TestClear
  \* The waiter is going to test the flag.
  <2>9. ASSUME NEW w \in Waiters, WaitRelock(w) \/ SpuriousWakeup(w)
        PROVE NoLostWakeup'
    BY <2>9 DEF WaitRelock, SpuriousWakeup
  \* A waiter whose time is up no longer sleeps, so no signal is wasted on it.
  <2>10. ASSUME NEW w \in Waiters, TimeOut(w) \/ ExpiredRelock(w)
         PROVE NoLostWakeup'
    BY <2>10 DEF TimeOut, ExpiredRelock
  <2>11. CASE UNCHANGED eventVars
    BY <2>11 DEF eventVars
  <2>12. QED
    BY <2>1, <2>2, <2>3, <2>4, <2>5, <2>6, <2>7, <2>8, <2>9, <2>10, <2>11
    DEF NextCall, Setter, Waiter
<1>3. QED
  BY <1>1, <1>2, EventTypeCorrect, PTL DEF EventSpec

-----------------------------------------------------------------------------
(* the binary event *)

LEMMA FlagInit == InitEvent => Flag!Init
BY EventAssumption DEF InitEvent, Flag!Init, Calling, Threads

\* A set is the assignment of the flag; a wait begins when it asks for the mutex,
\* takes the flag when it clears it, and gives up when it has the mutex again
\* after its time. Everything else changes nothing that can be seen.
LEMMA FlagStep == ASSUME EventTypeOK, [NextCall]_eventVars PROVE [Flag!Next]_(Flag!vars)
<1> USE EventAssumption DEF Threads, Goto, Calling, Flag!vars
<1> pc \in [Threads -> {"out", "lock", "asleep", "relock", "expired"} \cup InMutex]
  BY DEF EventTypeOK
<1>1. ASSUME NEW s \in Setters, CallSet(s) \/ SetLock(s) PROVE UNCHANGED Flag!vars
  BY <1>1 DEF CallSet, SetLock
<1>2. ASSUME NEW s \in Setters, SetFlag(s) PROVE Flag!Set
  BY <1>2 DEF SetFlag, Flag!Set
<1>3. ASSUME NEW s \in Setters, Signal(s) PROVE UNCHANGED Flag!vars
  <2>1. CASE pc' = [pc EXCEPT ![s] = "unlock"]
    BY <1>3, <2>1 DEF Signal
  <2>2. ASSUME NEW w \in Asleep, pc' = [pc EXCEPT ![s] = "unlock", ![w] = "relock"]
        PROVE  UNCHANGED Flag!vars
    BY <1>3, <2>2 DEF Signal, Asleep
  <2>3. QED
    BY <1>3, <2>1, <2>2 DEF Signal
<1>4. ASSUME NEW t \in Threads, Unlock(t) PROVE UNCHANGED Flag!vars
  BY <1>4 DEF Unlock
<1>5. ASSUME NEW w \in Waiters, CallWait(w) PROVE Flag!Call(w)
  BY <1>5 DEF CallWait, Flag!Call
<1>6. ASSUME NEW w \in Waiters,
             WaitLock(w) \/ TestClear(w) \/ WaitRelock(w) \/ SpuriousWakeup(w) \/ TimeOut(w)
      PROVE  UNCHANGED Flag!vars
  BY <1>6 DEF WaitLock, TestClear, WaitRelock, SpuriousWakeup, TimeOut
<1>7. ASSUME NEW w \in Waiters, TestSet(w) PROVE Flag!Take(w)
  BY <1>7 DEF TestSet, Flag!Take
<1>8. ASSUME NEW w \in Waiters, ExpiredRelock(w) PROVE w \in TimedWaiters /\ Flag!GiveUp(w)
  <2>1. pc[w] = "expired" /\ pc' = [pc EXCEPT ![w] = "unlock"] /\ UNCHANGED flag
    BY <1>8 DEF ExpiredRelock
  <2>2. w \in TimedWaiters
    BY <2>1 DEF EventTypeOK
  <2>3. w \in Calling /\ Calling' = Calling \ {w}
    BY <2>1
  <2>4. QED
    BY <2>1, <2>2, <2>3 DEF Flag!GiveUp
<1>9. CASE UNCHANGED eventVars
  BY <1>9 DEF eventVars
<1>10. QED
  BY <1>1, <1>2, <1>3, <1>4, <1>5, <1>6, <1>7, <1>8, <1>9
  DEF NextCall, Setter, Waiter, Flag!Next, Flag!SomeTake

\* set_event, wait_event and time_wait_event are the binary event that the other
\* modules take them for, for any number of threads: every behaviour of the calls
\* is one of EventFlag.
THEOREM EventIsFlag == EventSpec => FlagSafe
<1>1. QED
  BY FlagInit, FlagStep, EventTypeCorrect, PTL DEF EventSpec, FlagSafe, Flag!Safe

-----------------------------------------------------------------------------
(* the host *)

Host == TypeOK /\ CaptureUsable /\ SyncIsComing

\* Before check_devs there is no Capture.
LEMMA HostInit == Init => Host
<1> SUFFICES ASSUME Init PROVE Host
  OBVIOUS
<1> USE HostAssumption DEF Init, NoCapture
<1>1. TypeOK
  <2>1. engines \in 0 .. MaxPlugs /\ pCapture \in 0 .. engines
    OBVIOUS
  <2>2. encode \subseteq 1 .. engines /\ usbEvents \in Seq({"arrived", "left"})
    OBVIOUS
  <2>3. engine \in [Engines -> {"none", "built", "boot", "wait", "busy"}]
    OBVIOUS
  <2>4. QED
    BY <2>1, <2>2, <2>3 DEF TypeOK
<1>2. CaptureUsable /\ SyncIsComing
  BY DEF CaptureUsable, SyncIsComing
<1>3. QED
  BY <1>1, <1>2 DEF Host

\* The queue of libusb holds hotplug events only.
LEMMA QueueStep == TypeOK /\ [Next]_vars => usbEvents' \in Seq({"arrived", "left"})
<1> SUFFICES ASSUME TypeOK, [Next]_vars PROVE usbEvents' \in Seq({"arrived", "left"})
  OBVIOUS
<1> USE DEF TypeOK
<1>1. CASE PlugIn \/ PullOut
  BY <1>1 DEF PlugIn, PullOut
<1>2. CASE Arrived \/ Left
  BY <1>2 DEF Arrived, Left, Deliver
<1>3. CASE UNCHANGED usbEvents
  BY <1>3
<1>4. QED
  BY <1>1, <1>2, <1>3
  DEF Next, Main, CheckDevices, CreateCapture, Idle, StartEncode, WaitSync,
      Engine, Boot, Wake, Done, vars, usb

\* A step keeps the types, the Capture usable and the promised SetEvent coming.
LEMMA HostStep == Host /\ [Next]_vars => Host'
<1> SUFFICES ASSUME Host, [Next]_vars PROVE Host'
  OBVIOUS
<1>1. usbEvents' \in Seq({"arrived", "left"})
  BY QueueStep DEF Host
<1> USE HostAssumption DEF Host, TypeOK, CaptureUsable, SyncIsComing, Started,
        Engines, NoCapture, usb, sync
<1>2. CASE PlugIn \/ PullOut
  <2>1. TypeOK'
    BY <1>1, <1>2 DEF PlugIn, PullOut
  <2>2. CaptureUsable'
    BY <1>2 DEF PlugIn, PullOut
  <2>3. SyncIsComing'
    BY <1>2 DEF PlugIn, PullOut
  <2>4. QED
    BY <2>1, <2>2, <2>3
<1>3. CASE CheckDevices \/ CreateCapture
  <2>1. TypeOK'
    <3>1. plugged' \in BOOLEAN /\ attached' \in BOOLEAN /\ syncFlag' \in BOOLEAN
      BY <1>3 DEF CheckDevices, CreateCapture, NewCapture
    <3>2. /\ mainPc' \in {"check", "poll", "create", "polled", "sync"}
          /\ syncState' \in {"none", "live", "destroyed"}
      BY <1>3 DEF CheckDevices, CreateCapture, NewCapture
    <3>3. engines' \in 0 .. MaxPlugs /\ pCapture' \in 0 .. engines'
      BY <1>3 DEF CheckDevices, CreateCapture, NewCapture
    <3>4. engine' \in [Engines -> {"none", "built", "boot", "wait", "busy"}]
      BY <1>3 DEF CheckDevices, CreateCapture, NewCapture
    <3>5. encode' \subseteq 1 .. engines'
      <4>1. encode' = encode /\ encode \subseteq 1 .. engines
        BY <1>3 DEF CheckDevices, CreateCapture
      <4>2. engines \in Nat /\ engines' \in {engines, engines + 1}
        BY <1>3 DEF CheckDevices, CreateCapture, NewCapture
      <4>3. 1 .. engines \subseteq 1 .. engines'
        BY <4>2
      <4>4. QED
        BY <4>1, <4>3
    <3>6. QED
      BY <1>1, <3>1, <3>2, <3>3, <3>4, <3>5
  <2>2. CaptureUsable'
    BY <1>3 DEF CheckDevices, CreateCapture, NewCapture
  <2>3. SyncIsComing'
    BY <1>3 DEF CheckDevices, CreateCapture, NewCapture
  <2>4. QED
    BY <2>1, <2>2, <2>3
<1>4. CASE Arrived \/ Left
  <2>1. TypeOK'
    <3>1. plugged' \in BOOLEAN /\ attached' \in BOOLEAN /\ syncFlag' \in BOOLEAN
      BY <1>4 DEF Arrived, Left, Deliver, DeleteCapture
    <3>2. /\ mainPc' \in {"check", "poll", "create", "polled", "sync"}
          /\ syncState' \in {"none", "live", "destroyed"}
      BY <1>4 DEF Arrived, Left, Deliver, DeleteCapture
    <3>3. engines' \in 0 .. MaxPlugs /\ pCapture' \in 0 .. engines'
      BY <1>4 DEF Arrived, Left, Deliver, DeleteCapture
    <3>4. engine' \in [Engines -> {"none", "built", "boot", "wait", "busy"}]
      BY <1>4 DEF Arrived, Left, Deliver, DeleteCapture
    <3>5. encode' \subseteq 1 .. engines'
      BY <1>4 DEF Arrived, Left, Deliver, DeleteCapture
    <3>6. QED
      BY <1>1, <3>1, <3>2, <3>3, <3>4, <3>5
  <2>2. CaptureUsable'
    BY <1>4 DEF Arrived, Left, Deliver, DeleteCapture
  <2>3. SyncIsComing'
    BY <1>4 DEF Arrived, Left, Deliver, DeleteCapture
  <2>4. QED
    BY <2>1, <2>2, <2>3
<1>5. CASE Idle \/ StartEncode \/ WaitSync
  <2>1. TypeOK'
    <3>1. plugged' \in BOOLEAN /\ attached' \in BOOLEAN /\ syncFlag' \in BOOLEAN
      BY <1>5 DEF Idle, StartEncode, WaitSync, Polled
    <3>2. /\ mainPc' \in {"check", "poll", "create", "polled", "sync"}
          /\ syncState' \in {"none", "live", "destroyed"}
      BY <1>5 DEF Idle, StartEncode, WaitSync, Polled
    <3>3. engines' \in 0 .. MaxPlugs /\ pCapture' \in 0 .. engines'
      BY <1>5 DEF Idle, StartEncode, WaitSync, Polled
    <3>4. engine' \in [Engines -> {"none", "built", "boot", "wait", "busy"}]
      BY <1>5 DEF Idle, StartEncode, WaitSync, Polled
    <3>5. encode' \subseteq 1 .. engines'
      <4>1. encode \subseteq 1 .. engines /\ engines' = engines
        BY <1>5 DEF Idle, StartEncode, WaitSync
      <4>2. StartEncode => pCapture \in 1 .. engines
        BY DEF StartEncode, Polled
      <4>3. encode' = encode \/ (StartEncode /\ encode' = encode \cup {pCapture})
        BY <1>5 DEF Idle, StartEncode, WaitSync
      <4>4. QED
        BY <4>1, <4>2, <4>3
    <3>6. QED
      BY <1>1, <3>1, <3>2, <3>3, <3>4, <3>5
  <2>2. CaptureUsable'
    BY <1>5 DEF Idle, StartEncode, WaitSync, Polled
  <2>3. SyncIsComing'
    BY <1>5 DEF Idle, StartEncode, WaitSync, Polled
  <2>4. QED
    BY <2>1, <2>2, <2>3
<1>6. ASSUME NEW e \in Engines, Boot(e) \/ Done(e) PROVE Host'
  <2>1. engine' = [engine EXCEPT ![e] = "wait"]
    BY <1>6 DEF Boot, Done
  <2>2. UNCHANGED <<usb, mainPc, attached, pCapture, engines, encode, syncState>>
    BY <1>6 DEF Boot, Done, SetSync
  <2>3. /\ syncFlag' \in BOOLEAN
        /\ syncFlag => syncFlag'
        /\ syncState = "live" => syncFlag'
    BY <1>6 DEF Boot, Done, SetSync
  <2>4. TypeOK'
    BY <1>1, <2>1, <2>2, <2>3
  <2>5. CaptureUsable'
    BY <2>2
  <2>6. SyncIsComing'
    BY <2>1, <2>2, <2>3
  <2>7. QED
    BY <2>4, <2>5, <2>6
<1>7. ASSUME NEW e \in Engines, Wake(e) PROVE Host'
  BY <1>1, <1>7 DEF Wake
<1>8. CASE UNCHANGED vars
  BY <1>8 DEF vars
<1>9. QED
  BY <1>2, <1>3, <1>4, <1>5, <1>6, <1>7, <1>8 DEF Next, Main, Engine

\* The invariant of the host.
THEOREM HostInvariant == Spec => []Host
  BY HostInit, HostStep, PTL DEF Spec

\* Types, for any number of plugs: pCapture and the engines told to encode are
\* engines that were built, and the queue holds hotplug events only.
THEOREM TypeCorrect == Spec => []TypeOK
<1>1. Host => TypeOK
  BY DEF Host
<1>2. QED
  BY <1>1, HostInvariant, PTL

\* Whatever hotplug events arrive, duplicates included, jxStartEncode is called
\* only with a Capture whose sync_event is initialised.
THEOREM CaptureAlwaysUsable == Spec => []CaptureUsable
<1>1. Host => CaptureUsable
  BY DEF Host
<1>2. QED
  BY <1>1, HostInvariant, PTL

\* A started engine owes main the SetEvent it waits for, although jxInit clears
\* the event and engines of earlier displays set it as well.
THEOREM SyncAlwaysComing == Spec => []SyncIsComing
<1>1. Host => SyncIsComing
  BY DEF Host
<1>2. QED
  BY <1>1, HostInvariant, PTL
=============================================================================
