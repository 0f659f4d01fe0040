------------------------------- MODULE UsbHost -------------------------------
(***************************************************************************)
(* Plugging and unplugging the USB display (libusbdisp/main.c,             *)
(* usbDisplay.cpp, capture.cpp).                                           *)
(*                                                                         *)
(* The hotplug callbacks run on the main thread, inside                    *)
(* libusb_handle_events_timeout: jxInit replaces the Capture, jxDelete     *)
(* removes it.  A Capture owns the one global sync_event: its constructor  *)
(* initialises the event, its destructor destroys it.  It does not delete  *)
(* its EncodeEngine (the delete is commented out), so the engine of every  *)
(* display ever plugged in keeps its threads, and finishes the frame it is *)
(* working on with SetEvent(sync_event), whoever waits there by then.      *)
(*                                                                         *)
(* An engine is reduced to what the main thread sees of it: the boot and   *)
(* every EVENT_ENCODE end in a SetEvent (EncodePipeline has the rest).     *)
(***************************************************************************)
EXTENDS Naturals, Sequences

CONSTANTS
    MaxPlugs,    \* bound: how often the display is plugged in
    OpenCanFail  \* libusb_open may fail although the display is there

ASSUME HostAssumption == MaxPlugs \in Nat \ {0} /\ OpenCanFail \in BOOLEAN

Engines == 1 .. MaxPlugs
NoCapture == 0

VARIABLES
    plugged,    \* external: the display is plugged in
    usbEvents,  \* external: hotplug events libusb has not delivered yet
    mainPc,
    attached,   \* attached_DISP
    pCapture,   \* the engine of the Capture, or NULL
    engines,    \* how many engines were constructed: engine n by the nth jxInit
    engine,     \* what each engine thread is doing
    encode,     \* the engines with EVENT_ENCODE set
    syncState,  \* sync_event: "none", "live" (initialised) or "destroyed"
    syncFlag    \* its flag

usb  == <<plugged, usbEvents>>
sync == <<syncState, syncFlag>>
vars == <<usb, mainPc, attached, pCapture, engines, engine, encode, sync>>

\* The display may be there from the start; check_devs then finds it.
Init ==
    /\ plugged \in BOOLEAN
    /\ usbEvents = <<>>
    /\ mainPc = "check"
    /\ attached = FALSE
    /\ pCapture = NoCapture
    /\ engines = 0
    /\ engine = [e \in Engines |-> "none"]
    /\ encode = {}
    /\ syncState = "none" /\ syncFlag = FALSE

-----------------------------------------------------------------------------
(* external: the user and libusb *)

\* Every engine to come is a pending event or the display check_devs will find.
Expected == engines + Len(usbEvents) + IF mainPc \in {"check", "create"} THEN 1 ELSE 0

PlugIn ==
    /\ ~plugged /\ Expected < MaxPlugs
    /\ plugged' = TRUE
    /\ usbEvents' = Append(usbEvents, "arrived")
    /\ UNCHANGED <<mainPc, attached, pCapture, engines, engine, encode, sync>>

PullOut ==
    /\ plugged
    /\ plugged' = FALSE
    /\ usbEvents' = Append(usbEvents, "left")
    /\ UNCHANGED <<mainPc, attached, pCapture, engines, engine, encode, sync>>

-----------------------------------------------------------------------------
(* main *)

\* delete pCapture: the engine stays, sync_event goes.
DeleteCapture == /\ pCapture' = NoCapture
                 /\ syncState' = "destroyed"

\* new Capture() and CreateDevice().  If the device cannot be opened the engine
\* thread is not started; jxInit returns 0, and no caller looks at it.
NewCapture ==
    LET e == engines + 1 IN
        /\ e \in Engines
        /\ engines' = e /\ pCapture' = e
        /\ \E opened \in BOOLEAN :
              /\ opened => plugged
              /\ opened \/ ~plugged \/ OpenCanFail
              /\ engine' = [engine EXCEPT ![e] = IF opened THEN "boot" ELSE "built"]
        /\ syncState' = "live" /\ syncFlag' = FALSE
        /\ attached' = TRUE

\* main() before its loop: check_devs initialises a display that is there.
CheckDevices ==
    /\ mainPc = "check"
    /\ mainPc' = "poll"
    /\ \/ plugged /\ NewCapture
       \/ ~plugged /\ UNCHANGED <<attached, pCapture, engines, engine, sync>>
    /\ UNCHANGED <<usb, encode>>

\* libusb_handle_events_timeout delivers what has been queued; an event that
\* comes in during a callback (which sleeps for 0.6 s) may have to wait for the
\* next round of the loop.
Deliver(event) ==
    /\ mainPc \in {"poll", "polled"}
    /\ usbEvents # <<>> /\ Head(usbEvents) = event
    /\ usbEvents' = Tail(usbEvents)
    /\ UNCHANGED plugged

\* hotplug_callback, and the start of jxInit: an old Capture is deleted.
Arrived ==
    /\ Deliver("arrived")
    /\ IF pCapture # NoCapture THEN DeleteCapture
                               ELSE UNCHANGED <<pCapture, syncState>>
    /\ mainPc' = "create"
    /\ UNCHANGED <<attached, engines, engine, encode, syncFlag>>

\* The rest of jxInit.
CreateCapture ==
    /\ mainPc = "create"
    /\ NewCapture
    /\ mainPc' = "polled"
    /\ UNCHANGED <<usb, encode>>

\* Defect: attached_DISP is not reset.
LeftStaysAttached ==
    /\ Deliver("left")
    /\ IF attached /\ pCapture # NoCapture THEN DeleteCapture
                                           ELSE UNCHANGED <<pCapture, syncState>>
    /\ mainPc' = "polled"
    /\ UNCHANGED <<attached, engines, engine, encode, syncFlag>>

\* hotplug_callback_detach, jxDelete.
Left ==
    /\ Deliver("left")
    /\ IF attached /\ pCapture # NoCapture THEN DeleteCapture
                                           ELSE UNCHANGED <<pCapture, syncState>>
    /\ attached' = FALSE
    /\ mainPc' = "polled"
    /\ UNCHANGED <<engines, engine, encode, syncFlag>>

Polled == mainPc = "polled" \/ (mainPc = "poll" /\ usbEvents = <<>>)

\* No display: round the loop.
Idle ==
    /\ Polled /\ ~attached
    /\ mainPc' = "poll"
    /\ UNCHANGED <<usb, attached, pCapture, engines, engine, encode, sync>>

\* jxStartEncode: StartEncode, then WaitEvent(sync_event).
StartEncode ==
    /\ Polled /\ attached
    /\ encode' = encode \cup {pCapture}
    /\ mainPc' = "sync"
    /\ UNCHANGED <<usb, attached, pCapture, engines, engine, sync>>

WaitSync ==
    /\ mainPc = "sync"
    /\ syncFlag
    /\ syncFlag' = FALSE
    /\ mainPc' = "poll"
    /\ UNCHANGED <<usb, attached, pCapture, engines, engine, encode, syncState>>

Main == \/ CheckDevices \/ Arrived \/ CreateCapture \/ Left
        \/ Idle \/ StartEncode \/ WaitSync

-----------------------------------------------------------------------------
(* engine threads *)

\* SetEvent(sync_event).  Locking and signalling a destroyed event is undefined:
\* the flag may or may not be written (jxInit clears it again).
SetSync == /\ syncFlag' \in IF syncState = "live" THEN {TRUE} ELSE {TRUE, syncFlag}
           /\ UNCHANGED syncState

Boot(e) ==
    /\ engine[e] = "boot"
    /\ SetSync
    /\ engine' = [engine EXCEPT ![e] = "wait"]
    /\ UNCHANGED <<usb, mainPc, attached, pCapture, engines, encode>>

Wake(e) ==
    /\ engine[e] = "wait" /\ e \in encode
    /\ encode' = encode \ {e}
    /\ engine' = [engine EXCEPT ![e] = "busy"]
    /\ UNCHANGED <<usb, mainPc, attached, pCapture, engines, sync>>

\* Defect: the event is not set after EVENT_ENCODE.
DoneSilently(e) ==
    /\ engine[e] = "busy"
    /\ engine' = [engine EXCEPT ![e] = "wait"]
    /\ UNCHANGED <<usb, mainPc, attached, pCapture, engines, encode, sync>>

Done(e) ==
    /\ engine[e] = "busy"
    /\ SetSync
    /\ engine' = [engine EXCEPT ![e] = "wait"]
    /\ UNCHANGED <<usb, mainPc, attached, pCapture, engines, encode>>

Engine(e) == Boot(e) \/ Wake(e) \/ Done(e)

Next == PlugIn \/ PullOut \/ Main \/ \E e \in Engines : Engine(e)

\* main and the engine threads are scheduled; nobody has to plug anything in.
Spec == Init /\ [][Next]_vars
FairSpec == Spec /\ WF_vars(Main) /\ \A e \in Engines : WF_vars(Engine(e))

-----------------------------------------------------------------------------
\* The values the variables range over.
TypeOK ==
    /\ plugged \in BOOLEAN
    /\ usbEvents \in Seq({"arrived", "left"})
    /\ mainPc \in {"check", "poll", "create", "polled", "sync"}
    /\ attached \in BOOLEAN
    /\ pCapture \in 0 .. engines
    /\ engines \in 0 .. MaxPlugs
    /\ engine \in [Engines -> {"none", "built", "boot", "wait", "busy"}]
    /\ encode \subseteq 1 .. engines
    /\ syncState \in {"none", "live", "destroyed"} /\ syncFlag \in BOOLEAN

\* main encodes only with a Capture, whose sync_event is initialised, however
\* attach and detach events, duplicates included, follow each other.
CaptureUsable ==
    /\ attached /\ mainPc # "create" => pCapture # NoCapture
    /\ pCapture # NoCapture => syncState = "live"
    /\ mainPc = "sync" => pCapture # NoCapture

Started(e) == e # NoCapture /\ engine[e] # "built"

\* main never waits for a sync_event that nobody sets, provided that its engine
\* was started: replacing the Capture clears the event, stray signals of the
\* engines of earlier displays come and go.
SyncIsComing ==
    mainPc = "sync" /\ Started(pCapture)
    => syncFlag \/ pCapture \in encode \/ engine[pCapture] \in {"boot", "busy"}

\* jxStartEncode returns if its engine was started.
CallReturns == mainPc = "sync" /\ Started(pCapture) ~> mainPc = "poll"

\* Hotplug events are delivered in the end, unless main waits for an engine that
\* was never started.
EventsDelivered ==
    usbEvents # <<>> ~> \/ usbEvents = <<>>
                        \/ mainPc = "sync" /\ ~Started(pCapture)

\* The program stays responsive, to the desktop and to the hotplug.
HostResponds == CallReturns /\ EventsDelivered

\* "fixed crash after unplug", says the code of the transmit thread about itself:
\* once the detached display has been removed no thread uses its sync_event.
SyncAliveAfterUnplug ==
    ~attached => \A e \in Engines : engine[e] = "busy" => syncState = "live"

\* jxInit says "Create Capture Device fail!" and returns 0: the display is not
\* used then.
FailedInitIsNotUsed == mainPc = "sync" => Started(pCapture)
=============================================================================
