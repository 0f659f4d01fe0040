------------------------------ MODULE EvdiDevices -----------------------------
(***************************************************************************)
(* The virtual cards and the programs that find, open and connect them.    *)
(*                                                                         *)
(* The evdi module keeps a table of cards (evdi_platform_drv.c) that grows *)
(* on request, links cards to USB devices (evdi_platform_dev.c) and takes  *)
(* one connection per card (evdi_painter.c).  Programs like src/example    *)
(* wait for their display, look for a card that is not linked and not in   *)
(* use - as far as they know: card_usage is their own - open it, connect,  *)
(* drive it until the display leaves, and close it.  They may also die, in *)
(* which case the kernel closes their files.                               *)
(*                                                                         *)
(* Assumed: cards are removed when no program and no request uses them,    *)
(* and a USB device does not leave in the middle of a request.  Neither is *)
(* enforced by the module; the README lists both as hazards.               *)
(***************************************************************************)
EXTENDS Naturals, Sequences, FiniteSets

CONSTANTS
    Cards,     \* indices of the table: EVDI_DEVICE_COUNT_MAX of them
    Usbs,      \* USB devices that cards are linked to
    Programs,  \* each with a display of its own
    None,
    MaxPlugs   \* bound: times a display is plugged in

ASSUME DevicesAssumption ==
    /\ IsFiniteSet(Cards) /\ Cards # {} /\ None \notin Cards \cup Usbs \cup Programs
    /\ MaxPlugs \in Nat

VARIABLES
    device,  \* g_ctx.devices[]: present, and platform device data and painter
    count,   \* g_ctx.dev_count
    usb,     \* external: USB devices that are plugged in
    request, \* an evdi_platform_device_attach in progress for a USB device
    program, \* state of each program
    display  \* external: its display, and the hotplug events not handled yet

vars == <<device, count, usb, request, program, display>>

NoDevice == [present |-> FALSE, filp |-> None, symlinked |-> FALSE,
             parent |-> None, link |-> None]
NoRequest == [at |-> "idle", card |-> None]
Dead == [at |-> "dead", attached |-> FALSE, screen |-> FALSE, card |-> None,
         found |-> None]

Init ==
    /\ device = [c \in Cards |-> NoDevice] /\ count = 0
    /\ usb = Usbs
    /\ request = [u \in Usbs |-> NoRequest]
    /\ program = [p \in Programs |-> Dead]
    /\ display = [p \in Programs |-> [here |-> FALSE, plugs |-> 0, events |-> <<>>]]

-----------------------------------------------------------------------------
(* the table of cards *)

Present == {c \in Cards : device[c].present}

\* evdi_platform_device_is_free, evdi_platform_drv_get_free_device (the first of
\* them: any, here)
IsFree(c) == device[c].filp = None /\ ~device[c].symlinked
FreeCards == {c \in Present : IsFree(c)}

\* evdi_platform_device_probe: what a new card starts with.
Probed == [NoDevice EXCEPT !.present = TRUE]

\* evdi_platform_drv_create_new_device, with the index it found
Create(c) ==
    /\ device' = [device EXCEPT ![c] = Probed]
    /\ count' = count + 1

HasRoom == Present # Cards /\ count < Cardinality(Cards)

\* evdi_platform_add_devices(1): without a parent nothing is linked; a full table
\* is left alone.
AddDevices ==
    IF HasRoom THEN \E c \in Cards \ Present : Create(c)
    ELSE UNCHANGED <<device, count>>

\* find_usb_device_at_path: a USB device is its path.
FoundAtPath(u) == u \in usb

\* evdi_platform_device_add: under the lock a free card is chosen, or a new one
\* made.  The library asks for it when it finds no card that is linked to u
\* (get_device_attached_to_usb).
AttachPick(u) ==
    /\ FoundAtPath(u) /\ request[u].at = "idle"
    /\ \A c \in Cards : device[c].parent # u
    /\ \E c \in Cards :
          /\ IF FreeCards # {} THEN c \in FreeCards /\ UNCHANGED <<device, count>>
             ELSE c \notin Present /\ HasRoom /\ Create(c)
          /\ request' = [request EXCEPT ![u] = [at |-> "check", card |-> c]]
    /\ UNCHANGED <<usb, program, display>>

\* evdi_platform_device_link, without the lock: the card may have been taken by
\* another request or connected by a program since ...
AttachCheck(u) ==
    /\ request[u].at = "check"
    /\ request' = [request EXCEPT ![u] = IF IsFree(request[u].card) THEN [@ EXCEPT !.at = "link"]
                                         ELSE NoRequest]
    /\ UNCHANGED <<device, count, usb, program, display>>

\* Defect: the result of sysfs_create_link is not looked at.
AttachLinkUnchecked(u) ==
    /\ request[u].at = "link"
    /\ LET c == request[u].card
       IN  device' = [device EXCEPT ![c] =
             [@ EXCEPT !.link = IF @ = None THEN u ELSE @, !.symlinked = TRUE, !.parent = u]]
    /\ request' = [request EXCEPT ![u] = NoRequest]
    /\ UNCHANGED <<count, usb, program, display>>

\* ... and since the check: then the link exists and cannot be made again.
AttachLink(u) ==
    /\ request[u].at = "link"
    /\ LET c == request[u].card
       IN  device' = IF device[c].link # None THEN device
                     ELSE [device EXCEPT ![c] =
                             [@ EXCEPT !.link = u, !.symlinked = TRUE, !.parent = u]]
    /\ request' = [request EXCEPT ![u] = NoRequest]
    /\ UNCHANGED <<count, usb, program, display>>

NoRequests == \A u \in Usbs : request[u].at = "idle"

\* evdi_platform_device_unlink_if_linked_with
Unlinked(d, u) ==
    IF d.parent # u THEN d
    ELSE [d EXCEPT !.link = None, !.symlinked = FALSE, !.parent = None]

\* evdi_platform_drv_usb (cards have no device parent, so none is destroyed).
UsbLeaves(u) ==
    /\ u \in usb /\ NoRequests
    /\ usb' = usb \ {u}
    /\ device' = [c \in Cards |-> Unlinked(device[c], u)]
    /\ UNCHANGED <<count, request, program, display>>

\* external
UsbReturns(u) ==
    /\ u \notin usb /\ usb' = usb \cup {u}
    /\ UNCHANGED <<device, count, request, program, display>>

\* evdi_platform_remove_all_devices
RemoveAll ==
    /\ Present # {} /\ NoRequests
    /\ \A p \in Programs : program[p].card = None
    /\ device' = [c \in Cards |-> NoDevice] /\ count' = 0
    /\ UNCHANGED <<usb, request, program, display>>

-----------------------------------------------------------------------------
(* a program *)

At(p, at) == program[p].at = at
Step(p, r) == program' = [program EXCEPT ![p] = r]
OnlyProgram == UNCHANGED <<device, count, usb, request, display>>

\* main: libusb callbacks are registered and check_devs looks for a display.
Start(p) ==
    /\ At(p, "dead")
    /\ Step(p, [Dead EXCEPT !.at = "poll", !.attached = display[p].here])
    /\ display' = [display EXCEPT ![p].events = <<>>]
    /\ UNCHANGED <<device, count, usb, request>>

\* external: the display is plugged in or out.
Plug(p) ==
    /\ LET d == display[p]
           told == ~At(p, "dead")
       IN  /\ d.here \/ d.plugs < MaxPlugs
           /\ Len(d.events) < 2
           /\ display' = [display EXCEPT ![p] =
                 [here |-> ~d.here, plugs |-> IF d.here THEN d.plugs ELSE d.plugs + 1,
                  events |-> IF ~told THEN <<>>
                             ELSE Append(d.events, IF d.here THEN "left" ELSE "arrived")]]
    /\ UNCHANGED <<device, count, usb, request, program>>

\* evdi_painter_disconnect by program p's file
Disconnected(c, p) ==
    IF c # None /\ device[c].filp = p THEN [device EXCEPT ![c].filp = None] ELSE device

\* The end of a process: the kernel closes its file (evdi_driver_postclose).
Die(p) ==
    /\ Step(p, Dead) /\ device' = Disconnected(program[p].card, p)

Killed(p) ==
    /\ ~At(p, "dead") /\ Die(p)
    /\ UNCHANGED <<count, usb, request, display>>

NextEvent(p) == Head(display[p].events)
Took(p) == display' = [display EXCEPT ![p].events = Tail(@)]

\* hotplug_callback
Arrived(p) ==
    /\ At(p, "poll") /\ display[p].events # <<>> /\ NextEvent(p) = "arrived"
    /\ Took(p)
    /\ Step(p, [program[p] EXCEPT !.attached = TRUE])
    /\ UNCHANGED <<device, count, usb, request>>

\* hotplug_callback_detach without a screen: screen->quit() on a null pointer.
LeftTooEarly(p) ==
    /\ At(p, "poll") /\ display[p].events # <<>> /\ NextEvent(p) = "left"
    /\ Took(p) /\ Die(p)
    /\ UNCHANGED <<count, usb, request>>

\* Defect: the screen is let go by the callback, but its own list keeps it.
LeftKeepsScreen(p) ==
    /\ At(p, "drive") /\ display[p].events # <<>> /\ NextEvent(p) = "left"
    /\ Took(p)
    /\ Step(p, [program[p] EXCEPT !.at = "poll", !.attached = FALSE, !.screen = FALSE])
    /\ UNCHANGED <<device, count, usb, request>>

\* hotplug_callback_detach in on_sync: ScreenDriver::quit and the destructor of
\* Screen, which disconnects; the loop ends and Evdi goes out of scope.
LeftWhileDriving(p) ==
    /\ At(p, "drive") /\ display[p].events # <<>> /\ NextEvent(p) = "left"
    /\ Took(p)
    /\ device' = Disconnected(program[p].card, p)
    /\ Step(p, [program[p] EXCEPT !.at = "close", !.attached = FALSE, !.screen = FALSE])
    /\ UNCHANGED <<count, usb, request>>

\* getEdid: without its device the transfer has no handle to work on.
GetEdid(p) ==
    /\ At(p, "poll") /\ display[p].events = <<>> /\ program[p].attached
    /\ IF display[p].here
       THEN Step(p, [program[p] EXCEPT !.at = "scan"]) /\ UNCHANGED device
       ELSE Die(p)
    /\ UNCHANGED <<count, usb, request, display>>

\* find_unused_card_for(NULL): not linked, and not used by this program.
Unused == {c \in Present : device[c].link = None}

\* The search of get_generic_device, before and after a card was added.
FindCard(p) ==
    /\ program[p].at \in {"scan", "rescan"}
    /\ \E c \in Unused : Step(p, [program[p] EXCEPT !.at = "open", !.found = c])
    /\ OnlyProgram

\* get_generic_device: it found none, has one added, and will search again.
AddCard(p) ==
    /\ At(p, "scan") /\ Unused = {}
    /\ AddDevices
    /\ Step(p, [program[p] EXCEPT !.at = "rescan"])
    /\ UNCHANGED <<usb, request, display>>

\* "No usable EVDI found": main returns.
NoCard(p) ==
    /\ At(p, "rescan") /\ Unused = {}
    /\ Step(p, Dead) /\ OnlyProgram

\* evdi_open; a card that is gone by now is waited for in vain.
OpenCard(p) ==
    /\ At(p, "open")
    /\ Step(p, IF device[program[p].found].present
               THEN [program[p] EXCEPT !.at = "connect", !.card = program[p].found,
                                       !.found = None]
               ELSE Dead)
    /\ OnlyProgram

\* The constructor of ScreenDriver and add_screen.  evdi_painter_connect: a
\* connection of another file is replaced.
Connect(p) ==
    /\ At(p, "connect")
    /\ device' = [device EXCEPT ![program[p].card].filp = p]
    /\ Step(p, [program[p] EXCEPT !.at = "drive", !.screen = TRUE])
    /\ UNCHANGED <<count, usb, request, display>>

\* evdi_close; the kernel's evdi_painter_close.
Close(p) ==
    /\ At(p, "close")
    /\ device' = Disconnected(program[p].card, p)
    /\ Step(p, [program[p] EXCEPT !.at = "poll", !.card = None])
    /\ UNCHANGED <<count, usb, request, display>>

-----------------------------------------------------------------------------
Run(p) == Arrived(p) \/ LeftTooEarly(p) \/ LeftWhileDriving(p) \/ GetEdid(p)
          \/ FindCard(p) \/ AddCard(p) \/ NoCard(p) \/ OpenCard(p) \/ Connect(p)
          \/ Close(p)

Attach(u) == AttachPick(u) \/ AttachCheck(u) \/ AttachLink(u)

Next ==
    \/ \E p \in Programs : Run(p) \/ Start(p) \/ Plug(p) \/ Killed(p)
    \/ \E u \in Usbs : Attach(u) \/ UsbLeaves(u) \/ UsbReturns(u)
    \/ RemoveAll

Spec == Init /\ [][Next]_vars
FairSpec == Spec /\ \A p \in Programs : WF_vars(Run(p))

-----------------------------------------------------------------------------
(* Properties *)

\* Every variable has a value of its type.
TypeOK ==
    /\ device \in [Cards -> [present : BOOLEAN, filp : Programs \cup {None},
                             symlinked : BOOLEAN, parent : Usbs \cup {None},
                             link : Usbs \cup {None}]]
    /\ count \in 0..Cardinality(Cards)
    /\ usb \subseteq Usbs
    /\ request \in [Usbs -> [at : {"idle", "check", "link"}, card : Cards \cup {None}]]
    /\ program \in [Programs -> [at : {"dead", "poll", "scan", "rescan", "open",
                                       "connect", "drive", "close"},
                                 attached : BOOLEAN, screen : BOOLEAN,
                                 card : Cards \cup {None}, found : Cards \cup {None}]]
    /\ display \in [Programs -> [here : BOOLEAN, plugs : 0..MaxPlugs,
                                 events : Seq({"arrived", "left"})]]
    /\ \A p \in Programs : Len(display[p].events) <= 2

\* The number that limits the table is the number of cards in it, whatever
\* requests, programs and removals did to it.
CountIsPresent == count = Cardinality(Present)

\* A card's link in sysfs, the flag and the parent that the next departure of a
\* USB device is compared with agree, and the USB device is there: two requests
\* that picked the same free card link it once.
LinkIsParent ==
    \A c \in Cards :
        /\ device[c].link = device[c].parent
        /\ device[c].symlinked = (device[c].parent # None)
        /\ device[c].parent \in usb \cup {None}

\* The table of cards after any requests, programs, departures and removals:
\* types, count and links agree.
TableConsistent == TypeOK /\ CountIsPresent /\ LinkIsParent

\* A connected card is connected to a program that has it open, also after
\* programs replaced each other's connection, closed the card and died: the
\* painter never sends events to a file that is gone.
ConnectionIsOpen ==
    \A c \in Cards : device[c].filp # None =>
        /\ device[c].present
        /\ program[device[c].filp].card = c
        /\ program[device[c].filp].at \in {"connect", "drive"}

\* A program whose display is gone gives up its card, and one whose display
\* arrived connects a card, unless the display changes again or the program
\* ends.
DisplayIsFollowed ==
    \A p \in Programs :
        /\ ~display[p].here ~> (program[p].card = None \/ display[p].here)
        /\ (display[p].here /\ ~At(p, "dead"))
             ~> (At(p, "drive") \/ ~display[p].here \/ At(p, "dead"))
=============================================================================
