-------------------------- MODULE EvdiDevicesProofs ---------------------------
(***************************************************************************)
(* What EvdiDevices promises for every number of cards, USB devices and    *)
(* programs: the table of cards is consistent, and a connected card has a  *)
(* program that has it open.                                               *)
(***************************************************************************)
EXTENDS EvdiDevices, FiniteSetTheorems, SequenceTheorems, TLAPS

\* A program's card is in the table, and a program that is about to open or to
\* connect a card has found one: cards are not removed under a program.
ProgramsOK ==
    \A p \in Programs :
        /\ program[p].card # None => device[program[p].card].present
        /\ At(p, "connect") => program[p].card \in Cards
        /\ At(p, "open") => program[p].found \in Cards

\* A request has picked a card, and its USB device stays.
RequestsOK == \A u \in Usbs : request[u].at # "idle" => request[u].card \in Cards /\ u \in usb

Devices == TableConsistent /\ ConnectionIsOpen /\ ProgramsOK /\ RequestsOK

DeviceType  == [present : BOOLEAN, filp : Programs \cup {None}, symlinked : BOOLEAN,
                parent : Usbs \cup {None}, link : Usbs \cup {None}]
RequestType == [at : {"idle", "check", "link"}, card : Cards \cup {None}]
ProgramType == [at : {"dead", "poll", "scan", "rescan", "open", "connect", "drive", "close"},
                attached : BOOLEAN, screen : BOOLEAN,
                card : Cards \cup {None}, found : Cards \cup {None}]
DisplayType == [here : BOOLEAN, plugs : 0..MaxPlugs, events : Seq({"arrived", "left"})]

\* The initial table is empty and nobody uses it.
LEMMA DevicesInit == Init => Devices
<1> SUFFICES ASSUME Init PROVE Devices
  OBVIOUS
<1> USE DevicesAssumption DEF Init, NoDevice, NoRequest, Dead
<1>1. Present = {}
  BY DEF Present
<1>2. count \in 0..Cardinality(Cards)
  BY FS_CardinalityType
<1>3. <<>> \in Seq({"arrived", "left"}) /\ Len(<<>>) = 0
  OBVIOUS
<1>4. display \in [Programs -> DisplayType]
  BY <1>3 DEF DisplayType
<1>5. \A p \in Programs : Len(display[p].events) <= 2
  BY <1>3
<1>6. TypeOK
  BY <1>2, <1>4, <1>5 DEF TypeOK, DisplayType
<1>7. CountIsPresent
  BY <1>1, FS_EmptySet DEF CountIsPresent
<1>8. QED
  BY <1>6, <1>7 DEF Devices, TableConsistent, LinkIsParent, ConnectionIsOpen, ProgramsOK,
                    RequestsOK, At

\* What the invariant says of the table, for the steps that make a card.
LEMMA TableFacts ==
    ASSUME Devices
    PROVE  /\ IsFiniteSet(Present) /\ Cardinality(Present) \in Nat
           /\ Cardinality(Present) <= Cardinality(Cards) /\ Cardinality(Cards) \in Nat
           /\ count = Cardinality(Present)
  BY DevicesAssumption, FS_Subset, FS_CardinalityType
  DEF Devices, TableConsistent, CountIsPresent, Present

\* A new card is counted, and is like any other card that nobody uses.
LEMMA CreateStep ==
    ASSUME Devices, HasRoom, NEW c \in Cards \ Present, Create(c)
    PROVE  /\ device' \in [Cards -> DeviceType]
           /\ count' \in 0..Cardinality(Cards) /\ CountIsPresent'
           /\ \A d \in Cards \ {c} : device'[d] = device[d]
           /\ device'[c] = Probed
<1> USE DevicesAssumption DEF Create, Probed, NoDevice
<1>1. device \in [Cards -> DeviceType]
  BY DEF Devices, TableConsistent, TypeOK, DeviceType
<1>2. /\ device' \in [Cards -> DeviceType] /\ device'[c] = Probed
      /\ \A d \in Cards \ {c} : device'[d] = device[d]
  BY <1>1 DEF DeviceType
<1>3. Present' = Present \cup {c} /\ c \notin Present
  BY <1>2 DEF Present
<1>4. Cardinality(Present') = Cardinality(Present) + 1
  BY <1>3, TableFacts, FS_AddElement
<1>5. CountIsPresent'
  BY <1>4, TableFacts DEF CountIsPresent
<1>6. count' \in 0..Cardinality(Cards)
  BY TableFacts DEF HasRoom
<1>7. QED
  BY <1>2, <1>5, <1>6

\* The steps that leave the table's cards present keep its number.
LEMMA CountKept ==
    ASSUME CountIsPresent, UNCHANGED count,
           \A c \in Cards : device'[c].present = device[c].present
    PROVE  CountIsPresent'
  BY DEF CountIsPresent, Present

\* Disconnecting program p leaves no card connected to it, and changes nothing
\* else: a program is connected to the card it has open.
LEMMA DisconnectStep ==
    ASSUME Devices, NEW p \in Programs,
           \/ device' = Disconnected(program[p].card, p)
           \/ device' = device /\ program[p].at \notin {"connect", "drive"}
    PROVE  /\ device' \in [Cards -> DeviceType]
           /\ \A c \in Cards :
                 /\ device'[c].present = device[c].present
                 /\ device'[c].link = device[c].link
                 /\ device'[c].parent = device[c].parent
                 /\ device'[c].symlinked = device[c].symlinked
                 /\ device'[c].filp = IF device[c].filp = p THEN None ELSE device[c].filp
<1>1. device \in [Cards -> DeviceType] /\ program \in [Programs -> ProgramType]
  BY DEF Devices, TableConsistent, TypeOK, DeviceType, ProgramType
<1>2. \A c \in Cards : device[c].filp = p => 
                       program[p].card = c /\ program[p].at \in {"connect", "drive"}
  BY DevicesAssumption DEF Devices, ConnectionIsOpen
<1>3. CASE device' = device /\ program[p].at \notin {"connect", "drive"}
  BY <1>1, <1>2, <1>3
<1>4. CASE device' = Disconnected(program[p].card, p)
  <2>1. CASE \E c \in Cards : device[c].filp = p
    <3>1. PICK c \in Cards : device[c].filp = p
      BY <2>1
    <3>2. program[p].card = c /\ c # None
      BY <1>2, <3>1, DevicesAssumption
    <3>3. device' = [device EXCEPT ![c].filp = None]
      BY <1>4, <3>1, <3>2 DEF Disconnected
    <3>4. \A d \in Cards \ {c} : device'[d] = device[d] /\ device[d].filp # p
      BY <1>1, <1>2, <3>2, <3>3
    <3>5. QED
      BY <1>1, <3>1, <3>3, <3>4 DEF DeviceType
  <2>2. CASE \A c \in Cards : device[c].filp # p
    <3>1. device' = device
      BY <1>1, <1>4, <2>2 DEF Disconnected, ProgramType
    <3>2. QED
      BY <1>1, <2>2, <3>1
  <2>3. QED
    BY <2>1, <2>2
<1>5. QED
  BY <1>3, <1>4

\* A step of program p that connects no card: p goes on as r.
DisplayTypeOK ==
    display \in [Programs -> DisplayType] /\ \A q \in Programs : Len(display[q].events) <= 2

LEMMA ProgramStep ==
    ASSUME Devices, NEW p \in Programs, NEW r \in ProgramType, Step(p, r),
           \/ device' = Disconnected(program[p].card, p)
           \/ device' = device /\ program[p].at \notin {"connect", "drive"},
           UNCHANGED <<count, usb, request>>, DisplayTypeOK',
           r.card # None => device[r.card].present,
           r.at = "connect" => r.card \in Cards,
           r.at = "open" => r.found \in Cards
    PROVE  Devices'
<1>1. /\ program \in [Programs -> ProgramType] /\ program' \in [Programs -> ProgramType]
      /\ program'[p] = r /\ \A q \in Programs \ {p} : program'[q] = program[q]
  BY DEF Devices, TableConsistent, TypeOK, ProgramType, Step
<1>2. TypeOK'
  BY <1>1, DisconnectStep
  DEF Devices, TableConsistent, TypeOK, DeviceType, ProgramType, DisplayTypeOK, DisplayType
<1>3. CountIsPresent'
  BY CountKept, DisconnectStep DEF Devices, TableConsistent
<1>4. LinkIsParent'
  BY DisconnectStep DEF Devices, TableConsistent, LinkIsParent
<1>5. ConnectionIsOpen'
  <2> SUFFICES ASSUME NEW c \in Cards, device'[c].filp # None
               PROVE  /\ device'[c].present
                      /\ program'[device'[c].filp].card = c
                      /\ program'[device'[c].filp].at \in {"connect", "drive"}
    BY DEF ConnectionIsOpen
  <2>1. device'[c].filp = device[c].filp /\ device[c].filp # p /\ device[c].filp # None
    BY DisconnectStep
  <2>2. device[c].filp \in Programs \ {p}
    BY <2>1 DEF Devices, TableConsistent, TypeOK
  <2>3. QED
    BY <1>1, <2>1, <2>2, DisconnectStep DEF Devices, ConnectionIsOpen
<1>6. ProgramsOK'
  <2> SUFFICES ASSUME NEW q \in Programs
               PROVE  /\ program'[q].card # None => device'[program'[q].card].present
                      /\ program'[q].at = "connect" => program'[q].card \in Cards
                      /\ program'[q].at = "open" => program'[q].found \in Cards
    BY DEF ProgramsOK, At
  <2>1. program'[q].card \in Cards \cup {None}
    BY <1>1 DEF ProgramType
  <2>2. program'[q].card # None => device[program'[q].card].present
    BY <1>1 DEF Devices, ProgramsOK
  <2>3. QED
    BY <1>1, <2>1, <2>2, DisconnectStep DEF Devices, ProgramsOK, At
<1>7. RequestsOK'
  BY DEF Devices, RequestsOK
<1>8. QED
  BY <1>2, <1>3, <1>4, <1>5, <1>6, <1>7 DEF Devices, TableConsistent

\* A step that leaves the programs alone and only adds cards to the table.
LEMMA TableStep ==
    ASSUME Devices, UNCHANGED usb,
           device' \in [Cards -> DeviceType], count' \in 0..Cardinality(Cards),
           CountIsPresent', LinkIsParent', RequestsOK', DisplayTypeOK',
           request' \in [Usbs -> RequestType], program' \in [Programs -> ProgramType],
           \A p \in Programs : /\ program'[p].card = program[p].card
                               /\ program'[p].at # program[p].at =>
                                    program[p].at = "scan" /\ program'[p].at = "rescan"
                               /\ program'[p].found = program[p].found,
           \A c \in Cards : /\ device[c].present => /\ device'[c].present
                                                    /\ device'[c].filp = device[c].filp
                            /\ ~device[c].present => device'[c].filp = None
    PROVE  Devices'
<1>1. TypeOK'
  BY DEF Devices, TableConsistent, TypeOK, DeviceType, RequestType, ProgramType, DisplayTypeOK,
         DisplayType
<1>2. ConnectionIsOpen'
  <2> SUFFICES ASSUME NEW c \in Cards, device'[c].filp # None
               PROVE  /\ device'[c].present
                      /\ program'[device'[c].filp].card = c
                      /\ program'[device'[c].filp].at \in {"connect", "drive"}
    BY DEF ConnectionIsOpen
  <2>1. device[c].present /\ device'[c].filp = device[c].filp /\ device[c].filp \in Programs
    BY DEF Devices, TableConsistent, TypeOK
  <2>2. QED
    BY <2>1 DEF Devices, ConnectionIsOpen
<1>3. ProgramsOK'
  <2> SUFFICES ASSUME NEW q \in Programs
               PROVE  /\ program'[q].card # None => device'[program'[q].card].present
                      /\ program'[q].at = "connect" => program'[q].card \in Cards
                      /\ program'[q].at = "open" => program'[q].found \in Cards
    BY DEF ProgramsOK, At
  <2>1. program'[q].card \in Cards \cup {None}
    BY DEF ProgramType
  <2>2. QED
    BY <2>1 DEF Devices, ProgramsOK, At
<1>4. QED
  BY <1>1, <1>2, <1>3 DEF Devices, TableConsistent

\* The requests of the library for a card that is linked to a USB device.
LEMMA AttachStep == ASSUME Devices, NEW u \in Usbs, Attach(u) PROVE Devices'
<1> USE DevicesAssumption
<1>1. /\ device \in [Cards -> DeviceType] /\ request \in [Usbs -> RequestType]
      /\ program \in [Programs -> ProgramType] /\ DisplayTypeOK
      /\ count \in 0..Cardinality(Cards) /\ CountIsPresent /\ LinkIsParent /\ RequestsOK
  BY DEF Devices, TableConsistent, TypeOK, DeviceType, RequestType, ProgramType, DisplayTypeOK,
         DisplayType
<1>2. CASE AttachPick(u)
  <2>1. PICK c \in Cards :
          /\ IF FreeCards # {} THEN c \in FreeCards /\ UNCHANGED <<device, count>>
             ELSE c \notin Present /\ HasRoom /\ Create(c)
          /\ request' = [request EXCEPT ![u] = [at |-> "check", card |-> c]]
    BY <1>2 DEF AttachPick
  <2>2. UNCHANGED <<usb, program, display>> /\ u \in usb
    BY <1>2 DEF AttachPick, FoundAtPath
  <2>3. request' \in [Usbs -> RequestType] /\ RequestsOK'
    BY <1>1, <2>1, <2>2 DEF RequestType, RequestsOK
  <2>4. DisplayTypeOK'
    BY <1>1, <2>2 DEF DisplayTypeOK
  <2>5. CASE UNCHANGED <<device, count>>
    <3>1. CountIsPresent' /\ LinkIsParent'
      BY <1>1, <2>2, <2>5, CountKept DEF LinkIsParent
    <3>2. \A d \in Cards : ~device[d].present => device[d].filp = None
      BY DEF Devices, ConnectionIsOpen
    <3>3. QED
      BY <1>1, <2>2, <2>3, <2>4, <2>5, <3>1, <3>2, TableStep
  <2>6. CASE c \notin Present /\ HasRoom /\ Create(c)
    <3>1. /\ device' \in [Cards -> DeviceType]
          /\ count' \in 0..Cardinality(Cards) /\ CountIsPresent'
          /\ \A d \in Cards \ {c} : device'[d] = device[d]
          /\ device'[c] = Probed
      BY <2>6, CreateStep
    <3>2. LinkIsParent'
      <4>1. /\ Probed.link = None /\ Probed.parent = None /\ Probed.symlinked = FALSE
            /\ Probed.symlinked = (Probed.parent # None)
        BY DEF Probed, NoDevice
      <4>2. QED
        BY <1>1, <2>2, <3>1, <4>1 DEF LinkIsParent
    <3>3. \A d \in Cards : /\ device[d].present => /\ device'[d].present
                                                   /\ device'[d].filp = device[d].filp
                           /\ ~device[d].present => device'[d].filp = None
      BY <2>6, <3>1 DEF Present, Probed, NoDevice, Devices, ConnectionIsOpen
    <3>4. QED
      BY <1>1, <2>2, <2>3, <2>4, <3>1, <3>2, <3>3, TableStep
  <2>7. QED
    BY <2>1, <2>5, <2>6
<1>3. CASE AttachCheck(u) \/ AttachLink(u)
  <2>1. UNCHANGED <<count, usb, program, display>> /\ request[u].at # "idle"
    BY <1>3 DEF AttachCheck, AttachLink
  <2>2. request[u].card \in Cards /\ u \in usb
    BY <1>1, <2>1 DEF RequestsOK
  <2>3. request' \in [Usbs -> RequestType] /\ RequestsOK'
    BY <1>1, <1>3, <2>1, <2>2 DEF AttachCheck, AttachLink, RequestType, RequestsOK, NoRequest
  <2>4. /\ device' \in [Cards -> DeviceType] /\ LinkIsParent'
        /\ \A c \in Cards : device'[c].present = device[c].present
                            /\ device'[c].filp = device[c].filp
    <3>1. CASE device' = device
      BY <1>1, <2>1, <3>1 DEF LinkIsParent
    <3>2. CASE device' = [device EXCEPT ![request[u].card] =
                             [@ EXCEPT !.link = u, !.symlinked = TRUE, !.parent = u]]
      <4>1. device' \in [Cards -> DeviceType]
        BY <1>1, <2>2, <3>2 DEF DeviceType
      <4>2. QED
        BY <1>1, <2>1, <2>2, <3>2, <4>1 DEF LinkIsParent, DeviceType
    <3>3. QED
      BY <1>3, <3>1, <3>2 DEF AttachCheck, AttachLink
  <2>5. CountIsPresent'
    BY <1>1, <2>1, <2>4, CountKept
  <2>6. DisplayTypeOK'
    BY <1>1, <2>1 DEF DisplayTypeOK
  <2>7. \A d \in Cards : ~device[d].present => device[d].filp = None
    BY DEF Devices, ConnectionIsOpen
  <2>8. QED
    BY <1>1, <2>1, <2>3, <2>4, <2>5, <2>6, <2>7, TableStep
<1>4. QED
  BY <1>2, <1>3 DEF Attach

\* What the steps below start from.
LEMMA Typed ==
    ASSUME Devices
    PROVE  /\ device \in [Cards -> DeviceType] /\ request \in [Usbs -> RequestType]
           /\ program \in [Programs -> ProgramType] /\ DisplayTypeOK
           /\ count \in 0..Cardinality(Cards) /\ CountIsPresent /\ LinkIsParent /\ RequestsOK
           /\ ConnectionIsOpen /\ ProgramsOK /\ usb \subseteq Usbs
  BY DEF Devices, TableConsistent, TypeOK, DeviceType, RequestType, ProgramType, DisplayTypeOK,
         DisplayType

\* A USB device leaves: the cards that were linked to it are not linked any more.
LEMMA UsbLeavesStep == ASSUME Devices, NEW u \in Usbs, UsbLeaves(u) PROVE Devices'
<1> USE DevicesAssumption DEF UsbLeaves
<1>1. \A c \in Cards :
         /\ Unlinked(device[c], u) \in DeviceType
         /\ Unlinked(device[c], u).present = device[c].present
         /\ Unlinked(device[c], u).filp = device[c].filp
         /\ Unlinked(device[c], u).parent = IF device[c].parent = u THEN None
                                            ELSE device[c].parent
  BY Typed DEF Unlinked, DeviceType
<1>2. \A c \in Cards : /\ device'[c] \in DeviceType
                       /\ device'[c].present = device[c].present
                       /\ device'[c].filp = device[c].filp
  BY <1>1
<1>3. LinkIsParent'
  <2> SUFFICES ASSUME NEW c \in Cards
               PROVE  /\ device'[c].link = device'[c].parent
                      /\ device'[c].symlinked = (device'[c].parent # None)
                      /\ device'[c].parent \in usb' \cup {None}
    BY DEF LinkIsParent
  <2>1. CASE device[c].parent = u
    <3>1. device'[c].link = None /\ device'[c].symlinked = FALSE /\ device'[c].parent = None
      BY <2>1, Typed DEF Unlinked, DeviceType
    <3>2. QED
      BY <3>1
  <2>2. CASE device[c].parent # u
    <3>1. device'[c] = device[c]
      BY <2>2 DEF Unlinked
    <3>2. QED
      BY <2>2, <3>1, Typed DEF LinkIsParent
  <2>3. QED
    BY <2>1, <2>2
<1>4. \A c \in Cards : ~device[c].present => device[c].filp = None
  BY Typed DEF ConnectionIsOpen
<1>5. CountIsPresent'
  BY <1>2, Typed, CountKept
<1>6. TypeOK'
  BY <1>2, Typed
  DEF TypeOK, DeviceType, RequestType, ProgramType, DisplayTypeOK, DisplayType
<1>7. ConnectionIsOpen'
  BY <1>2, Typed DEF ConnectionIsOpen
<1>8. ProgramsOK'
  BY <1>2, Typed DEF ProgramsOK, At, ProgramType
<1>9. RequestsOK'
  BY DEF RequestsOK, NoRequests
<1>10. QED
  BY <1>3, <1>5, <1>6, <1>7, <1>8, <1>9 DEF Devices, TableConsistent

\* A USB device returns, or a display is plugged in or out.
LEMMA ExternalStep ==
    ASSUME Devices, UNCHANGED <<device, count, request, program>>,
           usb \subseteq usb', usb' \subseteq Usbs, DisplayTypeOK'
    PROVE  Devices'
<1>1. TypeOK'
  BY Typed DEF TypeOK, DeviceType, RequestType, ProgramType, DisplayTypeOK, DisplayType
<1>2. CountIsPresent' /\ LinkIsParent' /\ ConnectionIsOpen' /\ ProgramsOK' /\ RequestsOK'
  BY Typed DEF CountIsPresent, Present, LinkIsParent, ConnectionIsOpen, ProgramsOK, At,
               RequestsOK
<1>3. QED
  BY <1>1, <1>2 DEF Devices, TableConsistent

\* A display has at most two events that its program has not handled.
LEMMA PlugStep == ASSUME Devices, NEW p \in Programs, Plug(p) PROVE Devices'
<1> USE DEF Plug
<1>1. display \in [Programs -> DisplayType] /\ \A q \in Programs : Len(display[q].events) <= 2
  BY Typed DEF DisplayTypeOK
<1>2. display[p].events \in Seq({"arrived", "left"}) /\ Len(display[p].events) < 2
  BY <1>1 DEF DisplayType
<1> DEFINE e == IF At(p, "dead") THEN <<>>
                ELSE Append(display[p].events, IF display[p].here THEN "left" ELSE "arrived")
           n == IF display[p].here THEN display[p].plugs ELSE display[p].plugs + 1
<1>3. e \in Seq({"arrived", "left"}) /\ Len(e) <= 2
  BY <1>2, EmptySeq, AppendProperties
<1>4. n \in 0..MaxPlugs
  BY <1>1, DevicesAssumption DEF DisplayType
<1>5. display' = [display EXCEPT ![p] = [here |-> ~display[p].here, plugs |-> n, events |-> e]]
  OBVIOUS
<1>6. display'[p] = [here |-> ~display[p].here, plugs |-> n, events |-> e]
  BY <1>1, <1>5
<1>7. \A q \in Programs \ {p} : display'[q] = display[q]
  BY <1>1, <1>5
<1> HIDE DEF e, n
<1>8. [here |-> ~display[p].here, plugs |-> n, events |-> e] \in DisplayType
  BY <1>1, <1>3, <1>4 DEF DisplayType
<1>9. DisplayTypeOK'
  BY <1>1, <1>3, <1>5, <1>6, <1>7, <1>8 DEF DisplayTypeOK
<1>10. QED
  BY <1>9, ExternalStep, Typed

\* All cards are removed: no program and no request uses one.
LEMMA RemoveAllStep == ASSUME Devices, RemoveAll PROVE Devices'
<1> USE DevicesAssumption DEF RemoveAll
<1>1. device' = [c \in Cards |-> NoDevice] /\ NoDevice \in DeviceType
  BY DEF NoDevice, DeviceType
<1>2. Present' = {}
  BY <1>1 DEF Present, NoDevice
<1>3. CountIsPresent' /\ count' \in 0..Cardinality(Cards)
  BY <1>2, FS_EmptySet, TableFacts DEF CountIsPresent
<1>4. TypeOK'
  BY <1>1, <1>3, Typed
  DEF TypeOK, DeviceType, RequestType, ProgramType, DisplayTypeOK, DisplayType
<1>5. LinkIsParent' /\ ConnectionIsOpen'
  <2>1. /\ NoDevice.link = None /\ NoDevice.parent = None /\ NoDevice.filp = None
        /\ NoDevice.symlinked = (NoDevice.parent # None)
    BY DEF NoDevice
  <2>2. QED
    BY <1>1, <2>1 DEF LinkIsParent, ConnectionIsOpen
<1>6. ProgramsOK'
  BY Typed DEF ProgramsOK, At
<1>7. RequestsOK'
  BY DEF RequestsOK, NoRequests
<1>8. QED
  BY <1>3, <1>4, <1>5, <1>6, <1>7 DEF Devices, TableConsistent

\* A program that found no card has one added to the table.
LEMMA AddCardStep == ASSUME Devices, NEW p \in Programs, AddCard(p) PROVE Devices'
<1> USE DevicesAssumption DEF AddCard
<1> DEFINE r == [program[p] EXCEPT !.at = "rescan"]
<1>1. /\ program' = [program EXCEPT ![p] = r] /\ program[p].at = "scan"
      /\ r \in ProgramType /\ r.at = "rescan"
      /\ r.card = program[p].card /\ r.found = program[p].found
  BY Typed DEF Step, At, ProgramType
<1> HIDE DEF r
<1>2. /\ program' \in [Programs -> ProgramType]
      /\ \A q \in Programs : /\ program'[q].card = program[q].card
                             /\ program'[q].at # program[q].at =>
                                  program[q].at = "scan" /\ program'[q].at = "rescan"
                             /\ program'[q].found = program[q].found
  BY <1>1, Typed
<1>3. UNCHANGED <<usb, request, display>> /\ RequestsOK' /\ DisplayTypeOK'
  BY Typed DEF RequestsOK, DisplayTypeOK
<1>4. \A d \in Cards : ~device[d].present => device[d].filp = None
  BY Typed DEF ConnectionIsOpen
<1>5. CASE UNCHANGED <<device, count>>
  <2>1. CountIsPresent' /\ LinkIsParent'
    BY <1>3, <1>5, Typed, CountKept DEF LinkIsParent
  <2>2. QED
    BY <1>2, <1>3, <1>4, <1>5, <2>1, Typed, TableStep
<1>6. ASSUME HasRoom, NEW c \in Cards \ Present, Create(c) PROVE Devices'
  <2>1. /\ device' \in [Cards -> DeviceType]
        /\ count' \in 0..Cardinality(Cards) /\ CountIsPresent'
        /\ \A d \in Cards \ {c} : device'[d] = device[d]
        /\ device'[c] = Probed
    BY <1>6, CreateStep
  <2>2. /\ Probed.link = None /\ Probed.parent = None /\ Probed.filp = None
        /\ Probed.symlinked = (Probed.parent # None)
    BY DEF Probed, NoDevice
  <2>3. LinkIsParent'
    BY <1>3, <2>1, <2>2, Typed DEF LinkIsParent
  <2>4. \A d \in Cards : /\ device[d].present => /\ device'[d].present
                                                 /\ device'[d].filp = device[d].filp
                         /\ ~device[d].present => device'[d].filp = None
    BY <1>4, <2>1, <2>2 DEF Present
  <2>5. QED
    BY <1>2, <1>3, <2>1, <2>3, <2>4, Typed, TableStep
<1>7. QED
  BY <1>5, <1>6 DEF AddDevices

\* A program connects the card it opened, which may replace a connection.
LEMMA ConnectStep == ASSUME Devices, NEW p \in Programs, Connect(p) PROVE Devices'
<1> USE DevicesAssumption DEF Connect
<1> DEFINE k == program[p].card
           r == [program[p] EXCEPT !.at = "drive", !.screen = TRUE]
<1>1. k \in Cards /\ device[k].present /\ program[p].at = "connect"
  BY Typed DEF ProgramsOK, At
<1>2. /\ program' = [program EXCEPT ![p] = r]
      /\ r \in ProgramType /\ r.at = "drive" /\ r.card = k
  BY Typed DEF Step, ProgramType
<1>3. /\ device' \in [Cards -> DeviceType]
      /\ \A c \in Cards : /\ device'[c].present = device[c].present
                          /\ device'[c].link = device[c].link
                          /\ device'[c].parent = device[c].parent
                          /\ device'[c].symlinked = device[c].symlinked
                          /\ device'[c].filp = IF c = k THEN p ELSE device[c].filp
  BY <1>1, Typed DEF DeviceType
<1> HIDE DEF k, r
<1>4. UNCHANGED <<count, usb, request, display>>
  OBVIOUS
<1>5. /\ program' \in [Programs -> ProgramType] /\ program'[p] = r
      /\ \A q \in Programs \ {p} : program'[q] = program[q]
  BY <1>2, Typed
<1>6. TypeOK'
  BY <1>3, <1>4, <1>5, Typed
  DEF TypeOK, DeviceType, RequestType, ProgramType, DisplayTypeOK, DisplayType
<1>7. CountIsPresent' /\ LinkIsParent' /\ RequestsOK'
  BY <1>3, <1>4, Typed, CountKept DEF LinkIsParent, RequestsOK
<1>8. ConnectionIsOpen'
  <2> SUFFICES ASSUME NEW c \in Cards, device'[c].filp # None
               PROVE  /\ device'[c].present
                      /\ program'[device'[c].filp].card = c
                      /\ program'[device'[c].filp].at \in {"connect", "drive"}
    BY DEF ConnectionIsOpen
  <2>1. CASE device'[c].filp = p
    <3>1. c = k
      BY <1>3, <2>1, Typed DEF ConnectionIsOpen, k
    <3>2. QED
      BY <1>1, <1>2, <1>3, <1>5, <2>1, <3>1
  <2>2. CASE device'[c].filp # p
    <3>1. device'[c].filp = device[c].filp /\ device[c].filp \in Programs \ {p}
      BY <1>3, <2>2, Typed DEF DeviceType
    <3>2. QED
      BY <1>3, <1>5, <3>1, Typed DEF ConnectionIsOpen
  <2>3. QED
    BY <2>1, <2>2
<1>9. ProgramsOK'
  <2> SUFFICES ASSUME NEW q \in Programs
               PROVE  /\ program'[q].card # None => device'[program'[q].card].present
                      /\ program'[q].at = "connect" => program'[q].card \in Cards
                      /\ program'[q].at = "open" => program'[q].found \in Cards
    BY DEF ProgramsOK, At
  <2>1. program'[q].card \in Cards \cup {None}
    BY <1>5 DEF ProgramType
  <2>2. QED
    BY <1>1, <1>2, <1>3, <1>5, <2>1, Typed DEF ProgramsOK, At
<1>10. QED
  BY <1>6, <1>7, <1>8, <1>9 DEF Devices, TableConsistent

\* A handled event leaves the queue.
LEMMA TookStep ==
    ASSUME Devices, NEW p \in Programs, Took(p), display[p].events # <<>>
    PROVE  DisplayTypeOK'
<1>1. /\ display \in [Programs -> DisplayType] /\ display[p].events \in Seq({"arrived", "left"})
      /\ Len(display[p].events) <= 2
  BY Typed DEF DisplayTypeOK, DisplayType
<1>2. /\ Tail(display[p].events) \in Seq({"arrived", "left"})
      /\ Len(Tail(display[p].events)) <= 2
  <2>1. Len(Tail(display[p].events)) = Len(display[p].events) - 1
    BY <1>1, HeadTailProperties
  <2>2. QED
    BY <1>1, <2>1, HeadTailProperties, LenProperties
<1>3. display' = [display EXCEPT ![p].events = Tail(display[p].events)]
  BY DEF Took
<1>4. display' \in [Programs -> DisplayType]
  BY <1>1, <1>2, <1>3 DEF DisplayType
<1>5. \A q \in Programs : display'[q].events = IF q = p THEN Tail(display[p].events)
                                               ELSE display[q].events
  BY <1>1, <1>3 DEF DisplayType
<1>6. QED
  BY <1>2, <1>4, <1>5, Typed DEF DisplayTypeOK

\* The steps of a program that connect no card and add none.
LEMMA RunStep ==
    ASSUME Devices, NEW p \in Programs,
           \/ Arrived(p) \/ LeftTooEarly(p) \/ LeftWhileDriving(p) \/ GetEdid(p)
           \/ FindCard(p) \/ NoCard(p) \/ OpenCard(p) \/ Close(p)
           \/ Start(p) \/ Killed(p)
    PROVE  Devices'
<1> USE DevicesAssumption
<1>1. /\ program[p] \in ProgramType /\ Dead \in ProgramType
      /\ Dead.card = None /\ Dead.at = "dead"
      /\ program[p].card \in Cards \cup {None} /\ program[p].found \in Cards \cup {None}
  BY Typed DEF ProgramType, Dead
<1>2. /\ program[p].card # None => device[program[p].card].present
      /\ At(p, "connect") => program[p].card \in Cards
      /\ At(p, "open") => program[p].found \in Cards
  BY Typed DEF ProgramsOK
<1>3. CASE Arrived(p)
  <2>1. DisplayTypeOK'
    BY <1>3, TookStep DEF Arrived
  <2>2. [program[p] EXCEPT !.attached = TRUE] \in ProgramType
    BY <1>1 DEF ProgramType
  <2>3. QED
    BY <1>1, <1>2, <1>3, <2>1, <2>2, ProgramStep DEF Arrived, At, ProgramType
<1>4. CASE LeftTooEarly(p)
  <2>1. DisplayTypeOK'
    BY <1>4, TookStep DEF LeftTooEarly
  <2>2. QED
    BY <1>1, <1>2, <1>4, <2>1, ProgramStep DEF LeftTooEarly, Die
<1>5. CASE LeftWhileDriving(p)
  <2>1. DisplayTypeOK'
    BY <1>5, TookStep DEF LeftWhileDriving
  <2>2. [program[p] EXCEPT !.at = "close", !.attached = FALSE, !.screen = FALSE] \in ProgramType
    BY <1>1 DEF ProgramType
  <2>3. QED
    BY <1>1, <1>2, <1>5, <2>1, <2>2, ProgramStep, Typed
    DEF LeftWhileDriving, ProgramType
<1>6. CASE GetEdid(p)
  <2>1. DisplayTypeOK'
    BY <1>6, Typed DEF GetEdid, DisplayTypeOK
  <2>2. [program[p] EXCEPT !.at = "scan"] \in ProgramType
    BY <1>1 DEF ProgramType
  <2>3. CASE Die(p)
    BY <1>1, <1>6, <2>1, <2>3, ProgramStep DEF GetEdid, Die
  <2>4. CASE Step(p, [program[p] EXCEPT !.at = "scan"]) /\ UNCHANGED device
    BY <1>1, <1>2, <1>6, <2>1, <2>2, <2>4, ProgramStep DEF GetEdid, At, ProgramType
  <2>5. QED
    BY <1>6, <2>3, <2>4 DEF GetEdid
<1>7. CASE FindCard(p)
  <2>1. DisplayTypeOK' /\ program[p].at \in {"scan", "rescan"}
        /\ UNCHANGED <<device, count, usb, request>>
    BY <1>7, Typed DEF FindCard, OnlyProgram, DisplayTypeOK
  <2>2. PICK c \in Unused : Step(p, [program[p] EXCEPT !.at = "open", !.found = c])
    BY <1>7 DEF FindCard
  <2>3. [program[p] EXCEPT !.at = "open", !.found = c] \in ProgramType /\ c \in Cards
    BY <1>1 DEF ProgramType, Unused, Present
  <2>4. QED
    BY <1>1, <1>2, <2>1, <2>2, <2>3, ProgramStep DEF ProgramType
<1>8. CASE NoCard(p)
  <2>1. DisplayTypeOK'
    BY <1>8, Typed DEF NoCard, OnlyProgram, DisplayTypeOK
  <2>2. QED
    BY <1>1, <1>8, <2>1, ProgramStep DEF NoCard, At, OnlyProgram
<1>9. CASE OpenCard(p)
  <2>1. DisplayTypeOK' /\ program[p].at = "open" /\ UNCHANGED <<device, count, usb, request>>
    BY <1>9, Typed DEF OpenCard, OnlyProgram, DisplayTypeOK, At
  <2> DEFINE r == [program[p] EXCEPT !.at = "connect", !.card = program[p].found, !.found = None]
  <2>2. program[p].found \in Cards
    BY <1>2, <2>1 DEF At
  <2>3. r \in ProgramType /\ r.at = "connect" /\ r.card = program[p].found
    BY <1>1, <2>2 DEF ProgramType
  <2> HIDE DEF r
  <2>4. CASE device[program[p].found].present /\ Step(p, r)
    BY <2>1, <2>2, <2>3, <2>4, ProgramStep
  <2>5. CASE Step(p, Dead)
    BY <1>1, <2>1, <2>5, ProgramStep
  <2>6. QED
    BY <1>9, <2>4, <2>5 DEF OpenCard, r
<1>10. CASE Close(p)
  <2>1. DisplayTypeOK'
    BY <1>10, Typed DEF Close, DisplayTypeOK
  <2>2. [program[p] EXCEPT !.at = "poll", !.card = None] \in ProgramType
    BY <1>1 DEF ProgramType
  <2>3. QED
    BY <1>1, <1>10, <2>1, <2>2, ProgramStep DEF Close, ProgramType
<1>11. CASE Start(p)
  <2>1. /\ display[p].here \in BOOLEAN /\ display \in [Programs -> DisplayType]
        /\ <<>> \in Seq({"arrived", "left"}) /\ Len(<<>>) <= 2
    BY Typed, EmptySeq DEF DisplayTypeOK, DisplayType
  <2>2. DisplayTypeOK'
    BY <1>11, <2>1, Typed DEF Start, DisplayTypeOK, DisplayType
  <2>3. [Dead EXCEPT !.at = "poll", !.attached = display[p].here] \in ProgramType
    BY <1>1, <2>1 DEF ProgramType
  <2>4. QED
    BY <1>1, <1>11, <2>2, <2>3, ProgramStep DEF Start, At, Dead
<1>12. CASE Killed(p)
  <2>1. DisplayTypeOK'
    BY <1>12, Typed DEF Killed, DisplayTypeOK
  <2>2. QED
    BY <1>1, <1>12, <2>1, ProgramStep DEF Killed, Die
<1>13. QED
  BY <1>3, <1>4, <1>5, <1>6, <1>7, <1>8, <1>9, <1>10, <1>11, <1>12

\* Every step keeps the invariant.
LEMMA DevicesStep == Devices /\ [Next]_vars => Devices'
<1> SUFFICES ASSUME Devices, [Next]_vars PROVE Devices'
  OBVIOUS
<1>1. ASSUME NEW p \in Programs, Run(p) \/ Start(p) \/ Plug(p) \/ Killed(p) PROVE Devices'
  BY <1>1, RunStep, AddCardStep, ConnectStep, PlugStep DEF Run
<1>2. ASSUME NEW u \in Usbs, UsbReturns(u) PROVE Devices'
  <2>1. DisplayTypeOK'
    BY <1>2, Typed DEF UsbReturns, DisplayTypeOK
  <2>2. QED
    BY <1>2, <2>1, ExternalStep, Typed DEF UsbReturns
<1>3. CASE UNCHANGED vars
  <2>1. DisplayTypeOK'
    BY <1>3, Typed DEF vars, DisplayTypeOK
  <2>2. QED
    BY <1>3, <2>1, ExternalStep, Typed DEF vars
<1>4. QED
  BY <1>1, <1>2, <1>3, AttachStep, UsbLeavesStep, RemoveAllStep DEF Next

\* The invariant in every reachable state.
LEMMA DevicesInvariant == Spec => []Devices
  BY DevicesInit, DevicesStep, PTL DEF Spec

\* The table of cards has as many cards as it counts, and a card's link, its flag
\* and its parent agree, however requests, departures, programs and removals
\* interleave.
THEOREM TableIsConsistent == Spec => []TableConsistent
<1>1. Devices => TableConsistent
  BY DEF Devices
<1>2. QED
  BY <1>1, DevicesInvariant, PTL

\* A connected card is connected to a program that has it open, whichever way
\* programs replaced each other, closed the card or died.
THEOREM ConnectionsAreOpen == Spec => []ConnectionIsOpen
<1>1. Devices => ConnectionIsOpen
  BY DEF Devices
<1>2. QED
  BY <1>1, DevicesInvariant, PTL
===============================================================================
