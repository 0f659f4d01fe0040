--------------------------- MODULE EvdiPainterProofs --------------------------
(***************************************************************************)
(* What EvdiPainter promises for every number of modes and tiles and every *)
(* size of the client's file: the painter is consistent, no damage is lost *)
(* silently, and the client is told the mode it will grab.                 *)
(***************************************************************************)
EXTENDS MCPainter, SequenceTheorems, WellFoundedInduction, TLAPS

CommitType == [at : {"idle", "attach", "scanout", "damage", "rest", "cursor", "flush", "mode",
                     "clear", "dpms", "vblank", "ready"},
               fb : Modes \cup {NoMode}, old : Modes \cup {NoMode}, flip : BOOLEAN,
               damage : SUBSET Tiles, announce : BOOLEAN, dpms : BOOLEAN, event : BOOLEAN]
GrabType == [fb : Modes \cup {NoMode}, tiles : SUBSET Tiles, vblank : BOOLEAN]

\* What a commit has still to do and what it has done already.
CommitOK ==
    /\ commit \in CommitType
    /\ commit.at = "idle" => commit = NoCommit
    /\ commit.at # "idle" => commit.fb = plane
    /\ commit.damage # {} => commit.at \in {"attach", "scanout", "damage", "rest", "cursor"}
    /\ commit.at = "attach" => /\ commit.fb = NoMode => commit.damage = {}
                               /\ commit.fb # NoMode \/ commit.old # NoMode
    /\ commit.at \in {"attach", "scanout"} => commit.flip \/ commit.fb = commit.old
    /\ commit.at \in {"scanout", "damage", "rest", "cursor"} => commit.fb # NoMode
    /\ commit.at = "scanout" /\ commit.old = NoMode => needsFull
    /\ commit.at = "cursor" => commit.fb = commit.old
    /\ commit.at = "mode" /\ commit.announce => commit.fb # NoMode

\* What the client holds when: a grab while it copies, events while it handles
\* them, nothing at all when it is not connected.
ClientOK ==
    /\ grab \in GrabType
    /\ pc # "copy" => grab = NoGrab
    /\ pc \in {"off", "loop"} => batch = <<>>
    /\ pc = "off" => buffers = NoMode /\ pending = <<>> /\ queue = <<>> /\ ~worker

\* The scanout buffer is the one of the plane, or of the plane before the commit.
ShownOK ==
    LET fb == IF commit.at \in {"attach", "scanout"} THEN commit.old ELSE plane
    IN  fb # NoMode => scanout \in {fb, NoMode}

\* The client is told no mode but that of the scanout buffer, or the commit has
\* still to announce it.
WillAnnounce == commit.fb # NoMode /\ (commit.fb # commit.old \/ needsFull)
ToldOK ==
    \A m \in Modes : Told(buffers, OnTheWay, m) =>
        /\ scanout # NoMode
        /\ scanout = m \/ (commit.at \in {"damage", "rest", "flush"} /\ WillAnnounce)
                       \/ (commit.at = "mode" /\ commit.announce)

Painter == PainterConsistent /\ DamageIsTracked /\ CommitOK /\ ClientOK /\ ShownOK /\ ToldOK

-----------------------------------------------------------------------------
(* Events on the way *)

\* After one more event, only the mode of that event or the one before is told.
LEMMA ToldAppend ==
    ASSUME NEW s \in Seq(Event), NEW e \in Event, NEW b, NEW m \in Modes,
           Told(b, Append(s, e), m)
    PROVE  e = ModeEvent(m) \/ (e.type # "mode" /\ Told(b, s, m))
<1>1. /\ Append(s, e) \in Seq(Event) /\ Len(Append(s, e)) = Len(s) + 1 /\ Len(s) \in Nat
      /\ \A i \in 1..Len(s) : Append(s, e)[i] = s[i]
      /\ Append(s, e)[Len(s) + 1] = e
  BY AppendProperties, LenProperties
<1> DEFINE t == Append(s, e)
<1> HIDE DEF t
<1>2. /\ Len(t) = Len(s) + 1 /\ Len(s) \in Nat /\ t[Len(s) + 1] = e
      /\ \A i \in 1..Len(s) : t[i] = s[i] /\ i \in 1..Len(t)
      /\ Len(s) + 1 \in 1..Len(t)
  BY <1>1 DEF t
<1>3. Told(b, t, m)
  BY DEF t
<1>4. CASE \E i \in 1..Len(t) : /\ t[i] = ModeEvent(m)
                                /\ \A j \in 1..Len(t) : j > i => t[j].type # "mode"
  <2>1. PICK i \in 1..Len(t) : /\ t[i] = ModeEvent(m)
                               /\ \A j \in 1..Len(t) : j > i => t[j].type # "mode"
    BY <1>4
  <2>2. CASE i = Len(s) + 1
    BY <1>2, <2>1, <2>2
  <2>3. CASE i \in 1..Len(s)
    BY <1>2, <2>1, <2>3 DEF Told
  <2>4. QED
    BY <1>2, <2>2, <2>3
<1>5. CASE b = m /\ \A i \in 1..Len(t) : t[i].type # "mode"
  BY <1>2, <1>5 DEF Told
<1>6. QED
  BY <1>3, <1>4, <1>5 DEF Told

\* Handling the first event changes nothing of what will have been told.
LEMMA ToldTail ==
    ASSUME NEW s \in Seq(Event), s # <<>>, NEW b, NEW m \in Modes,
           Told(IF Head(s).type = "mode" THEN Head(s).mode ELSE b, Tail(s), m)
    PROVE  Told(b, s, m)
<1>1. /\ Tail(s) \in Seq(Event) /\ Len(Tail(s)) = Len(s) - 1 /\ Len(s) \in Nat \ {0}
      /\ \A i \in 1..Len(Tail(s)) : Tail(s)[i] = s[i + 1]
      /\ Head(s) = s[1] /\ s[1] \in Event
  BY HeadTailProperties, LenProperties, EmptySeq
<1> DEFINE t == Tail(s)
           c == IF Head(s).type = "mode" THEN Head(s).mode ELSE b
<1>3. /\ Len(s) = Len(t) + 1 /\ Len(t) \in Nat
      /\ \A i \in 1..Len(t) : t[i] = s[i + 1] /\ i + 1 \in 1..Len(s)
      /\ \A j \in 1..Len(s) : j = 1 \/ (j - 1 \in 1..Len(t) /\ s[j] = t[j - 1])
  BY <1>1
<1>4. \/ \E i \in 1..Len(t) : /\ t[i] = ModeEvent(m)
                              /\ \A j \in 1..Len(t) : j > i => t[j].type # "mode"
      \/ c = m /\ \A i \in 1..Len(t) : t[i].type # "mode"
  BY DEF Told
<1>2. c = IF s[1].type = "mode" THEN s[1].mode ELSE b
  BY <1>1
<1> HIDE DEF t, c
<1>5. CASE \E i \in 1..Len(t) : /\ t[i] = ModeEvent(m)
                                /\ \A j \in 1..Len(t) : j > i => t[j].type # "mode"
  <2>1. PICK i \in 1..Len(t) : /\ t[i] = ModeEvent(m)
                               /\ \A j \in 1..Len(t) : j > i => t[j].type # "mode"
    BY <1>5
  <2>2. i + 1 \in 1..Len(s) /\ s[i + 1] = ModeEvent(m)
    BY <1>3, <2>1
  <2>3. ASSUME NEW j \in 1..Len(s), j > i + 1 PROVE s[j].type # "mode"
    <3>1. j - 1 \in 1..Len(t) /\ s[j] = t[j - 1] /\ j - 1 > i
      BY <1>3, <2>3
    <3>2. QED
      BY <2>1, <3>1
  <2>4. QED
    BY <2>2, <2>3 DEF Told
<1>6. CASE c = m /\ \A i \in 1..Len(t) : t[i].type # "mode"
  <2>1. \A j \in 1..Len(s) : j > 1 => s[j].type # "mode"
    BY <1>3, <1>6
  <2>2. CASE s[1].type = "mode"
    <3>1. s[1] = ModeEvent(m) /\ 1 \in 1..Len(s)
      BY <1>1, <1>2, <1>6, <2>2 DEF Event, ModeEvent
    <3>2. QED
      BY <2>1, <3>1 DEF Told
  <2>3. CASE s[1].type # "mode"
    <3>1. b = m /\ \A j \in 1..Len(s) : s[j].type # "mode"
      BY <1>2, <1>3, <1>6, <2>1, <2>3
    <3>2. QED
      BY <3>1 DEF Told
  <2>4. QED
    BY <2>2, <2>3
<1>7. QED
  BY <1>4, <1>5, <1>6

\* flush_pending_events delivers events in order, as many as fit, and loses none.
LEMMA FlushStep ==
    ASSUME NEW p \in Seq(Event), queue \in Seq(Event), Len(queue) <= EventSpace, Flush(p)
    PROVE  /\ queue' \in Seq(Event) /\ pending' \in Seq(Event) /\ worker' \in BOOLEAN
           /\ Len(queue') <= EventSpace
           /\ pending' # <<>> => worker'
           /\ queue' \o pending' = queue \o p
<1> USE PainterAssumption
<1> DEFINE room == EventSpace - Len(queue)
           n == IF Len(p) < room THEN Len(p) ELSE room
<1>1. /\ Len(p) \in Nat /\ Len(queue) \in Nat /\ room \in Nat
      /\ n \in Nat /\ n <= Len(p) /\ n <= room
  BY LenProperties
<1>2. /\ queue' = queue \o SubSeq(p, 1, n) /\ pending' = SubSeq(p, n + 1, Len(p))
      /\ worker' = (n < Len(p))
  BY DEF Flush
<1> HIDE DEF room, n
<1>10. /\ \A i \in 1..Len(p) : p[i] \in Event
       /\ \A i \in 1..n : i \in 1..Len(p)
       /\ \A i \in (n + 1)..Len(p) : i \in 1..Len(p)
  BY <1>1, ElementOfSeq
<1>3. /\ SubSeq(p, 1, n) \in Seq(Event) /\ Len(SubSeq(p, 1, n)) = n
      /\ \A i \in 1..n : SubSeq(p, 1, n)[i] = p[i]
  <2>1. 1 \in Int /\ n \in Int /\ \A i \in 1..n : p[i] \in Event
    BY <1>1, <1>10
  <2>2. /\ SubSeq(p, 1, n) \in Seq(Event)
        /\ Len(SubSeq(p, 1, n)) = IF 1 <= n THEN n - 1 + 1 ELSE 0
        /\ \A i \in 1..n - 1 + 1 : SubSeq(p, 1, n)[i] = p[1 + i - 1]
    BY <2>1, SubSeqProperties
  <2>3. QED
    BY <1>1, <2>2
<1>4. /\ SubSeq(p, n + 1, Len(p)) \in Seq(Event)
      /\ Len(SubSeq(p, n + 1, Len(p))) = Len(p) - n
      /\ \A i \in 1..Len(p) - n : SubSeq(p, n + 1, Len(p))[i] = p[n + i]
  <2>1. n + 1 \in Int /\ Len(p) \in Int /\ \A i \in (n + 1)..Len(p) : p[i] \in Event
    BY <1>1, <1>10
  <2>2. /\ SubSeq(p, n + 1, Len(p)) \in Seq(Event)
        /\ Len(SubSeq(p, n + 1, Len(p))) = IF n + 1 <= Len(p) THEN Len(p) - (n + 1) + 1 ELSE 0
        /\ \A i \in 1..Len(p) - (n + 1) + 1 :
               SubSeq(p, n + 1, Len(p))[i] = p[(n + 1) + i - 1]
    BY <2>1, SubSeqProperties
  <2>3. QED
    BY <1>1, <2>2
<1> DEFINE a == SubSeq(p, 1, n)
           z == SubSeq(p, n + 1, Len(p))
<1>5. a \in Seq(Event) /\ z \in Seq(Event) /\ queue' = queue \o a /\ pending' = z
  BY <1>2, <1>3, <1>4
<1>6. a \o z = p
  <2>1. /\ a \o z \in Seq(Event) /\ Len(a \o z) = Len(a) + Len(z)
        /\ \A i \in 1..Len(a) + Len(z) :
              (a \o z)[i] = IF i <= Len(a) THEN a[i] ELSE z[i - Len(a)]
    BY <1>5, ConcatProperties
  <2>2. /\ Len(a) = n /\ Len(z) = Len(p) - n
        /\ \A i \in 1..n : a[i] = p[i]
        /\ \A i \in 1..Len(p) - n : z[i] = p[n + i]
    BY <1>3, <1>4
  <2> HIDE DEF a, z
  <2>3. Len(a \o z) = Len(p)
    BY <1>1, <2>1, <2>2
  <2>4. ASSUME NEW i \in 1..Len(p) PROVE (a \o z)[i] = p[i]
    <3>1. CASE i <= n
      BY <1>1, <2>1, <2>2, <3>1
    <3>2. CASE i > n
      <4>1. i - n \in 1..Len(p) - n /\ n + (i - n) = i
        BY <1>1, <3>2
      <4>2. z[i - n] = p[n + (i - n)]
        BY <2>2, <4>1
      <4>3. i \in 1..Len(a) + Len(z) /\ ~(i <= Len(a))
        BY <1>1, <2>2, <3>2
      <4>4. (a \o z)[i] = z[i - Len(a)]
        BY <2>1, <4>3
      <4>5. QED
        BY <2>2, <4>2, <4>4, <4>1
    <3>3. i <= n \/ i > n
      BY <1>1
    <3>4. QED
      BY <3>1, <3>2, <3>3
  <2>5. QED
    BY <2>1, <2>3, <2>4, SeqEqual
<1>7. Len(a) = n /\ Len(z) = Len(p) - n
  BY <1>3, <1>4
<1> HIDE DEF a, z
<1>8. queue' \o pending' = queue \o p
  <2>1. (queue \o a) \o z = queue \o (a \o z)
    BY <1>5, ConcatAssociative
  <2>2. QED
    BY <1>5, <1>6, <2>1
<1>9. queue' \in Seq(Event) /\ Len(queue') = Len(queue) + n
  BY <1>5, <1>7, ConcatProperties
<1>11. Len(queue') <= EventSpace
  BY <1>1, <1>9 DEF room
<1>12. pending' # <<>> => n < Len(p)
  <2>1. pending' # <<>> => Len(pending') \in Nat \ {0}
    BY <1>5, EmptySeq
  <2>2. QED
    BY <1>1, <1>5, <1>7, <2>1
<1>13. worker' \in BOOLEAN /\ (pending' # <<>> => worker')
  <2>1. CASE n < Len(p)
    BY <1>2, <2>1
  <2>2. CASE ~(n < Len(p))
    BY <1>2, <1>12, <2>2
  <2>3. QED
    BY <2>1, <2>2
<1>14. QED
  BY <1>5, <1>8, <1>9, <1>11, <1>13

-----------------------------------------------------------------------------
(* The invariant *)

\* The types of the events, apart from those of the rest.
EventsOK ==
    /\ pending \in Seq(Event) /\ queue \in Seq(Event) /\ worker \in BOOLEAN
    /\ Len(queue) <= EventSpace
    /\ pending # <<>> => worker

\* The invariant holds at the start: nobody is connected.
LEMMA PainterInit == Init => Painter
<1> SUFFICES ASSUME Init PROVE Painter
  OBVIOUS
<1> USE PainterAssumption DEF Init, NoCommit, NoGrab
<1>1. /\ <<>> \in Seq(Event) /\ Len(<<>>) = 0
  BY EmptySeq
<1>2. TypeOK
  <2>1. connected = (pc # "off")
    OBVIOUS
  <2>2. \A s \in {dirts, behind, lost, grab.tiles, commit.damage} : s \subseteq Tiles
    OBVIOUS
  <2>3. Len(queue) <= EventSpace /\ (pending # <<>> => worker)
    BY <1>1
  <2>4. QED
    BY <1>1, <2>1, <2>2, <2>3 DEF TypeOK
<1>3. UpdateNotLost /\ VblankAccounted /\ DamageIsTracked
  BY DEF UpdateNotLost, VblankAccounted, FlipInCommit, Count, DamageIsTracked
<1>4. CommitOK /\ ClientOK /\ ShownOK
  BY DEF CommitOK, CommitType, ClientOK, GrabType, ShownOK
<1>5. OnTheWay = <<>>
  BY <1>1, ConcatEmptySeq DEF OnTheWay
<1>6. ToldOK
  BY <1>1, <1>5 DEF ToldOK, Told
<1>7. QED
  BY <1>2, <1>3, <1>4, <1>6 DEF Painter, PainterConsistent

\* What the invariant says of the events.
LEMMA EventsTyped ==
    ASSUME Painter
    PROVE  /\ EventsOK /\ batch \in Seq(Event) /\ OnTheWay \in Seq(Event)
           /\ \A i \in 1..Len(queue) : queue[i] \in Event
           /\ Len(queue) \in Nat
<1>1. EventsOK /\ batch \in Seq(Event)
  BY DEF Painter, PainterConsistent, TypeOK, EventsOK
<1>2. OnTheWay \in Seq(Event)
  BY <1>1, ConcatProperties DEF EventsOK, OnTheWay
<1>3. QED
  BY <1>1, <1>2, ElementOfSeq, LenProperties DEF EventsOK

\* An event that is sent comes after all that are on the way, or is dropped
\* because nobody is connected.
LEMMA SendStep ==
    ASSUME Painter, NEW e \in Event, SendEvent(e), UNCHANGED batch
    PROVE  /\ EventsOK'
           /\ ~connected => UNCHANGED <<pending, worker, queue>>
           /\ connected => OnTheWay' = Append(OnTheWay, e)
<1>1. EventsOK /\ batch \in Seq(Event) /\ pending \in Seq(Event) /\ queue \in Seq(Event)
  BY EventsTyped DEF EventsOK
<1>2. Append(pending, e) \in Seq(Event)
  BY <1>1, AppendProperties
<1>3. CASE ~connected
  BY <1>1, <1>3 DEF SendEvent, events, EventsOK
<1>4. CASE connected /\ worker
  <2>1. pending' = Append(pending, e) /\ UNCHANGED <<worker, queue>>
    BY <1>4 DEF SendEvent
  <2>2. EventsOK'
    BY <1>1, <1>2, <1>4, <2>1 DEF EventsOK
  <2>3. (batch \o queue) \o Append(pending, e) = Append((batch \o queue) \o pending, e)
    <3>1. batch \o queue \in Seq(Event)
      BY <1>1, ConcatProperties
    <3>2. Append(pending, e) = pending \o <<e>> /\ <<e>> \in Seq(Event)
      BY <1>1, AppendIsConcat
    <3>3. ((batch \o queue) \o pending) \in Seq(Event)
      BY <1>1, <3>1, ConcatProperties
    <3>4. Append((batch \o queue) \o pending, e) = ((batch \o queue) \o pending) \o <<e>>
      BY <3>3, AppendIsConcat
    <3>5. ((batch \o queue) \o pending) \o <<e>> = (batch \o queue) \o (pending \o <<e>>)
      BY <1>1, <3>1, <3>2, ConcatAssociative
    <3>6. QED
      BY <3>2, <3>4, <3>5
  <2>4. QED
    BY <1>4, <2>1, <2>2, <2>3 DEF OnTheWay
<1>5. CASE connected /\ ~worker
  <2>1. Flush(Append(pending, e)) /\ pending = <<>>
    BY <1>1, <1>5 DEF SendEvent, EventsOK
  <2>2. /\ EventsOK' /\ queue' \o pending' = queue \o Append(pending, e)
        /\ queue' \in Seq(Event) /\ pending' \in Seq(Event)
    BY <1>1, <1>2, <2>1, FlushStep DEF EventsOK
  <2>3. OnTheWay' = batch \o (queue' \o pending')
    <3>1. queue' \in Seq(Event) /\ pending' \in Seq(Event) /\ batch \in Seq(Event)
      BY <1>1, <2>2
    <3>2. (batch \o queue') \o pending' = batch \o (queue' \o pending')
      BY <3>1, ConcatAssociative
    <3>3. QED
      BY <3>2 DEF OnTheWay
  <2> DEFINE a == Append(pending, e)
  <2>8. a \in Seq(Event)
    BY <1>2
  <2> HIDE DEF a
  <2>9. batch \o (queue \o a) = (batch \o queue) \o a
    BY <1>1, <2>8, ConcatAssociative
  <2>4. batch \o (queue \o Append(pending, e)) = (batch \o queue) \o Append(pending, e)
    BY <2>9 DEF a
  <2>5. Append(pending, e) = <<e>> /\ OnTheWay = batch \o queue /\ batch \o queue \in Seq(Event)
    BY <1>1, <2>1, ConcatProperties, ConcatEmptySeq DEF OnTheWay
  <2>6. Append(batch \o queue, e) = (batch \o queue) \o <<e>>
    BY <2>5, AppendIsConcat
  <2>7. QED
    BY <1>5, <2>2, <2>3, <2>4, <2>5, <2>6
<1>6. QED
  BY <1>3, <1>4, <1>5

\* Events that have the mode of no framebuffer.
LEMMA PlainEvents ==
    /\ DpmsEvent \in Event /\ ReadyEvent \in Event
    /\ \A m \in Modes : ModeEvent(m) \in Event /\ ModeEvent(m) # DpmsEvent
                        /\ ModeEvent(m) # ReadyEvent
    /\ DpmsEvent.type # "mode" /\ ReadyEvent.type # "mode"
    /\ \A m, n \in Modes : ModeEvent(m) = ModeEvent(n) => m = n
  BY DEF DpmsEvent, ReadyEvent, ModeEvent, Event

\* A step other than a new mode tells the client nothing new.
NothingTold ==
    \A m \in Modes : Told(buffers, OnTheWay, m)' => Told(buffers, OnTheWay, m)

LEMMA SendTells ==
    ASSUME Painter, NEW e \in Event, SendEvent(e), UNCHANGED <<batch, buffers>>
    PROVE  \A m \in Modes : Told(buffers, OnTheWay, m)' =>
              \/ connected /\ e = ModeEvent(m)
              \/ Told(buffers, OnTheWay, m) /\ ~(connected /\ e.type = "mode")
<1> SUFFICES ASSUME NEW m \in Modes, Told(buffers, OnTheWay, m)'
             PROVE  \/ connected /\ e = ModeEvent(m)
                    \/ Told(buffers, OnTheWay, m) /\ ~(connected /\ e.type = "mode")
  OBVIOUS
<1>1. Told(buffers, OnTheWay', m)
  OBVIOUS
<1>2. CASE connected
  <2>1. OnTheWay' = Append(OnTheWay, e) /\ OnTheWay \in Seq(Event)
    BY <1>2, SendStep, EventsTyped
  <2>2. Told(buffers, Append(OnTheWay, e), m)
    BY <1>1, <2>1
  <2>3. e = ModeEvent(m) \/ (e.type # "mode" /\ Told(buffers, OnTheWay, m))
    BY <2>1, <2>2, ToldAppend
  <2>4. QED
    BY <1>2, <2>3
<1>3. CASE ~connected
  BY <1>1, <1>3, SendStep DEF OnTheWay
<1>4. QED
  BY <1>2, <1>3

\* How a step treats the events on their way to the client.
Silent == UNCHANGED <<events, batch, buffers>>
Sends(e) == SendEvent(e) /\ UNCHANGED <<batch, buffers>>
Announces ==
    /\ commit.at = "mode" /\ commit.announce /\ scanout # NoMode
    /\ Sends(ModeEvent(commit.fb))

LEMMA StepKinds ==
    ASSUME Painter, [Next]_vars
    PROVE  \/ Silent \/ Sends(DpmsEvent) \/ Sends(ReadyEvent) \/ (NotifyMode /\ Announces)
           \/ SendEventsWork \/ ReadEvents \/ HandleEvent \/ Disconnect
<1> USE DEF Silent, Sends, Announces, events, client
<1>1. CASE \/ \E fb \in Modes \cup {NoMode}, flip \in BOOLEAN, d \in SUBSET Tiles :
                 StartCommit(fb, flip, d)
           \/ \E d \in SUBSET Tiles : StartCursorCommit(d)
  BY <1>1 DEF StartCommit, StartCursorCommit
<1>2. CASE AttachPlane \/ NotifyDpms \/ UpdateReady
  BY <1>2 DEF AttachPlane, NotifyDpms, UpdateReady
<1>3. CASE NotifyMode
  BY <1>3 DEF NotifyMode
<1>4. CASE SetScanout \/ MarkDamage \/ MarkAll \/ UpdateCursor \/ BeginFlush
           \/ ClearNeedsFull \/ SetVblank
  BY <1>4 DEF SetScanout, MarkDamage, MarkAll, UpdateCursor, BeginFlush, ClearNeedsFull,
              SetVblank
<1>5. CASE Update \/ EndEvents \/ GrabTake \/ GrabCopy(TRUE) \/ GrabCopy(FALSE) \/ Connect
  BY <1>5 DEF Update, EndEvents, GrabTake, GrabCopy, Connect
<1>6. CASE UNCHANGED vars
  BY <1>6 DEF vars
<1>7. QED
  BY <1>1, <1>2, <1>3, <1>4, <1>5, <1>6 DEF Next, CommitStep, ClientStep

\* No step spoils the events.
LEMMA EventsNext ==
    ASSUME Painter, [Next]_vars
    PROVE  EventsOK' /\ batch' \in Seq(Event)
<1>1. EventsOK /\ batch \in Seq(Event)
  BY EventsTyped
<1>2. CASE Silent
  BY <1>1, <1>2 DEF Silent, events, EventsOK
<1>3. ASSUME NEW e \in Event, Sends(e) PROVE EventsOK' /\ batch' \in Seq(Event)
  BY <1>1, <1>3, SendStep DEF Sends
<1>4. CASE NotifyMode /\ Announces
  <2>1. ModeEvent(commit.fb) \in Event
    BY <1>4, PlainEvents DEF Announces, Painter, CommitOK, CommitType
  <2>2. QED
    BY <1>3, <1>4, <2>1 DEF Announces
<1>5. CASE SendEventsWork
  BY <1>1, <1>5, FlushStep DEF SendEventsWork, client, EventsOK
<1>6. CASE ReadEvents
  <2>1. <<>> \in Seq(Event) /\ Len(<<>>) <= EventSpace
    BY EmptySeq, PainterAssumption
  <2>2. QED
    BY <1>1, <1>6, <2>1 DEF ReadEvents, EventsOK
<1>7. CASE HandleEvent
  <2>1. batch' \in Seq(Event)
    BY <1>1, <1>7, HeadTailProperties DEF HandleEvent
  <2>2. QED
    BY <1>1, <1>7, <2>1 DEF HandleEvent, events, EventsOK
<1>8. CASE Disconnect
  <2>1. <<>> \in Seq(Event) /\ Len(<<>>) <= EventSpace
    BY EmptySeq, PainterAssumption
  <2>2. QED
    BY <1>1, <1>8, <2>1 DEF Disconnect, EventsOK
<1>9. QED
  BY <1>2, <1>3, <1>4, <1>5, <1>6, <1>7, <1>8, StepKinds, PlainEvents

\* The client's end makes it forget everything.
LEMMA DisconnectTells ==
    ASSUME Painter, Disconnect
    PROVE  \A m \in Modes : ~Told(buffers, OnTheWay, m)'
<1>1. batch' = <<>> /\ pending' = <<>> /\ queue' = <<>> /\ buffers' = NoMode
  BY DEF Disconnect, Painter, ClientOK
<1>2. OnTheWay' = <<>> /\ Len(<<>>) = 0
  BY <1>1, EmptySeq, ConcatEmptySeq DEF OnTheWay
<1>3. QED
  BY <1>1, <1>2, PainterAssumption DEF Told

\* A mode that is announced is the last the client is told.
LEMMA AnnounceTells ==
    ASSUME Painter, Announces, connected
    PROVE  \A m \in Modes : Told(buffers, OnTheWay, m)' => m = commit.fb
<1>1. commit.fb \in Modes
  BY DEF Announces, Painter, CommitOK, CommitType
<1>2. ModeEvent(commit.fb) \in Event /\ ModeEvent(commit.fb).type = "mode"
  BY <1>1, PlainEvents DEF ModeEvent
<1>3. \A m \in Modes : Told(buffers, OnTheWay, m)' => ModeEvent(commit.fb) = ModeEvent(m)
  BY <1>2, SendTells DEF Announces, Sends
<1>4. QED
  BY <1>1, <1>3, PlainEvents

\* Only mode_changed_notify tells the client something new.
LEMMA ToldNext ==
    ASSUME Painter, [Next]_vars
    PROVE  \/ NothingTold
           \/ /\ NotifyMode /\ Announces /\ connected
              /\ \A m \in Modes : Told(buffers, OnTheWay, m)' => m = commit.fb
<1>1. EventsOK /\ batch \in Seq(Event) /\ OnTheWay \in Seq(Event)
  BY EventsTyped
<1>2. CASE Silent
  <2>1. OnTheWay' = OnTheWay
    BY <1>2 DEF Silent, events, OnTheWay
  <2>2. QED
    BY <1>2, <2>1 DEF Silent, NothingTold
<1>3. CASE Sends(DpmsEvent) \/ Sends(ReadyEvent)
  BY <1>3, SendTells, PlainEvents DEF Sends, NothingTold
<1>4. CASE NotifyMode /\ Announces
  <2>1. connected => \A m \in Modes : Told(buffers, OnTheWay, m)' => m = commit.fb
    BY <1>4, AnnounceTells
  <2>2. ~connected => OnTheWay' = OnTheWay /\ UNCHANGED buffers
    BY <1>4 DEF Announces, Sends, SendEvent, events, OnTheWay
  <2>3. QED
    BY <1>4, <2>1, <2>2 DEF NothingTold
<1>5. CASE SendEventsWork
  <2>1. /\ queue' \in Seq(Event) /\ pending' \in Seq(Event)
        /\ queue' \o pending' = queue \o pending
    BY <1>1, <1>5, FlushStep DEF SendEventsWork, EventsOK
  <2>2. (batch \o queue) \o pending = batch \o (queue \o pending)
    BY <1>1, ConcatAssociative DEF EventsOK
  <2>3. queue' \in Seq(Event) /\ pending' \in Seq(Event) /\ batch \in Seq(Event)
    BY <1>1, <2>1
  <2>4. (batch \o queue') \o pending' = batch \o (queue' \o pending')
    BY <2>3, ConcatAssociative
  <2>5. UNCHANGED <<batch, buffers>>
    BY <1>5 DEF SendEventsWork, client
  <2>6. OnTheWay' = OnTheWay
    BY <2>1, <2>2, <2>4, <2>5 DEF OnTheWay
  <2>7. QED
    BY <2>5, <2>6 DEF NothingTold
<1>6. CASE ReadEvents
  <2>1. batch = <<>> /\ batch' = queue /\ queue' = <<>> /\ UNCHANGED <<pending, buffers>>
    BY <1>6 DEF ReadEvents, Painter, ClientOK
  <2>2. queue \o <<>> = queue /\ <<>> \o queue = queue
    BY <1>1, ConcatEmptySeq DEF EventsOK
  <2>3. OnTheWay' = OnTheWay
    BY <2>1, <2>2 DEF OnTheWay
  <2>4. QED
    BY <2>1, <2>3 DEF NothingTold
<1>7. CASE HandleEvent
  <2>1. /\ batch # <<>> /\ batch' = Tail(batch) /\ UNCHANGED <<queue, pending>>
        /\ buffers' = IF Head(batch).type = "mode" THEN Head(batch).mode ELSE buffers
    BY <1>7 DEF HandleEvent, events
  <2> DEFINE r == queue \o pending
  <2>2. r \in Seq(Event) /\ OnTheWay = batch \o r
    BY <1>1, ConcatProperties, ConcatAssociative DEF EventsOK, OnTheWay
  <2>3. Tail(batch) \in Seq(Event) /\ queue \in Seq(Event) /\ pending \in Seq(Event)
    BY <1>1, <2>1, HeadTailProperties DEF EventsOK
  <2>4. OnTheWay' = Tail(batch) \o r
    BY <2>1, <2>3, ConcatAssociative DEF OnTheWay
  <2> HIDE DEF r
  <2>5. /\ Len(batch) \in Nat \ {0} /\ Len(r) \in Nat /\ Len(OnTheWay) = Len(batch) + Len(r)
        /\ OnTheWay \in Seq(Event) /\ OnTheWay[1] = batch[1] /\ Head(batch) = batch[1]
    BY <1>1, <2>1, <2>2, EmptySeq, LenProperties, ConcatProperties, HeadTailProperties
  <2>6. OnTheWay # <<>> /\ Head(OnTheWay) = Head(batch)
    BY <2>5, EmptySeq, HeadTailProperties
  <2>7. Tail(OnTheWay) = Tail(batch) \o r
    BY <1>1, <2>1, <2>2, ConcatProperties, HeadTailProperties
  <2>8. ASSUME NEW m \in Modes, Told(buffers, OnTheWay, m)'
        PROVE  Told(buffers, OnTheWay, m)
    <3>1. Told(IF Head(OnTheWay).type = "mode" THEN Head(OnTheWay).mode ELSE buffers,
               Tail(OnTheWay), m)
      BY <2>1, <2>4, <2>6, <2>7, <2>8
    <3>2. QED
      BY <2>5, <2>6, <3>1, ToldTail
  <2>9. QED
    BY <2>8 DEF NothingTold
<1>8. CASE Disconnect
  BY <1>8, DisconnectTells DEF NothingTold
<1>9. QED
  BY <1>2, <1>3, <1>4, <1>5, <1>6, <1>7, <1>8, StepKinds

\* Nobody is told anything while nobody is connected.
LEMMA NobodyTold ==
    ASSUME Painter, ~connected, NEW m \in Modes
    PROVE  ~Told(buffers, OnTheWay, m)
<1>1. batch = <<>> /\ pending = <<>> /\ queue = <<>> /\ buffers = NoMode
  BY DEF Painter, PainterConsistent, TypeOK, ClientOK
<1>2. OnTheWay = <<>> /\ Len(<<>>) = 0
  BY <1>1, EmptySeq, ConcatEmptySeq DEF OnTheWay
<1>3. QED
  BY <1>1, <1>2, PainterAssumption DEF Told

\* Every step keeps what is said of commits.
LEMMA CommitNext == ASSUME Painter, [Next]_vars PROVE CommitOK'
<1> USE DEF CommitOK, GoTo, Marked
<1>1. CommitOK /\ plane \in Modes \cup {NoMode}
  BY DEF Painter, PainterConsistent, TypeOK
<1>2. ASSUME NEW fb \in Modes \cup {NoMode}, NEW flip \in BOOLEAN, NEW d \in SUBSET Tiles,
             StartCommit(fb, flip, d)
      PROVE  CommitOK'
  <2>1. commit' = [at |-> "attach", fb |-> fb, old |-> plane, flip |-> flip, damage |-> d,
                   announce |-> FALSE, dpms |-> FALSE, event |-> TRUE]
    BY <1>2 DEF StartCommit, NoCommit
  <2>2. /\ plane' = fb /\ UNCHANGED needsFull
        /\ fb # NoMode \/ plane # NoMode
        /\ fb # plane => flip /\ d = (IF fb = NoMode THEN {} ELSE Tiles)
    BY <1>2 DEF StartCommit, painter
  <2>3. commit' \in CommitType
    BY <1>1, <2>1 DEF CommitType
  <2>4. QED
    BY <2>1, <2>2, <2>3
<1>3. ASSUME NEW d \in SUBSET Tiles, StartCursorCommit(d) PROVE CommitOK'
  BY <1>1, <1>3 DEF StartCursorCommit, NoCommit, CommitType, painter
<1>4. CASE AttachPlane
  BY <1>1, <1>4 DEF AttachPlane, CommitType
<1>5. CASE SetScanout
  BY <1>1, <1>5 DEF SetScanout, CommitType, client, history
<1>6. CASE MarkDamage \/ MarkAll \/ UpdateCursor
  BY <1>1, <1>6 DEF MarkDamage, MarkAll, UpdateCursor, CommitType
<1>7. CASE BeginFlush
  BY <1>1, <1>7 DEF BeginFlush, CommitType
<1>8. CASE NotifyMode \/ ClearNeedsFull \/ NotifyDpms \/ SetVblank
  BY <1>1, <1>8 DEF NotifyMode, ClearNeedsFull, NotifyDpms, SetVblank, CommitType
<1>9. CASE UpdateReady
  BY <1>1, <1>9, PainterAssumption DEF UpdateReady, NoCommit, CommitType
<1>10. CASE Connect
  BY <1>1, <1>10 DEF Connect, CommitType
<1>11. CASE UNCHANGED <<plane, commit, needsFull>>
  BY <1>1, <1>11
<1>12. QED
  BY <1>2, <1>3, <1>4, <1>5, <1>6, <1>7, <1>8, <1>9, <1>10, <1>11
  DEF Next, CommitStep, ClientStep, vars, painter, Update, ReadEvents, HandleEvent, EndEvents,
      GrabTake, GrabCopy, SendEventsWork, Disconnect

\* Every step keeps what is said of the client.
LEMMA ClientNext == ASSUME Painter, [Next]_vars PROVE ClientOK'
<1>1. /\ ClientOK /\ EventsOK /\ batch \in Seq(Event) /\ connected = (pc # "off")
      /\ scanout \in Modes \cup {NoMode} /\ dirts \subseteq Tiles /\ held \in BOOLEAN
  BY EventsTyped DEF Painter, PainterConsistent, TypeOK
<1>2. ASSUME NEW e \in Event, SendEvent(e), UNCHANGED client PROVE ClientOK'
  <2>1. ~connected => UNCHANGED <<pending, worker, queue>>
    BY <1>2 DEF SendEvent, events
  <2>2. connected => pc # "off"
    BY <1>1
  <2>3. QED
    BY <1>1, <1>2, <2>1, <2>2 DEF ClientOK, client
<1>3. CASE UNCHANGED <<events, client>>
  BY <1>1, <1>3 DEF ClientOK, events, client
<1>4. CASE AttachPlane \/ NotifyDpms \/ UpdateReady
  BY <1>2, <1>3, <1>4, PlainEvents DEF AttachPlane, NotifyDpms, UpdateReady
<1>5. CASE NotifyMode
  <2>1. commit.announce /\ commit.at = "mode" => commit.fb \in Modes
    BY DEF Painter, CommitOK, CommitType
  <2>2. QED
    BY <1>2, <1>3, <1>5, <2>1, PlainEvents DEF NotifyMode
<1>6. CASE SendEventsWork
  BY <1>1, <1>6 DEF SendEventsWork, ClientOK, client
<1>7. CASE Connect \/ Disconnect \/ Update \/ ReadEvents \/ HandleEvent \/ EndEvents
  BY <1>1, <1>7
  DEF Connect, Disconnect, Update, ReadEvents, HandleEvent, EndEvents, ClientOK, events
<1>8. CASE GrabTake
  BY <1>1, <1>8 DEF GrabTake, ClientOK, GrabType, events
<1>9. CASE GrabCopy(TRUE) \/ GrabCopy(FALSE)
  <2>1. /\ grab' = NoGrab /\ UNCHANGED <<batch, buffers, pending, queue, worker>>
        /\ pc' = IF batch = <<>> THEN "loop" ELSE "events"
    BY <1>9 DEF GrabCopy, events
  <2>2. NoGrab \in GrabType
    BY DEF NoGrab, GrabType
  <2>3. QED
    BY <1>1, <2>1, <2>2 DEF ClientOK
<1>10. CASE \/ \E fb \in Modes \cup {NoMode}, flip \in BOOLEAN, d \in SUBSET Tiles :
                  StartCommit(fb, flip, d)
            \/ \E d \in SUBSET Tiles : StartCursorCommit(d)
  BY <1>3, <1>10 DEF StartCommit, StartCursorCommit
<1>11. CASE SetScanout \/ MarkDamage \/ MarkAll \/ UpdateCursor \/ BeginFlush
            \/ ClearNeedsFull \/ SetVblank
  BY <1>3, <1>11
  DEF SetScanout, MarkDamage, MarkAll, UpdateCursor, BeginFlush, ClearNeedsFull, SetVblank
<1>12. QED
  BY <1>3, <1>4, <1>5, <1>6, <1>7, <1>8, <1>9, <1>10, <1>11
  DEF Next, CommitStep, ClientStep, vars

\* The tiles: what the steps do to what is dirty, and what the client is behind.
DamageOK ==
    /\ dirts \subseteq Tiles /\ behind \subseteq Tiles /\ lost \subseteq Tiles
    /\ grab.tiles \subseteq Tiles /\ commit.damage \subseteq Tiles
    /\ DamageIsTracked

LEMMA DamageNext == ASSUME Painter, [Next]_vars PROVE DamageOK'
<1> USE DEF DamageOK, DamageIsTracked
<1>1. /\ DamageOK /\ commit \in CommitType /\ grab \in GrabType
      /\ pc # "copy" => grab.tiles = {}
      /\ commit.damage # {} => commit.at \in {"attach", "scanout", "damage", "rest", "cursor"}
      /\ commit.at = "attach" /\ commit.fb = NoMode => commit.damage = {}
  BY DEF Painter, PainterConsistent, TypeOK, CommitOK, ClientOK, NoGrab
<1>2. ASSUME NEW fb \in Modes \cup {NoMode}, NEW flip \in BOOLEAN, NEW d \in SUBSET Tiles,
             StartCommit(fb, flip, d)
      PROVE  DamageOK'
  BY <1>1, <1>2 DEF StartCommit, NoCommit, painter, client
<1>3. ASSUME NEW d \in SUBSET Tiles, StartCursorCommit(d) PROVE DamageOK'
  BY <1>1, <1>3 DEF StartCursorCommit, NoCommit, painter, client
<1>4. CASE MarkDamage \/ MarkAll \/ UpdateCursor
  <2>1. commit'.damage = {} /\ UNCHANGED <<grab, behind>>
    BY <1>1, <1>4 DEF MarkDamage, MarkAll, UpdateCursor, Marked, CommitType, client
  <2>2. CASE MarkDirty(commit.damage)
    BY <1>1, <2>1, <2>2 DEF MarkDirty
  <2>3. CASE MarkDirty(Tiles)
    BY <1>1, <2>1, <2>3 DEF MarkDirty
  <2>4. CASE lost' = lost \cup (commit.damage \ dirts) /\ UNCHANGED dirts
    BY <1>1, <2>1, <2>4
  <2>5. QED
    BY <1>4, <2>2, <2>3, <2>4 DEF MarkDamage, MarkAll, UpdateCursor
<1>5. CASE AttachPlane \/ SetScanout \/ BeginFlush \/ NotifyMode \/ ClearNeedsFull
           \/ NotifyDpms \/ SetVblank
  <2>1. commit'.damage = commit.damage
    BY <1>1, <1>5
    DEF AttachPlane, SetScanout, BeginFlush, NotifyMode, ClearNeedsFull, NotifyDpms, SetVblank,
        GoTo, CommitType
  <2>2. QED
    BY <1>1, <1>5, <2>1
    DEF AttachPlane, SetScanout, BeginFlush, NotifyMode, ClearNeedsFull, NotifyDpms, SetVblank,
        painter, client, history
<1>6. CASE UpdateReady
  BY <1>1, <1>6 DEF UpdateReady, NoCommit, client, history
<1>7. CASE GrabTake
  BY <1>1, <1>7 DEF GrabTake, history
<1>8. CASE GrabCopy(TRUE) \/ GrabCopy(FALSE)
  BY <1>1, <1>8 DEF GrabCopy, Fresh, NoGrab, painter
<1>9. CASE Disconnect
  BY <1>1, <1>9 DEF Disconnect
<1>10. CASE UNCHANGED <<dirts, behind, lost, grab, commit>>
  BY <1>1, <1>10
<1>11. QED
  BY <1>2, <1>3, <1>4, <1>5, <1>6, <1>7, <1>8, <1>9, <1>10
  DEF Next, CommitStep, ClientStep, vars, painter, client, history, Update, ReadEvents,
      HandleEvent, EndEvents, SendEventsWork, Connect

\* Every step keeps the types.
LEMMA TypeNext == ASSUME Painter, [Next]_vars PROVE TypeOK'
<1>1. /\ connected \in BOOLEAN /\ requested \in BOOLEAN /\ needsFull \in BOOLEAN
      /\ held \in BOOLEAN /\ scanout \in Modes \cup {NoMode} /\ plane \in Modes \cup {NoMode}
      /\ buffers \in Modes \cup {NoMode} /\ batch \in Seq(Event)
      /\ commit \in CommitType
  BY DEF Painter, PainterConsistent, TypeOK, CommitOK
<1>2. pc \in {"off", "loop", "events", "grab", "copy"} /\ connected = (pc # "off")
  BY DEF Painter, PainterConsistent, TypeOK
<1>3. /\ requested' \in BOOLEAN /\ needsFull' \in BOOLEAN /\ held' \in BOOLEAN
      /\ scanout' \in Modes \cup {NoMode} /\ plane' \in Modes \cup {NoMode}
  <2>1. CASE \/ \E fb \in Modes \cup {NoMode}, flip \in BOOLEAN, d \in SUBSET Tiles :
                   StartCommit(fb, flip, d)
             \/ \E d \in SUBSET Tiles : StartCursorCommit(d)
    BY <1>1, <2>1 DEF StartCommit, StartCursorCommit, painter
  <2>2. CASE CommitStep
    BY <1>1, <2>2
    DEF CommitStep, AttachPlane, SetScanout, MarkDamage, MarkAll, UpdateCursor, BeginFlush,
        NotifyMode, ClearNeedsFull, NotifyDpms, SetVblank, UpdateReady, painter, CommitType
  <2>3. CASE ClientStep
    BY <1>1, <2>3
    DEF ClientStep, Update, ReadEvents, HandleEvent, EndEvents, GrabTake, GrabCopy, painter
  <2>4. CASE SendEventsWork \/ Connect \/ Disconnect \/ UNCHANGED vars
    BY <1>1, <2>4 DEF SendEventsWork, Connect, Disconnect, painter, vars
  <2>5. QED
    BY <2>1, <2>2, <2>3, <2>4 DEF Next
<1>4. /\ pc' \in {"off", "loop", "events", "grab", "copy"} /\ buffers' \in Modes \cup {NoMode}
      /\ connected' \in BOOLEAN /\ (connected' <=> pc' # "off")
  <2>1. CASE HandleEvent
    <3>1. Head(batch) \in Event
      BY <1>1, <2>1, HeadTailProperties DEF HandleEvent
    <3>2. Head(batch).type = "mode" => Head(batch).mode \in Modes
      BY <3>1 DEF Event
    <3>3. UNCHANGED connected /\ pc = "events"
      BY <2>1 DEF HandleEvent, painter
    <3>4. QED
      BY <1>1, <1>2, <2>1, <3>2, <3>3 DEF HandleEvent
  <2>2. CASE Update \/ ReadEvents \/ EndEvents \/ GrabTake \/ GrabCopy(TRUE) \/ GrabCopy(FALSE)
    <3>1. UNCHANGED <<connected, buffers>> /\ pc # "off"
      BY <2>2 DEF Update, ReadEvents, EndEvents, GrabTake, GrabCopy, painter
    <3>2. pc' \in {"loop", "events", "grab", "copy"}
      BY <2>2 DEF Update, ReadEvents, EndEvents, GrabTake, GrabCopy
    <3>3. QED
      BY <1>1, <1>2, <3>1, <3>2
  <2>3. CASE Connect \/ Disconnect
    BY <1>1, <2>3 DEF Connect, Disconnect
  <2>4. CASE UNCHANGED <<pc, buffers, connected>>
    BY <1>1, <1>2, <2>4
  <2>5. QED
    BY <2>1, <2>2, <2>3, <2>4
    DEF Next, CommitStep, ClientStep, AttachPlane, SetScanout, MarkDamage, MarkAll, UpdateCursor,
        BeginFlush, NotifyMode, ClearNeedsFull, NotifyDpms, SetVblank, UpdateReady, StartCommit,
        StartCursorCommit, SendEventsWork, painter, client, vars
<1>5. connected' = (pc' # "off")
  BY <1>4
<1>6. EventsOK' /\ batch' \in Seq(Event)
  BY EventsNext
<1>7. DamageOK'
  BY DamageNext
<1>8. QED
  BY <1>3, <1>4, <1>5, <1>6, <1>7 DEF TypeOK, EventsOK, DamageOK

\* An update that was asked for while nothing was dirty is announced by the
\* commit that makes something dirty.
LEMMA UpdateNext == ASSUME Painter, [Next]_vars PROVE UpdateNotLost'
<1> USE DEF UpdateNotLost
<1>1. UpdateNotLost /\ commit \in CommitType
  BY DEF Painter, PainterConsistent, CommitOK
<1>2. CASE \/ \E fb \in Modes \cup {NoMode}, flip \in BOOLEAN, d \in SUBSET Tiles :
                 StartCommit(fb, flip, d)
           \/ \E d \in SUBSET Tiles : StartCursorCommit(d)
  BY <1>2 DEF StartCommit, StartCursorCommit, NoCommit
<1>3. CASE UpdateReady
  BY <1>3 DEF UpdateReady
<1>4. CASE AttachPlane \/ SetScanout \/ MarkDamage \/ MarkAll \/ UpdateCursor \/ BeginFlush
           \/ NotifyMode \/ ClearNeedsFull \/ NotifyDpms \/ SetVblank
  BY <1>1, <1>4
  DEF AttachPlane, SetScanout, MarkDamage, MarkAll, UpdateCursor, BeginFlush, NotifyMode,
      ClearNeedsFull, NotifyDpms, SetVblank, GoTo, Marked, CommitType
<1>5. CASE Update
  BY <1>1, <1>5 DEF Update, GrabAtOnce
<1>6. CASE GrabTake \/ Disconnect
  BY <1>6 DEF GrabTake, Disconnect
<1>7. CASE UNCHANGED <<requested, dirts, commit>>
  BY <1>1, <1>7
<1>8. QED
  BY <1>2, <1>3, <1>4, <1>5, <1>6, <1>7
  DEF Next, CommitStep, ClientStep, vars, painter, client, ReadEvents, HandleEvent, EndEvents,
      GrabCopy, SendEventsWork, Connect

\* A vblank event changes hands and is sent once.
LEMMA VblankNext == ASSUME Painter, [Next]_vars PROVE VblankAccounted'
<1> USE DEF VblankAccounted, FlipInCommit, Count
<1>1. /\ VblankAccounted /\ commit \in CommitType /\ grab \in GrabType /\ held \in BOOLEAN
      /\ pc # "copy" => ~grab.vblank
      /\ commit.at = "idle" => ~commit.event
      /\ pc = "off" => ~connected
  BY DEF Painter, PainterConsistent, TypeOK, CommitOK, ClientOK, NoGrab, NoCommit
<1>2. CASE \/ \E fb \in Modes \cup {NoMode}, flip \in BOOLEAN, d \in SUBSET Tiles :
                 StartCommit(fb, flip, d)
           \/ \E d \in SUBSET Tiles : StartCursorCommit(d)
  <2>1. /\ commit.at = "idle" /\ UNCHANGED <<held, grab, connected, dirts>>
        /\ \/ commit'.event = TRUE /\ commit'.at = "attach" /\ owed' = owed + 1
           \/ commit'.event = FALSE /\ owed' = owed
    BY <1>2 DEF StartCommit, StartCursorCommit, NoCommit, painter, client
  <2>2. Count(held) \in Nat /\ Count(grab.vblank) \in Nat
    OBVIOUS
  <2>3. QED
    BY <1>1, <2>1, <2>2
<1>3. CASE UpdateReady
  BY <1>1, <1>3 DEF UpdateReady, NoCommit, client, history
<1>4. CASE SetVblank
  BY <1>1, <1>4 DEF SetVblank, GoTo, CommitType, client
<1>5. CASE AttachPlane \/ SetScanout \/ MarkDamage \/ MarkAll \/ UpdateCursor \/ BeginFlush
           \/ NotifyMode \/ ClearNeedsFull \/ NotifyDpms
  <2>1. /\ commit'.event = commit.event /\ commit'.at \notin {"idle", "ready"}
        /\ commit.at \notin {"idle", "ready"}
        /\ UNCHANGED <<held, owed, grab, connected>>
    BY <1>1, <1>5
    DEF AttachPlane, SetScanout, MarkDamage, MarkAll, UpdateCursor, BeginFlush, NotifyMode,
        ClearNeedsFull, NotifyDpms, GoTo, Marked, CommitType, painter, client, history
  <2>2. dirts # {} => dirts' # {}
    <3>1. dirts \subseteq dirts' \/ UNCHANGED dirts
      BY <1>5
      DEF AttachPlane, SetScanout, MarkDamage, MarkAll, UpdateCursor, BeginFlush, NotifyMode,
          ClearNeedsFull, NotifyDpms, MarkDirty, painter
    <3>2. QED
      BY <3>1
  <2>3. QED
    BY <1>1, <2>1, <2>2
<1>6. CASE GrabTake
  BY <1>1, <1>6 DEF GrabTake, history
<1>7. CASE GrabCopy(TRUE) \/ GrabCopy(FALSE)
  BY <1>1, <1>7 DEF GrabCopy, NoGrab, painter
<1>8. CASE Connect \/ Disconnect
  BY <1>1, <1>8 DEF Connect, Disconnect, history
<1>9. CASE UNCHANGED <<held, owed, grab, commit, connected, dirts>>
  BY <1>1, <1>9
<1>10. QED
  BY <1>2, <1>3, <1>4, <1>5, <1>6, <1>7, <1>8, <1>9
  DEF Next, CommitStep, ClientStep, vars, painter, client, history, Update, ReadEvents,
      HandleEvent, EndEvents, SendEventsWork

\* The scanout buffer follows the plane.
LEMMA ShownNext == ASSUME Painter, [Next]_vars PROVE ShownOK'
<1> USE DEF ShownOK
<1>1. /\ ShownOK /\ CommitOK /\ commit \in CommitType
      /\ commit.at # "idle" => commit.fb = plane
      /\ commit.at \in {"attach", "scanout"} => commit.flip \/ commit.fb = commit.old
      /\ plane \in Modes \cup {NoMode} /\ commit.at = "scanout" => commit.fb # NoMode
  BY DEF Painter, PainterConsistent, TypeOK, CommitOK
<1>2. ASSUME NEW fb \in Modes \cup {NoMode}, NEW flip \in BOOLEAN, NEW d \in SUBSET Tiles,
             StartCommit(fb, flip, d)
      PROVE  ShownOK'
  BY <1>1, <1>2 DEF StartCommit, NoCommit, painter
<1>3. CASE \E d \in SUBSET Tiles : StartCursorCommit(d)
  BY <1>1, <1>3 DEF StartCursorCommit, NoCommit, painter
<1>4. CASE AttachPlane
  BY <1>1, <1>4 DEF AttachPlane, GoTo, CommitType
<1>5. CASE SetScanout
  BY <1>1, <1>5 DEF SetScanout, GoTo, CommitType
<1>6. CASE MarkDamage \/ MarkAll \/ UpdateCursor \/ BeginFlush \/ NotifyMode \/ ClearNeedsFull
           \/ NotifyDpms \/ SetVblank \/ UpdateReady
  <2>1. UNCHANGED <<scanout, plane>>
    BY <1>6
    DEF MarkDamage, MarkAll, UpdateCursor, BeginFlush, NotifyMode, ClearNeedsFull, NotifyDpms,
        SetVblank, UpdateReady, painter
  <2>2. commit.at \notin {"attach", "scanout"}
    BY <1>6
    DEF MarkDamage, MarkAll, UpdateCursor, BeginFlush, NotifyMode, ClearNeedsFull, NotifyDpms,
        SetVblank, UpdateReady
  <2>3. commit'.at \notin {"attach", "scanout"}
    <3>1. CASE UpdateReady
      BY <3>1 DEF UpdateReady, NoCommit
    <3>2. CASE MarkDamage \/ MarkAll \/ UpdateCursor \/ BeginFlush
      BY <1>1, <3>2 DEF MarkDamage, MarkAll, UpdateCursor, BeginFlush, Marked, CommitType
    <3>3. CASE NotifyMode \/ ClearNeedsFull \/ NotifyDpms \/ SetVblank
      BY <1>1, <3>3 DEF NotifyMode, ClearNeedsFull, NotifyDpms, SetVblank, GoTo, CommitType
    <3>4. QED
      BY <1>6, <3>1, <3>2, <3>3
  <2>4. QED
    BY <1>1, <2>1, <2>2, <2>3
<1>7. CASE Disconnect
  BY <1>7 DEF Disconnect
<1>8. CASE UNCHANGED <<scanout, plane, commit>>
  BY <1>1, <1>8
<1>9. QED
  BY <1>2, <1>3, <1>4, <1>5, <1>6, <1>7, <1>8
  DEF Next, CommitStep, ClientStep, vars, painter, client, Update, ReadEvents, HandleEvent,
      EndEvents, GrabTake, GrabCopy, SendEventsWork, Connect

\* A mode is told when the scanout buffer has it, and the scanout buffer gets
\* another one only with a commit that will tell it.
LEMMA ToldStep == ASSUME Painter, [Next]_vars PROVE ToldOK'
<1> USE DEF ToldOK, WillAnnounce
<1>1. /\ ToldOK /\ ShownOK /\ commit \in CommitType
      /\ commit.at # "idle" => commit.fb = plane
      /\ commit.at \in {"attach", "scanout"} => commit.flip \/ commit.fb = commit.old
      /\ commit.at \in {"scanout", "damage", "rest", "cursor"} => commit.fb # NoMode
      /\ commit.at = "scanout" /\ commit.old = NoMode => needsFull
      /\ commit.at = "mode" /\ commit.announce => commit.fb # NoMode
      /\ NoMode \notin Modes
  BY PainterAssumption DEF Painter, CommitOK
<1>2. CASE NotifyMode /\ Announces /\ connected
  <2>1. UNCHANGED scanout /\ scanout = commit.fb
    BY <1>1, <1>2 DEF NotifyMode, Announces, ShownOK, painter
  <2>2. QED
    BY <1>1, <1>2, <2>1, AnnounceTells
<1>3. CASE Disconnect
  BY <1>3, DisconnectTells
<1>4. ASSUME NothingTold,
             \A m \in Modes : Told(buffers, OnTheWay, m) =>
                /\ scanout' # NoMode
                /\ scanout' = m \/ (commit'.at \in {"damage", "rest", "flush"} /\ WillAnnounce')
                                \/ (commit'.at = "mode" /\ commit'.announce)
      PROVE  ToldOK'
  BY <1>4 DEF NothingTold
<1>5. ASSUME NothingTold, UNCHANGED scanout, commit.at \notin {"damage", "rest", "flush", "mode"}
      PROVE  ToldOK'
  BY <1>1, <1>4, <1>5
<1>6. ASSUME NothingTold, SetScanout PROVE ToldOK'
  <2>1. commit.at = "scanout" /\ commit.fb # NoMode /\ UNCHANGED needsFull
    BY <1>1, <1>6 DEF SetScanout
  <2>2. CASE UNCHANGED scanout
    BY <1>5, <1>6, <2>1, <2>2
  <2>3. CASE scanout' = commit.fb /\ commit' = [commit EXCEPT !.at = "damage"]
    <3>1. CASE commit.fb # commit.old \/ needsFull
      BY <1>1, <1>4, <1>6, <2>1, <2>3, <3>1 DEF CommitType
    <3>2. CASE commit.fb = commit.old
      BY <1>1, <1>4, <1>6, <2>1, <2>3, <3>2 DEF ShownOK, CommitType
    <3>3. QED
      BY <3>1, <3>2
  <2>4. QED
    BY <1>6, <2>2, <2>3 DEF SetScanout, GoTo
<1>7. ASSUME NothingTold, MarkDamage \/ MarkAll \/ BeginFlush PROVE ToldOK'
  <2>1. UNCHANGED <<scanout, needsFull>> /\ commit.at \in {"damage", "rest", "flush"}
    BY <1>7 DEF MarkDamage, MarkAll, BeginFlush, painter
  <2>2. CASE BeginFlush
    <3>1. commit'.at = "mode" /\ (WillAnnounce => commit'.announce)
      BY <1>1, <2>2 DEF BeginFlush, CommitType
    <3>2. QED
      BY <1>1, <1>4, <1>7, <2>1, <3>1
  <2>3. CASE MarkDamage \/ MarkAll
    <3>1. /\ commit'.at \in {"rest", "flush"} /\ commit'.fb = commit.fb
          /\ commit'.old = commit.old
      BY <1>1, <2>3 DEF MarkDamage, MarkAll, Marked, CommitType
    <3>2. QED
      BY <1>1, <1>4, <1>7, <2>1, <3>1
  <2>4. QED
    BY <1>7, <2>2, <2>3
<1>8. ASSUME NothingTold, NotifyMode, ~(Announces /\ connected) PROVE ToldOK'
  <2>1. UNCHANGED <<scanout, needsFull>> /\ commit.at = "mode" /\ commit'.at \in {"clear", "dpms"}
    BY <1>1, <1>8 DEF NotifyMode, GoTo, painter, CommitType
  <2>2. commit.announce /\ scanout # NoMode => ~connected
    BY <1>8 DEF NotifyMode, Announces, Sends, client
  <2>3. QED
    BY <1>1, <1>4, <1>8, <2>1, <2>2, NobodyTold
<1>9. ASSUME NothingTold, UpdateCursor PROVE ToldOK'
  BY <1>5, <1>9 DEF UpdateCursor
<1>10. ASSUME NothingTold, UNCHANGED <<scanout, commit>>, needsFull => needsFull' PROVE ToldOK'
  BY <1>1, <1>4, <1>10
<1>11. ASSUME NothingTold,
              \/ AttachPlane \/ ClearNeedsFull \/ NotifyDpms \/ SetVblank \/ UpdateReady
              \/ \E fb \in Modes \cup {NoMode}, flip \in BOOLEAN, d \in SUBSET Tiles :
                    StartCommit(fb, flip, d)
              \/ \E d \in SUBSET Tiles : StartCursorCommit(d)
       PROVE  ToldOK'
  BY <1>5, <1>11
  DEF AttachPlane, ClearNeedsFull, NotifyDpms, SetVblank, UpdateReady, StartCommit,
      StartCursorCommit, painter
<1>12. ASSUME NothingTold,
              SendEventsWork \/ ClientStep \/ Connect \/ UNCHANGED vars
       PROVE  ToldOK'
  BY <1>10, <1>12
  DEF ClientStep, vars, painter, client, Update, ReadEvents, HandleEvent, EndEvents, GrabTake,
      GrabCopy, SendEventsWork, Connect
<1>13. CASE NothingTold
  BY <1>2, <1>3, <1>6, <1>7, <1>8, <1>9, <1>11, <1>12, <1>13 DEF Next, CommitStep
<1>14. QED
  BY <1>2, <1>13, ToldNext

\* Every step keeps the invariant.
LEMMA PainterStep == Painter /\ [Next]_vars => Painter'
  BY TypeNext, UpdateNext, VblankNext, DamageNext, CommitNext, ClientNext, ShownNext, ToldStep
  DEF Painter, PainterConsistent, DamageOK

\* The invariant in every reachable state.
LEMMA PainterInvariant == Spec => []Painter
  BY PainterInit, PainterStep, PTL DEF Spec

\* Types, update requests and page flips fit together at every step of commits,
\* client and delayed work.
THEOREM PainterIsConsistent == Spec => []PainterConsistent
<1>1. Painter => PainterConsistent
  BY DEF Painter
<1>2. QED
  BY <1>1, PainterInvariant, PTL

\* What was drawn and not copied is dirty, grabbed, about to be marked, or was
\* dropped in a way the code is known to drop it.
THEOREM DamageIsNotLost == Spec => []DamageIsTracked
<1>1. Painter => DamageIsTracked
  BY DEF Painter
<1>2. QED
  BY <1>1, PainterInvariant, PTL

\* The client's buffers will have the mode of the scanout buffer, once it handled
\* the events on the way and the commit told its mode.
THEOREM ModeIsTold == Spec => []BuffersFollowMode
<1>1. Painter => BuffersFollowMode
  BY DEF Painter, ToldOK, BuffersFollowMode
<1>2. QED
  BY <1>1, PainterInvariant, PTL

-----------------------------------------------------------------------------
(* Recursive functions.  The provers know no induction; what takes its place *)
(* is that a set of naturals that is not empty has a least element.          *)

\* Every set of naturals that is not empty has a least element.
LEMMA LeastNat ==
  ASSUME NEW T, T \subseteq Nat, T # {}
  PROVE  \E n \in T : \A m \in T : n <= m
<1> DEFINE R == OpToRel(<, Nat)
<1>1. IsWellFoundedOn(R, Nat)
  BY NatLessThanWellFounded
<1>2. \E n \in T : \A m \in T : <<m, n>> \notin R
  <2> HIDE DEF R
  <2> QED BY <1>1, WFMin
<1>3. \A m, n \in T : m < n => <<m, n>> \in R
  BY DEF OpToRel
<1>4. QED
  <2> HIDE DEF R
  <2>1. PICK n \in T : \A m \in T : <<m, n>> \notin R
    BY <1>2
  <2>2. \A m \in T : ~ (m < n)
    BY <1>3, <2>1
  <2>3. QED
    BY <2>2

\* A descent through X that ends in Stop: no part of X outside of Stop is
\* closed under step.
Descends(X, Stop, step) ==
    \A T \in SUBSET (X \ Stop) : T # {} => \E x \in T : step[x] \notin T

\* A function that is defined by recursion along such a descent exists, so that
\* it is what its definition says.
Recursive(X, Stop, step, Y, base, next) ==
    \E f \in [X -> Y] :
        \A x \in X : f[x] = IF x \in Stop THEN base[x] ELSE next[<<x, f[step[x]]>>]

LEMMA RecursionEquation ==
  ASSUME NEW X, NEW Stop, NEW step \in [X -> X], Descends(X, Stop, step),
         NEW Y, NEW base \in [X -> Y], NEW next \in [X \X Y -> Y]
  PROVE  Recursive(X, Stop, step, Y, base, next)
<1> DEFINE Closed(G) == \A x \in X, y \in Y :
                           /\ x \in Stop => <<x, base[x]>> \in G
                           /\ x \notin Stop /\ <<step[x], y>> \in G
                                => <<x, next[<<x, y>>]>> \in G
           Graphs == {G \in SUBSET (X \X Y) : Closed(G)}
           Least == {e \in X \X Y : \A G \in Graphs : e \in G}
<1>1. Closed(Least)
  <2>1. ASSUME NEW x \in X, x \in Stop PROVE <<x, base[x]>> \in Least
    BY <2>1
  <2>2. ASSUME NEW x \in X, NEW y \in Y, x \notin Stop, <<step[x], y>> \in Least
        PROVE  <<x, next[<<x, y>>]>> \in Least
    <3>1. next[<<x, y>>] \in Y
      OBVIOUS
    <3>2. ASSUME NEW G \in Graphs PROVE <<x, next[<<x, y>>]>> \in G
      BY <2>2, <3>2
    <3>3. QED
      BY <3>1, <3>2
  <2>3. QED
    BY <2>1, <2>2
<1>2. ASSUME NEW x \in X, NEW y \in Y, <<x, y>> \in Least
      PROVE  IF x \in Stop THEN y = base[x]
             ELSE \E z \in Y : <<step[x], z>> \in Least /\ y = next[<<x, z>>]
  <2> SUFFICES ASSUME ~ IF x \in Stop THEN y = base[x]
                        ELSE \E z \in Y : <<step[x], z>> \in Least /\ y = next[<<x, z>>]
               PROVE  FALSE
    OBVIOUS
  <2> DEFINE G == Least \ {<<x, y>>}
  <2>1. Closed(G)
    <3>1. ASSUME NEW u \in X, u \in Stop PROVE <<u, base[u]>> \in G
      <4>1. <<u, base[u]>> \in Least
        BY <1>1, <3>1
      <4>2. <<u, base[u]>> # <<x, y>>
        BY <3>1
      <4>3. QED
        BY <4>1, <4>2
    <3>2. ASSUME NEW u \in X, NEW v \in Y, u \notin Stop, <<step[u], v>> \in G
          PROVE  <<u, next[<<u, v>>]>> \in G
      <4>1. <<u, next[<<u, v>>]>> \in Least
        BY <1>1, <3>2
      <4>2. <<u, next[<<u, v>>]>> # <<x, y>>
        <5>1. <<step[u], v>> \in Least
          BY <3>2
        <5> HIDE DEF Least
        <5>2. SUFFICES ASSUME u = x, y = next[<<x, v>>] PROVE FALSE
          OBVIOUS
        <5>3. QED
          BY <3>2, <5>1, <5>2
      <4>3. QED
        BY <4>1, <4>2
    <3>3. QED
      BY <3>1, <3>2
  <2>2. G \in Graphs
    BY <2>1
  <2>3. <<x, y>> \in G
    BY <1>2, <2>2
  <2>4. QED
    BY <2>3
<1> DEFINE One(x) == \E y \in Y : /\ <<x, y>> \in Least
                                  /\ \A z \in Y : <<x, z>> \in Least => z = y
<1>3. \A x \in X : One(x)
  <2> DEFINE T == {x \in X : ~ One(x)}
  <2>1. ASSUME NEW x \in X, x \in Stop PROVE One(x)
    <3>1. base[x] \in Y /\ <<x, base[x]>> \in Least
      BY <1>1, <2>1
    <3>2. \A z \in Y : <<x, z>> \in Least => z = base[x]
      BY <1>2, <2>1
    <3>3. QED
      BY <3>1, <3>2
  <2>2. ASSUME NEW x \in X, x \notin Stop, One(step[x]) PROVE One(x)
    <3>1. PICK y \in Y : /\ <<step[x], y>> \in Least
                         /\ \A z \in Y : <<step[x], z>> \in Least => z = y
      BY <2>2
    <3>2. next[<<x, y>>] \in Y /\ <<x, next[<<x, y>>]>> \in Least
      BY <1>1, <2>2, <3>1
    <3>3. ASSUME NEW z \in Y, <<x, z>> \in Least PROVE z = next[<<x, y>>]
      <4> HIDE DEF Least
      <4>1. PICK v \in Y : <<step[x], v>> \in Least /\ z = next[<<x, v>>]
        BY <1>2, <2>2, <3>3
      <4>2. QED
        BY <3>1, <4>1
    <3>4. QED
      BY <3>2, <3>3
  <2>3. T \in SUBSET (X \ Stop)
    BY <2>1
  <2>4. \A x \in T : step[x] \in T
    BY <2>1, <2>2
  <2>5. QED
    BY <2>3, <2>4 DEF Descends
<1> DEFINE f == [x \in X |-> CHOOSE y \in Y : <<x, y>> \in Least]
<1>4. \A x \in X : /\ f[x] \in Y /\ <<x, f[x]>> \in Least
                   /\ \A z \in Y : <<x, z>> \in Least => z = f[x]
  <2> HIDE DEF Least
  <2> QED BY <1>3
<1>5. ASSUME NEW x \in X
      PROVE  f[x] = IF x \in Stop THEN base[x] ELSE next[<<x, f[step[x]]>>]
  <2> HIDE DEF Least, f
  <2>1. CASE x \in Stop
    BY <1>2, <1>4, <2>1
  <2>2. CASE x \notin Stop
    <3>1. next[<<x, f[step[x]]>>] \in Y /\ <<x, next[<<x, f[step[x]]>>]>> \in Least
      <4>1. step[x] \in X /\ f[step[x]] \in Y /\ <<step[x], f[step[x]]>> \in Least
        BY <1>4
      <4>2. QED
        BY <1>1, <2>2, <4>1
    <3>2. QED
      BY <1>4, <2>2, <3>1
  <2>3. QED
    BY <2>1, <2>2
<1>6. QED
  <2>1. f \in [X -> Y]
    BY <1>4
  <2>2. QED
    BY <1>5, <2>1 DEF Recursive

\* Going down from n to low.
LEMMA DescendTo ==
  ASSUME NEW low \in Nat, NEW n \in Nat
  PROVE  LET step == [i \in low..n |-> IF i = low THEN low ELSE i - 1]
         IN  step \in [low..n -> low..n] /\ Descends(low..n, {low}, step)
<1> DEFINE step == [i \in low..n |-> IF i = low THEN low ELSE i - 1]
<1>1. step \in [low..n -> low..n]
  OBVIOUS
<1>2. ASSUME NEW T \in SUBSET ((low..n) \ {low}), T # {}
      PROVE  \E i \in T : step[i] \notin T
  <2>1. T \subseteq Nat
    BY <1>2
  <2>2. PICK i \in T : \A j \in T : i <= j
    BY <1>2, <2>1, LeastNat
  <2>3. step[i] = i - 1 /\ ~(i <= i - 1)
    BY <2>2
  <2>4. QED
    BY <2>2, <2>3
<1>3. QED
  BY <1>1, <1>2 DEF Descends

\* Induction from low to n, over the set of numbers for which something holds.
LEMMA InductionTo ==
  ASSUME NEW low \in Nat, NEW n \in Nat, NEW S,
         low \in S, \A i \in (low + 1)..n : i - 1 \in S => i \in S
  PROVE  low..n \subseteq S
<1> SUFFICES ASSUME (low..n) \ S # {} PROVE FALSE
  OBVIOUS
<1>1. (low..n) \ S \subseteq Nat
  OBVIOUS
<1>2. PICK i \in (low..n) \ S : \A j \in (low..n) \ S : i <= j
  BY <1>1, LeastNat
<1>3. i \in (low + 1)..n /\ i - 1 \in low..n /\ ~(i <= i - 1)
  BY <1>2
<1>4. i - 1 \in S
  BY <1>2, <1>3
<1>5. QED
  BY <1>2, <1>3, <1>4

-----------------------------------------------------------------------------
(* rectangles *)

LEMMA RectFields ==
  ASSUME NEW r \in Rect
  PROVE  /\ r.x1 \in Nat /\ r.y1 \in Nat /\ r.x2 \in Nat /\ r.y2 \in Nat
         /\ r.x1 <= r.x2 /\ r.x2 <= Width /\ r.y1 <= r.y2 /\ r.y2 <= Height
BY RectsAssumption DEF Rect

\* rect_area, which for the provers is just a number from here on.
LEMMA AreaIsNat ==
  ASSUME NEW r \in Rect
  PROVE  rect_area(r) \in Nat
<1>1. r.x2 - r.x1 \in Nat /\ r.y2 - r.y1 \in Nat
  BY RectFields
<1>2. \A i, j \in Nat : i * j \in Nat
  OBVIOUS
<1>3. QED
  BY <1>1, <1>2 DEF rect_area

\* expand_rect: a box around both.
LEMMA ExpandCovers ==
  ASSUME NEW r \in Rect, NEW s \in Rect
  PROVE  /\ expand_rect(r, s) \in Rect
         /\ Drawn(r) \cup Drawn(s) \subseteq Drawn(expand_rect(r, s))
<1> DEFINE e == expand_rect(r, s)
<1>1. /\ e.x1 = Lesser(r.x1, s.x1) /\ e.y1 = Lesser(r.y1, s.y1)
      /\ e.x2 = Greater(r.x2, s.x2) /\ e.y2 = Greater(r.y2, s.y2)
  BY DEF expand_rect
<1>2. e \in Rect
  BY RectFields, RectsAssumption DEF expand_rect, Rect, Lesser, Greater
<1>3. ASSUME NEW p \in Pixels, p \in Drawn(r) \/ p \in Drawn(s) PROVE p \in Drawn(e)
  <2> p[1] \in Int /\ p[2] \in Int
    BY RectsAssumption DEF Pixels
  <2> HIDE DEF e
  <2>1. Between(e.x1, e.x2, p[1])
    BY <1>1, <1>2, <1>3, RectFields DEF Drawn, Between, Lesser, Greater
  <2>2. Between(e.y1, e.y2, p[2])
    BY <1>1, <1>2, <1>3, RectFields DEF Drawn, Between, Lesser, Greater
  <2>3. QED
    BY <2>1, <2>2 DEF Drawn
<1>4. QED
  BY <1>2, <1>3 DEF Drawn

\* evdi_framebuffer_sanitize_rect: the part of the framebuffer between the corners.
LEMMA SanitizeIsExact ==
  ASSUME NEW c \in Clip
  PROVE  sanitize_rect(c) \in Rect /\ Drawn(sanitize_rect(c)) = Drawn(c)
<1> DEFINE r == sanitize_rect(c)
<1> c.x1 \in Nat /\ c.y1 \in Nat /\ c.x2 \in Nat /\ c.y2 \in Nat
  BY DEF Clip
<1>1. r \in Rect
  BY RectsAssumption DEF sanitize_rect, Rect, Lesser, Greater
<1>2. /\ r.x1 = Lesser(Lesser(c.x1, c.x2), Width)
      /\ r.y1 = Lesser(Lesser(c.y1, c.y2), Height)
      /\ r.x2 = Lesser(Greater(c.x1, c.x2), Width)
      /\ r.y2 = Lesser(Greater(c.y1, c.y2), Height)
  BY DEF sanitize_rect
<1>3. ASSUME NEW p \in Pixels
      PROVE  /\ Between(r.x1, r.x2, p[1]) <=> Between(c.x1, c.x2, p[1])
             /\ Between(r.y1, r.y2, p[2]) <=> Between(c.y1, c.y2, p[2])
  <2> p[1] \in Nat /\ p[2] \in Nat /\ p[1] < Width /\ p[2] < Height
    BY RectsAssumption DEF Pixels
  <2> HIDE DEF r
  <2>1. QED
    BY <1>2, RectsAssumption DEF Between, Lesser, Greater
<1>4. QED
  BY <1>1, <1>3 DEF Drawn

-----------------------------------------------------------------------------
(* one turn of the loops *)

\* What merge_dirty_rects leaves of a list when it merges a pair.
LEMMA MergedPair ==
  ASSUME NEW s \in Seq(Rect), NEW a \in 1..Len(s), NEW b \in 1..Len(s), a < b
  PROVE  LET n == Len(s)
             t == MergePair(s, a, b)
         IN  /\ t \in Seq(Rect) /\ Len(t) = n - 1
             /\ \A i \in 1..(n - 1) :
                   t[i] = IF i = a THEN expand_rect(s[a], s[b])
                          ELSE IF i = b THEN s[n] ELSE s[i]
<1> DEFINE n == Len(s)
           r == expand_rect(s[a], s[b])
           u == [s EXCEPT ![a] = r]
           v == [u EXCEPT ![b] = s[n]]
<1>1. n \in Nat /\ n = Len(s) /\ n \in 1..n /\ a \in 1..n /\ b \in 1..n
  BY LenProperties
<1>2. s[n] \in Rect /\ r \in Rect
  BY <1>1, ElementOfSeq, ExpandCovers
<1>3. u \in Seq(Rect) /\ Len(u) = n /\ \A i \in 1..n : u[i] = IF i = a THEN r ELSE s[i]
  <2> HIDE DEF r
  <2> QED BY <1>1, <1>2, ExceptSeq
<1>4. v \in Seq(Rect) /\ Len(v) = n /\ \A i \in 1..n : v[i] = IF i = b THEN s[n] ELSE u[i]
  <2> HIDE DEF u, n
  <2> QED BY <1>1, <1>2, <1>3, ExceptSeq
<1>5. MergePair(s, a, b) = SubSeq(v, 1, n - 1)
  <2>1. MergePair(s, a, b) = Shortened(v)
    BY DEF MergePair
  <2> HIDE DEF v
  <2>2. QED
    BY <1>4, <2>1 DEF Shortened
<1>6. /\ SubSeq(v, 1, n - 1) \in Seq(Rect) /\ Len(SubSeq(v, 1, n - 1)) = n - 1
      /\ \A i \in 1..(n - 1) : SubSeq(v, 1, n - 1)[i] = v[i]
  <2> HIDE DEF v, n
  <2>1. \A i \in 1..(n - 1) : v[i] \in Rect
    BY <1>1, <1>4, ElementOfSeq
  <2>2. QED
    BY <1>1, <2>1, SubSeqProperties
<1>7. QED
  <2> HIDE DEF v, u, r, n
  <2>1. \A i \in 1..(n - 1) : SubSeq(v, 1, n - 1)[i] =
            IF i = a THEN r ELSE IF i = b THEN s[n] ELSE s[i]
    BY <1>1, <1>3, <1>4, <1>6
  <2>2. QED
    BY <1>5, <1>6, <2>1 DEF n, r

LEMMA CoveredBy ==
  ASSUME NEW s \in Seq(Rect), NEW t \in Seq(Rect),
         \A i \in 1..Len(s) : \E j \in 1..Len(t) : Drawn(s[i]) \subseteq Drawn(t[j])
  PROVE  Covered(s) \subseteq Covered(t)
<1>1. DOMAIN s = 1..Len(s) /\ DOMAIN t = 1..Len(t)
  BY LenProperties
<1>2. ASSUME NEW p, p \in Covered(s) PROVE p \in Covered(t)
  <2>1. PICK i \in 1..Len(s) : p \in Drawn(s[i])
    BY <1>1, <1>2 DEF Covered
  <2>2. PICK j \in 1..Len(t) : p \in Drawn(t[j])
    BY <2>1
  <2>3. QED
    BY <1>1, <2>2 DEF Covered
<1>3. QED
  BY <1>2

\* The three turns: rectangle a has been compared with all, a pair is merged, it is not.
LEMMA MergeTurns ==
  ASSUME NEW m \in Merging, m.a < Len(m.rects)
  PROVE  /\ m.rects \in Seq(Rect) /\ Len(m.rects) \in Nat
         /\ m.a \in 1..Len(m.rects) /\ m.b \in Nat /\ m.a < m.b
         /\ \/ /\ m.b > Len(m.rects)
               /\ MergeStep(m) = [rects |-> m.rects, a |-> m.a + 1, b |-> m.a + 2]
            \/ /\ m.b \in 1..Len(m.rects) /\ Mergeable(m.rects, m.a, m.b)
               /\ MergeStep(m) = [rects |-> MergePair(m.rects, m.a, m.b),
                                  a |-> m.a, b |-> m.a + 1]
            \/ /\ m.b \in 1..Len(m.rects)
               /\ MergeStep(m) = [rects |-> m.rects, a |-> m.a, b |-> m.b + 1]
<1>1. /\ m.rects \in Seq(Rect) /\ m.a \in Nat /\ m.b \in Nat /\ 0 < m.a /\ m.a < m.b
      /\ m = [rects |-> m.rects, a |-> m.a, b |-> m.b]
  BY DEF Merging
<1>2. Len(m.rects) \in Nat
  BY <1>1, LenProperties
<1>3. CASE m.b > Len(m.rects)
  <2>1. MergeStep(m) = [rects |-> m.rects, a |-> m.a + 1, b |-> m.a + 2]
    BY <1>1, <1>3 DEF MergeStep
  <2>2. QED
    BY <1>1, <1>2, <1>3, <2>1
<1>4. CASE ~(m.b > Len(m.rects)) /\ Mergeable(m.rects, m.a, m.b)
  <2>1. MergeStep(m) = [rects |-> MergePair(m.rects, m.a, m.b), a |-> m.a, b |-> m.a + 1]
    BY <1>4 DEF MergeStep
  <2>2. QED
    BY <1>1, <1>2, <1>4, <2>1
<1>5. CASE ~(m.b > Len(m.rects)) /\ ~ Mergeable(m.rects, m.a, m.b)
  <2>1. MergeStep(m) = [rects |-> m.rects, a |-> m.a, b |-> m.b + 1]
    BY <1>1, <1>5 DEF MergeStep
  <2>2. QED
    BY <1>1, <1>2, <1>5, <2>1
<1>6. QED
  BY <1>3, <1>4, <1>5

\* Merging a pair covers what was covered.
LEMMA MergePairCovers ==
  ASSUME NEW s \in Seq(Rect), NEW a \in 1..Len(s), NEW b \in 1..Len(s), a < b
  PROVE  Covered(s) \subseteq Covered(MergePair(s, a, b))
<1> DEFINE n == Len(s)
           both == expand_rect(s[a], s[b])
           t == MergePair(s, a, b)
<1>1. n \in Nat /\ a \in 1..n /\ b \in 1..n
  BY LenProperties
<1>2. Drawn(s[a]) \subseteq Drawn(both) /\ Drawn(s[b]) \subseteq Drawn(both)
  BY ElementOfSeq, ExpandCovers
<1>3. /\ t \in Seq(Rect) /\ Len(t) = n - 1
      /\ \A i \in 1..(n - 1) : t[i] = IF i = a THEN both ELSE IF i = b THEN s[n] ELSE s[i]
  BY MergedPair
<1> HIDE DEF n, both, t
<1>4. ASSUME NEW i \in 1..n PROVE \E j \in 1..Len(t) : Drawn(s[i]) \subseteq Drawn(t[j])
  <2>1. CASE i = a \/ i = b
    <3>1. a \in 1..Len(t) /\ t[a] = both
      BY <1>1, <1>3
    <3>2. QED
      BY <1>2, <2>1, <3>1
  <2>2. CASE i = n /\ i # b
    <3>1. b \in 1..Len(t) /\ t[b] = s[n]
      BY <1>1, <1>3, <2>2
    <3>2. QED
      BY <2>2, <3>1
  <2>3. CASE i # a /\ i # b /\ i # n
    <3>1. i \in 1..Len(t) /\ t[i] = s[i]
      BY <1>1, <1>3, <2>3
    <3>2. QED
      BY <3>1
  <2>4. QED
    BY <2>1, <2>2, <2>3
<1>5. QED
  BY <1>3, <1>4, CoveredBy DEF n, t

\* A turn leaves rectangles, covers what was covered and does not make the list longer.
LEMMA MergeStepCovers ==
  ASSUME NEW m \in Merging, m.a < Len(m.rects)
  PROVE  /\ MergeStep(m) \in Merging
         /\ Len(MergeStep(m).rects) <= Len(m.rects) /\ Len(MergeStep(m).rects) >= 1
         /\ Covered(m.rects) \subseteq Covered(MergeStep(m).rects)
<1> DEFINE s == m.rects
           n == Len(s)
<1>1. /\ s \in Seq(Rect) /\ n \in Nat
      /\ m.a \in 1..n /\ m.a < n /\ m.b \in Nat /\ m.a < m.b
  BY MergeTurns
<1>2. CASE MergeStep(m) = [rects |-> s, a |-> m.a + 1, b |-> m.a + 2]
           \/ MergeStep(m) = [rects |-> s, a |-> m.a, b |-> m.b + 1]
  BY <1>1, <1>2 DEF Merging
<1>3. CASE /\ m.b \in 1..n
           /\ MergeStep(m) = [rects |-> MergePair(s, m.a, m.b), a |-> m.a, b |-> m.a + 1]
  <2>1. MergePair(s, m.a, m.b) \in Seq(Rect) /\ Len(MergePair(s, m.a, m.b)) = n - 1
    <3>1. s \in Seq(Rect) /\ m.a \in 1..Len(s) /\ m.b \in 1..Len(s) /\ m.a < m.b
      BY <1>1, <1>3
    <3> HIDE DEF s
    <3>2. QED
      BY <3>1, MergedPair
  <2>2. Covered(s) \subseteq Covered(MergePair(s, m.a, m.b))
    BY <1>1, <1>3, MergePairCovers
  <2>3. MergeStep(m) \in Merging
    BY <1>1, <1>3, <2>1 DEF Merging
  <2>4. QED
    BY <1>1, <1>3, <2>1, <2>2, <2>3
<1>4. QED
  BY <1>2, <1>3, MergeTurns

\* merge_dirty_rects ends: the list gets shorter, or a or b moves on.
LEMMA MergeEnds ==
  LET Stop == {m \in Merging : m.a >= Len(m.rects)}
      step == [m \in Merging |-> IF m \in Stop THEN m ELSE MergeStep(m)]
  IN  step \in [Merging -> Merging] /\ Descends(Merging, Stop, step)
<1> DEFINE Stop == {m \in Merging : m.a >= Len(m.rects)}
           step == [m \in Merging |-> IF m \in Stop THEN m ELSE MergeStep(m)]
<1>1. ASSUME NEW m \in Merging
      PROVE  m.rects \in Seq(Rect) /\ Len(m.rects) \in Nat /\ m.a \in Nat /\ m.b \in Nat
  BY LenProperties DEF Merging
<1>2. step \in [Merging -> Merging]
  <2>1. ASSUME NEW m \in Merging, m \notin Stop PROVE MergeStep(m) \in Merging
    BY <1>1, <2>1, MergeStepCovers
  <2>2. QED
    BY <2>1
<1>3. ASSUME NEW T \in SUBSET (Merging \ Stop), T # {}, \A m \in T : step[m] \in T
      PROVE  FALSE
  <2>1. ASSUME NEW m \in T
        PROVE  m \in Merging /\ m.a < Len(m.rects) /\ MergeStep(m) \in T
    <3>1. m \in Merging /\ m \notin Stop
      BY <1>3
    <3>2. step[m] = MergeStep(m) /\ step[m] \in T
      BY <1>3, <3>1
    <3>3. QED
      BY <1>1, <3>1, <3>2
  <2> HIDE DEF Stop, step
  \* Among those with the fewest rectangles ...
  <2>2. PICK n \in {Len(m.rects) : m \in T} : \A k \in {Len(m.rects) : m \in T} : n <= k
    <3>1. {Len(m.rects) : m \in T} \subseteq Nat /\ {Len(m.rects) : m \in T} # {}
      BY <1>1, <1>3, <2>1
    <3>2. QED
      BY <3>1, LeastNat
  <2> DEFINE T1 == {m \in T : Len(m.rects) = n}
  \* ... and the largest a ...
  <2>3. PICK d \in {n - m.a : m \in T1} : \A k \in {n - m.a : m \in T1} : d <= k
    <3>1. {n - m.a : m \in T1} \subseteq Nat /\ {n - m.a : m \in T1} # {}
      BY <1>1, <2>1, <2>2
    <3>2. QED
      BY <3>1, LeastNat
  <2> DEFINE T2 == {m \in T1 : n - m.a = d}
  <2>4. \A m \in T2 : m.b <= n
    <3>1. SUFFICES ASSUME NEW m \in T2, m.b > n PROVE FALSE
      BY <1>1, <2>1, <2>2
    <3>2. MergeStep(m).rects = m.rects /\ MergeStep(m).a = m.a + 1 /\ MergeStep(m) \in T
      <4>1. m \in Merging /\ m.a < Len(m.rects) /\ Len(m.rects) = n /\ MergeStep(m) \in T
        BY <2>1, <3>1
      <4>2. MergeStep(m) = [rects |-> m.rects, a |-> m.a + 1, b |-> m.a + 2]
        BY <3>1, <4>1, MergeTurns
      <4>3. QED
        BY <4>1, <4>2
    <3>3. MergeStep(m) \in T1
      BY <3>2
    <3>4. d <= n - (m.a + 1)
      BY <2>3, <3>2, <3>3
    <3>5. QED
      BY <1>1, <2>1, <2>2, <3>4
  \* ... the one with the largest b has no turn to take.
  <2>5. PICK e \in {n - m.b : m \in T2} : \A k \in {n - m.b : m \in T2} : e <= k
    <3>1. {n - m.b : m \in T2} \subseteq Nat /\ {n - m.b : m \in T2} # {}
      BY <1>1, <2>1, <2>2, <2>3, <2>4
    <3>2. QED
      BY <3>1, LeastNat
  <2>6. PICK m \in T2 : n - m.b = e
    BY <2>5
  <2>7. m \in Merging /\ m.a < Len(m.rects) /\ Len(m.rects) = n /\ MergeStep(m) \in T
        /\ m.b <= n /\ m.b \in Nat /\ n \in Nat
    BY <1>1, <2>1, <2>4
  <2>8. CASE MergeStep(m) = [rects |-> m.rects, a |-> m.a, b |-> m.b + 1]
    <3>1. MergeStep(m) \in T2 /\ MergeStep(m).b = m.b + 1
      BY <2>7, <2>8
    <3>2. e <= n - (m.b + 1)
      BY <2>5, <3>1
    <3>3. QED
      BY <2>6, <2>7, <3>2
  <2>9. CASE Len(MergeStep(m).rects) = n - 1
    <3>1. n <= n - 1
      BY <2>2, <2>7, <2>9
    <3>2. QED
      BY <2>7, <3>1
  <2>10. QED
    <3>1. m.b \in 1..n /\ m.a \in 1..n /\ m.a < m.b /\ m.rects \in Seq(Rect)
      BY <2>7, MergeTurns
    <3>2. Len(MergePair(m.rects, m.a, m.b)) = n - 1
      BY <2>7, <3>1, MergedPair
    <3>3. QED
      BY <2>7, <2>8, <2>9, <3>1, <3>2, MergeTurns
<1>4. QED
  BY <1>2, <1>3 DEF Descends


\* Merged is what its definition says.
LEMMA MergedEquation ==
  /\ Merged \in [Merging -> Seq(Rect)]
  /\ \A m \in Merging :
        Merged[m] = IF m.a >= Len(m.rects) THEN m.rects ELSE Merged[MergeStep(m)]
<1> DEFINE Stop == {m \in Merging : m.a >= Len(m.rects)}
           step == [m \in Merging |-> IF m \in Stop THEN m ELSE MergeStep(m)]
           base == [m \in Merging |-> m.rects]
           next == [e \in Merging \X Seq(Rect) |-> e[2]]
<1>1. step \in [Merging -> Merging] /\ Descends(Merging, Stop, step)
  BY MergeEnds
<1>2. base \in [Merging -> Seq(Rect)] /\ next \in [Merging \X Seq(Rect) -> Seq(Rect)]
  BY DEF Merging
<1>3. \E f \in [Merging -> Seq(Rect)] :
         \A m \in Merging : f[m] = IF m \in Stop THEN base[m] ELSE next[<<m, f[step[m]]>>]
  <2> HIDE DEF Stop, step, base, next
  <2>1. Recursive(Merging, Stop, step, Seq(Rect), base, next)
    BY <1>1, <1>2, RecursionEquation
  <2>2. QED
    BY <2>1 DEF Recursive
<1>4. PICK f \in [Merging -> Seq(Rect)] :
         \A m \in Merging : f[m] = IF m \in Stop THEN base[m] ELSE next[<<m, f[step[m]]>>]
  BY <1>3
<1>5. ASSUME NEW m \in Merging
      PROVE  f[m] = IF m.a >= Len(m.rects) THEN m.rects ELSE f[MergeStep(m)]
  <2>1. CASE m.a >= Len(m.rects)
    <3>1. m \in Stop /\ base[m] = m.rects
      BY <2>1
    <3>2. f[m] = base[m]
      <4> HIDE DEF Stop, base, step, next
      <4> QED BY <1>4, <3>1
    <3>3. QED
      BY <2>1, <3>1, <3>2
  <2>2. CASE ~(m.a >= Len(m.rects))
    <3>1. m \notin Stop /\ step[m] = MergeStep(m)
      BY <2>2
    <3>2. step[m] \in Merging /\ f[step[m]] \in Seq(Rect)
      <4> HIDE DEF step
      <4> QED BY <1>1
    <3>3. next[<<m, f[step[m]]>>] = f[step[m]]
      <4> HIDE DEF step
      <4> QED BY <3>2
    <3>4. f[m] = next[<<m, f[step[m]]>>]
      <4> HIDE DEF Stop, base, step, next
      <4> QED BY <1>4, <3>1
    <3>5. QED
      BY <2>2, <3>1, <3>3, <3>4
  <2>3. QED
    BY <2>1, <2>2
<1> HIDE DEF Stop, step, base, next
<1>6. f = [m \in Merging |-> IF m.a >= Len(m.rects) THEN m.rects ELSE f[MergeStep(m)]]
  BY <1>5
<1>7. Merged = [m \in Merging |->
                  IF m.a >= Len(m.rects) THEN m.rects ELSE Merged[MergeStep(m)]]
  BY <1>6 DEF Merged
<1>8. ASSUME NEW m \in Merging
      PROVE  Merged[m] = IF m.a >= Len(m.rects) THEN m.rects ELSE Merged[MergeStep(m)]
  BY <1>7
<1>9. \A m \in Merging : Merged[m] \in Seq(Rect)
  <2> DEFINE T == {m \in Merging : Merged[m] \notin Seq(Rect)}
  <2>1. \A m \in T : m \notin Stop /\ step[m] \in T
    BY <1>1, <1>8 DEF Stop, step, Merging
  <2>2. T \in SUBSET (Merging \ Stop)
    BY <2>1
  <2>3. T = {}
    <3> HIDE DEF T
    <3> QED BY <1>1, <2>1, <2>2 DEF Descends
  <2>4. QED
    BY <2>3
<1>10. QED
  BY <1>7, <1>8, <1>9


\* Boxes and Areas are what their definitions say.
LEMMA BoxesEquation ==
  ASSUME NEW s \in Seq(Rect)
  PROVE  LET n == Len(s) IN
         /\ n \in Nat
         /\ Boxes(s) \in [1..n -> Rect]
         /\ \A i \in 1..n :
               Boxes(s)[i] = IF i = 1 THEN s[1] ELSE expand_rect(Boxes(s)[i - 1], s[i])
<1> DEFINE n == Len(s)
           step == [i \in 1..n |-> IF i = 1 THEN 1 ELSE i - 1]
           base == [i \in 1..n |-> s[i]]
           next == [e \in (1..n) \X Rect |-> expand_rect(e[2], s[e[1]])]
<1>1. n \in Nat /\ \A i \in 1..n : s[i] \in Rect
  BY LenProperties, ElementOfSeq
<1>2. step \in [1..n -> 1..n] /\ Descends(1..n, {1}, step)
  <2> HIDE DEF n
  <2> QED BY <1>1, DescendTo
<1>3. base \in [1..n -> Rect] /\ next \in [(1..n) \X Rect -> Rect]
  <2> HIDE DEF n
  <2>1. \A e \in (1..n) \X Rect : expand_rect(e[2], s[e[1]]) \in Rect
    BY <1>1, ExpandCovers
  <2>2. QED
    BY <1>1, <2>1
<1>4. PICK f \in [1..n -> Rect] :
         \A i \in 1..n : f[i] = IF i \in {1} THEN base[i] ELSE next[<<i, f[step[i]]>>]
  <2> HIDE DEF step, base, next, n
  <2>1. Recursive(1..n, {1}, step, Rect, base, next)
    BY <1>2, <1>3, RecursionEquation
  <2>2. QED
    BY <2>1 DEF Recursive
<1>5. ASSUME NEW i \in 1..n
      PROVE  f[i] = IF i = 1 THEN s[1] ELSE expand_rect(f[i - 1], s[i])
  <2> HIDE DEF n
  <2>1. CASE i = 1
    BY <1>4, <2>1
  <2>2. CASE i # 1
    <3>1. step[i] = i - 1 /\ i - 1 \in 1..n
      BY <1>1, <2>2
    <3>2. f[i] = next[<<i, f[i - 1]>>]
      <4> HIDE DEF next, step, base
      <4> QED BY <1>4, <2>2, <3>1
    <3>3. <<i, f[i - 1]>> \in (1..n) \X Rect
      BY <3>1
    <3>4. QED
      BY <2>2, <3>2, <3>3
  <2>3. QED
    BY <2>1, <2>2
<1>6. f = [i \in 1..n |-> IF i = 1 THEN s[1] ELSE expand_rect(f[i - 1], s[i])]
  <2> HIDE DEF n
  <2> QED BY <1>5
<1>7. Boxes(s) = [i \in 1..n |->
                     IF i = 1 THEN s[1] ELSE expand_rect(Boxes(s)[i - 1], s[i])]
  BY <1>6 DEF Boxes
<1>8. Boxes(s) \in [1..n -> Rect]
  <2> HIDE DEF n
  <2> DEFINE S == {i \in 1..n : Boxes(s)[i] \in Rect}
  <2>1. ASSUME NEW i \in 1..n, i = 1 \/ i - 1 \in S PROVE i \in S
    BY <1>1, <1>7, <2>1, ExpandCovers
  <2>2. n >= 1 => 1..n \subseteq S
    <3> SUFFICES ASSUME n >= 1 PROVE 1..n \subseteq S
      OBVIOUS
    <3>1. 1 \in S /\ \A i \in (1 + 1)..n : i - 1 \in S => i \in S
      BY <1>1, <2>1
    <3> HIDE DEF S
    <3>2. QED
      BY <1>1, <3>1, InductionTo
  <2>3. \A i \in 1..n : Boxes(s)[i] \in Rect
    BY <1>1, <2>2
  <2>4. QED
    BY <1>7, <2>3
<1>9. QED
  <2> HIDE DEF n
  <2> QED BY <1>1, <1>7, <1>8 DEF n

LEMMA AreasEquation ==
  ASSUME NEW s \in Seq(Rect)
  PROVE  LET n == Len(s) IN
         /\ n \in Nat
         /\ Areas(s) \in [0..n -> Nat] /\ Areas(s)[0] = 0
         /\ \A i \in 1..n : Areas(s)[i] = Areas(s)[i - 1] + rect_area(s[i])
<1> DEFINE n == Len(s)
           step == [i \in 0..n |-> IF i = 0 THEN 0 ELSE i - 1]
           base == [i \in 0..n |-> 0]
           next == [e \in (0..n) \X Nat |-> IF e[1] = 0 THEN 0
                                            ELSE e[2] + rect_area(s[e[1]])]
<1>1. n \in Nat /\ \A i \in 1..n : rect_area(s[i]) \in Nat
  BY LenProperties, ElementOfSeq, AreaIsNat
<1>2. step \in [0..n -> 0..n] /\ Descends(0..n, {0}, step)
  <2> HIDE DEF n
  <2> QED BY <1>1, DescendTo
<1>3. base \in [0..n -> Nat] /\ next \in [(0..n) \X Nat -> Nat]
  <2> HIDE DEF n
  <2> QED BY <1>1
<1>4. PICK f \in [0..n -> Nat] :
         \A i \in 0..n : f[i] = IF i \in {0} THEN base[i] ELSE next[<<i, f[step[i]]>>]
  <2> HIDE DEF step, base, next, n
  <2>1. Recursive(0..n, {0}, step, Nat, base, next)
    BY <1>2, <1>3, RecursionEquation
  <2>2. QED
    BY <2>1 DEF Recursive
<1>5. ASSUME NEW i \in 0..n
      PROVE  f[i] = IF i = 0 THEN 0 ELSE f[i - 1] + rect_area(s[i])
  <2> HIDE DEF n
  <2>1. CASE i = 0
    BY <1>4, <2>1
  <2>2. CASE i # 0
    <3>1. step[i] = i - 1 /\ i - 1 \in 0..n
      BY <1>1, <2>2
    <3>2. f[i] = next[<<i, f[i - 1]>>]
      <4> HIDE DEF next, step, base
      <4> QED BY <1>4, <2>2, <3>1
    <3>3. <<i, f[i - 1]>> \in (0..n) \X Nat
      BY <3>1
    <3>4. QED
      BY <2>2, <3>2, <3>3
  <2>3. QED
    BY <2>1, <2>2
<1>6. f = [i \in 0..n |-> IF i = 0 THEN 0 ELSE f[i - 1] + rect_area(s[i])]
  <2> HIDE DEF n
  <2> QED BY <1>5
<1>7. Areas(s) = [i \in 0..n |-> IF i = 0 THEN 0 ELSE Areas(s)[i - 1] + rect_area(s[i])]
  BY <1>6 DEF Areas
<1> HIDE DEF n
<1>8. \A i \in 0..n : Areas(s)[i] = IF i = 0 THEN 0 ELSE Areas(s)[i - 1] + rect_area(s[i])
  BY <1>7
<1>9. 0..n \subseteq {i \in 0..n : Areas(s)[i] \in Nat}
  <2> DEFINE S == {i \in 0..n : Areas(s)[i] \in Nat}
  <2>1. 0 \in S /\ \A i \in (0 + 1)..n : i - 1 \in S => i \in S
    BY <1>1, <1>8
  <2> HIDE DEF S
  <2>2. 0..n \subseteq S
    BY <1>1, <2>1, InductionTo
  <2>3. QED
    BY <2>2 DEF S
<1>10. QED
  BY <1>1, <1>7, <1>8, <1>9 DEF n


\* A pair is merged only if that does not make more pixels to be copied.
LEMMA MergePairArea ==
  ASSUME NEW s \in Seq(Rect), NEW a \in 1..Len(s), NEW b \in 1..Len(s), a < b,
         Mergeable(s, a, b)
  PROVE  Area(MergePair(s, a, b)) <= Area(s)
<1> DEFINE n == Len(s)
           both == expand_rect(s[a], s[b])
           t == MergePair(s, a, b)
           A == Areas(s)
           B == Areas(t)
           gain == rect_area(both) - rect_area(s[a])
           last == rect_area(s[n]) - rect_area(s[b])
           Moved(k) == (IF k >= a THEN gain ELSE 0) + (IF k >= b THEN last ELSE 0)
<1>1. /\ n \in Nat /\ a \in 1..n /\ b \in 1..n /\ n \in 1..n
      /\ \A i \in 1..n : s[i] \in Rect /\ rect_area(s[i]) \in Nat
      /\ both \in Rect /\ rect_area(both) \in Nat
  BY LenProperties, ElementOfSeq, AreaIsNat, ExpandCovers
<1>2. /\ t \in Seq(Rect) /\ Len(t) = n - 1
      /\ \A i \in 1..(n - 1) : t[i] = IF i = a THEN both ELSE IF i = b THEN s[n] ELSE s[i]
  BY MergedPair
<1>3. A \in [0..n -> Nat] /\ A[0] = 0 /\ \A i \in 1..n : A[i] = A[i - 1] + rect_area(s[i])
  BY AreasEquation
<1>4. /\ B \in [0..(n - 1) -> Nat] /\ B[0] = 0
      /\ \A i \in 1..(n - 1) : B[i] = B[i - 1] + rect_area(t[i])
  BY <1>2, AreasEquation
<1>5. rect_area(both) <= rect_area(s[a]) + rect_area(s[b])
  BY DEF Mergeable
<1>6. Area(s) = A[n] /\ Area(t) = B[n - 1]
  BY <1>2 DEF Area
<1> HIDE DEF n, both, t, A, B
<1>7. 0..(n - 1) \subseteq {k \in 0..(n - 1) : B[k] = A[k] + Moved(k)}
  <2> DEFINE S == {k \in 0..(n - 1) : B[k] = A[k] + Moved(k)}
  <2>1. 0 \in S
    BY <1>1, <1>3, <1>4
  <2>2. ASSUME NEW i \in (0 + 1)..(n - 1), i - 1 \in S PROVE i \in S
    <3>1. /\ B[i - 1] = A[i - 1] + Moved(i - 1)
          /\ B[i] = B[i - 1] + rect_area(t[i]) /\ A[i] = A[i - 1] + rect_area(s[i])
          /\ A[i - 1] \in Nat
      <4>1. i \in 1..n /\ i \in 1..(n - 1) /\ i - 1 \in 0..n
        BY <1>1
      <4>2. B[i - 1] = A[i - 1] + Moved(i - 1)
        BY <2>2
      <4>3. B[i] = B[i - 1] + rect_area(t[i])
        BY <1>4, <4>1
      <4>4. A[i] = A[i - 1] + rect_area(s[i]) /\ A[i - 1] \in Nat
        BY <1>3, <4>1
      <4> HIDE DEF Moved
      <4>5. QED
        BY <4>2, <4>3, <4>4
    <3>2. t[i] = IF i = a THEN both ELSE IF i = b THEN s[n] ELSE s[i]
      BY <1>1, <1>2
    <3>3. CASE i = a
      <4>1. rect_area(t[i]) = rect_area(both)
        BY <3>2, <3>3
      <4>2. QED
        BY <1>1, <3>1, <3>3, <4>1
    <3>4. CASE i = b
      <4>1. rect_area(t[i]) = rect_area(s[n])
        <5>1. i # a
          BY <1>1, <3>4
        <5>2. QED
          BY <3>2, <3>4, <5>1
      <4>2. QED
        BY <1>1, <3>1, <3>4, <4>1
    <3>5. CASE i # a /\ i # b
      <4>1. rect_area(t[i]) = rect_area(s[i])
        BY <3>2, <3>5
      <4>2. Moved(i) = Moved(i - 1)
        BY <1>1, <3>5
      <4>3. Moved(i) \in Int /\ rect_area(s[i]) \in Nat
        BY <1>1
      <4>4. QED
        BY <3>1, <4>1, <4>2, <4>3
    <3>6. QED
      BY <3>3, <3>4, <3>5
  <2> HIDE DEF S
  <2>3. n - 1 \in Nat
    BY <1>1
  <2>4. 0..(n - 1) \subseteq S
    BY <2>1, <2>2, <2>3, InductionTo
  <2>5. QED
    BY <2>4 DEF S
<1>8. B[n - 1] = A[n - 1] + Moved(n - 1) /\ A[n] = A[n - 1] + rect_area(s[n])
      /\ A[n - 1] \in Nat
  BY <1>1, <1>3, <1>7
<1>9. B[n - 1] <= A[n]
  BY <1>1, <1>5, <1>8
<1>10. QED
  BY <1>6, <1>9 DEF t

LEMMA AreaInNat ==
  ASSUME NEW s \in Seq(Rect)
  PROVE  Area(s) \in Nat
BY AreasEquation, LenProperties DEF Area

\* merge_dirty_rects covers what was covered, with no more rectangles and no
\* more pixels than before.
LEMMA MergedCovers ==
  ASSUME NEW m \in Merging
  PROVE  /\ Merged[m] \in Seq(Rect)
         /\ Len(Merged[m]) <= Len(m.rects) /\ (Len(m.rects) >= 1 => Len(Merged[m]) >= 1)
         /\ Covered(m.rects) \subseteq Covered(Merged[m])
         /\ Area(Merged[m]) <= Area(m.rects)
<1> DEFINE Good(x) == /\ Len(Merged[x]) <= Len(x.rects)
                      /\ (Len(x.rects) >= 1 => Len(Merged[x]) >= 1)
                      /\ Covered(x.rects) \subseteq Covered(Merged[x])
                      /\ Area(Merged[x]) <= Area(x.rects)
           T == {x \in Merging : ~ Good(x)}
           Stop == {x \in Merging : x.a >= Len(x.rects)}
           step == [x \in Merging |-> IF x \in Stop THEN x ELSE MergeStep(x)]
<1>1. ASSUME NEW x \in Merging
      PROVE  /\ x.rects \in Seq(Rect) /\ Len(x.rects) \in Nat /\ Area(x.rects) \in Nat
             /\ Merged[x] \in Seq(Rect) /\ Len(Merged[x]) \in Nat /\ Area(Merged[x]) \in Nat
             /\ x.a \in Nat
  <2>1. x.rects \in Seq(Rect) /\ Merged[x] \in Seq(Rect) /\ x.a \in Nat
    BY MergedEquation DEF Merging
  <2>2. QED
    BY <2>1, LenProperties, AreaInNat
<1>2. ASSUME NEW x \in Merging, x.a >= Len(x.rects) PROVE Good(x)
  <2>1. Merged[x] = x.rects
    BY <1>2, MergedEquation
  <2>2. QED
    BY <1>1, <2>1
<1>3. ASSUME NEW x \in Merging, x.a < Len(x.rects), Good(MergeStep(x)) PROVE Good(x)
  <2> DEFINE y == MergeStep(x)
  <2>1. /\ y \in Merging /\ Len(y.rects) <= Len(x.rects) /\ Len(y.rects) >= 1
        /\ Covered(x.rects) \subseteq Covered(y.rects)
    BY <1>3, MergeStepCovers
  <2>2. Area(y.rects) <= Area(x.rects)
    <3>1. CASE y.rects = x.rects
      BY <1>1, <3>1
    <3>2. CASE /\ x.b \in 1..Len(x.rects) /\ Mergeable(x.rects, x.a, x.b)
               /\ y.rects = MergePair(x.rects, x.a, x.b)
      <4>1. x.rects \in Seq(Rect) /\ x.a \in 1..Len(x.rects) /\ x.a < x.b
        BY <1>3, MergeTurns
      <4>2. Area(MergePair(x.rects, x.a, x.b)) <= Area(x.rects)
        BY <3>2, <4>1, MergePairArea
      <4>3. QED
        BY <3>2, <4>2
    <3>3. QED
      BY <1>3, <3>1, <3>2, MergeTurns
  <2>3. Merged[x] = Merged[y]
    BY <1>1, <1>3, MergedEquation
  <2> HIDE DEF y
  <2>4. Good(y)
    BY <1>3 DEF y
  <2>5. QED
    BY <1>1, <2>1, <2>2, <2>3, <2>4
<1> HIDE DEF Good
<1>4. \A x \in T : x \notin Stop /\ step[x] \in T
  BY <1>1, <1>2, <1>3, MergeStepCovers
<1>5. T = {}
  <2>1. Descends(Merging, Stop, step)
    BY MergeEnds
  <2>2. T \in SUBSET (Merging \ Stop)
    BY <1>4
  <2> HIDE DEF T, Stop, step
  <2>3. QED
    BY <1>4, <2>1, <2>2 DEF Descends
<1>6. QED
  BY <1>1, <1>5 DEF Good

\* The same of merge_dirty_rects.
LEMMA MergeCovers ==
  ASSUME NEW s \in Seq(Rect)
  PROVE  LET t == merge_dirty_rects(s)
         IN  /\ t \in Seq(Rect) /\ Len(t) \in Nat
             /\ Len(t) <= Len(s) /\ (Len(s) >= 1 => Len(t) >= 1)
             /\ Covered(s) \subseteq Covered(t)
             /\ Area(t) <= Area(s)
<1> DEFINE m == [rects |-> s, a |-> 1, b |-> 2]
<1>1. m \in Merging /\ m.rects = s
  BY DEF Merging
<1>2. merge_dirty_rects(s) = Merged[m]
  BY DEF merge_dirty_rects
<1> HIDE DEF m
<1>3. QED
  BY <1>1, <1>2, MergedCovers, LenProperties

\* collapse_dirty_rects: one box around all.
LEMMA CollapseCovers ==
  ASSUME NEW s \in Seq(Rect), Len(s) >= 1
  PROVE  LET t == collapse_dirty_rects(s)
         IN  t \in Seq(Rect) /\ Len(t) = 1 /\ Covered(s) \subseteq Covered(t)
<1> DEFINE n == Len(s)
           box == Boxes(s)
           t == <<box[n]>>
<1>1. /\ n \in Nat /\ box \in [1..n -> Rect] /\ \A i \in 1..n : s[i] \in Rect
      /\ \A i \in 1..n : box[i] = IF i = 1 THEN s[1] ELSE expand_rect(box[i - 1], s[i])
  BY BoxesEquation, ElementOfSeq
<1>2. n >= 1
  OBVIOUS
<1>3. collapse_dirty_rects(s) = t
  BY DEF collapse_dirty_rects
<1> HIDE DEF box, n
<1>4. 1..n \subseteq {i \in 1..n : \A j \in 1..i : Drawn(s[j]) \subseteq Drawn(box[i])}
  <2> DEFINE S == {i \in 1..n : \A j \in 1..i : Drawn(s[j]) \subseteq Drawn(box[i])}
  <2>1. 1 \in S
    BY <1>1, <1>2
  <2>2. ASSUME NEW i \in (1 + 1)..n, i - 1 \in S PROVE i \in S
    <3>1. box[i] = expand_rect(box[i - 1], s[i]) /\ box[i - 1] \in Rect /\ s[i] \in Rect
      BY <1>1
    <3>2. Drawn(box[i - 1]) \subseteq Drawn(box[i]) /\ Drawn(s[i]) \subseteq Drawn(box[i])
      BY <3>1, ExpandCovers
    <3>3. ASSUME NEW j \in 1..i PROVE Drawn(s[j]) \subseteq Drawn(box[i])
      <4>1. CASE j = i
        BY <3>2, <4>1
      <4>2. CASE j \in 1..(i - 1)
        BY <2>2, <3>2, <4>2
      <4>3. QED
        BY <1>1, <4>1, <4>2
    <3>4. QED
      BY <1>1, <3>3
  <2> HIDE DEF S
  <2>3. 1..n \subseteq S
    BY <1>1, <2>1, <2>2, InductionTo
  <2>4. QED
    BY <2>3 DEF S
<1>5. t \in Seq(Rect) /\ Len(t) = 1 /\ t[1] = box[n]
  BY <1>1, <1>2
<1>6. \A i \in 1..n : Drawn(s[i]) \subseteq Drawn(t[1])
  BY <1>1, <1>2, <1>4, <1>5
<1>7. Covered(s) \subseteq Covered(t)
  <2> HIDE DEF t
  <2>1. \A i \in 1..Len(s) : \E j \in 1..Len(t) : Drawn(s[i]) \subseteq Drawn(t[j])
    BY <1>5, <1>6 DEF n
  <2>2. QED
    BY <1>5, <2>1, CoveredBy
<1>8. QED
  BY <1>3, <1>5, <1>7

LEMMA CoveredMore ==
  ASSUME NEW s \in Seq(Rect), NEW r \in Rect
  PROVE  Covered(s) \cup Drawn(r) \subseteq Covered(Append(s, r))
<1> DEFINE t == Append(s, r)
<1>1. /\ t \in Seq(Rect) /\ Len(s) \in Nat /\ Len(t) = Len(s) + 1 /\ t[Len(t)] = r
      /\ \A i \in 1..Len(s) : t[i] = s[i]
  BY LenProperties, AppendProperties
<1> HIDE DEF t
<1>2. DOMAIN t = 1..Len(t) /\ Len(t) \in 1..Len(t)
  BY <1>1, LenProperties
<1>3. Drawn(r) \subseteq Covered(t)
  BY <1>1, <1>2 DEF Covered
<1>4. \A i \in 1..Len(s) : \E j \in 1..Len(t) : Drawn(s[i]) \subseteq Drawn(t[j])
  BY <1>1
<1>5. Covered(s) \subseteq Covered(t)
  BY <1>1, <1>4, CoveredBy
<1>6. QED
  BY <1>3, <1>5 DEF t

\* evdi_painter_mark_dirty on any list with room for MAX_DIRTS: the new rectangle
\* is at the end, nothing that was dirty is lost, and the list does not outgrow
\* dirty_rects[].
THEOREM MarkKeepsAll ==
  ASSUME NEW s \in Seq(Rect), Len(s) <= MaxDirts, NEW c \in Clip
  PROVE  LET t == mark_dirty(s, c)
         IN  /\ t \in Seq(Rect) /\ Len(t) <= MaxDirts
             /\ Covered(s) \cup Drawn(c) \subseteq Covered(t)
             /\ t[Len(t)] = sanitize_rect(c)
             /\ Len(s) < MaxDirts => Shortened(t) = s
<1> DEFINE merged == IF Len(s) = MaxDirts THEN merge_dirty_rects(s) ELSE s
           room == IF Len(merged) = MaxDirts THEN collapse_dirty_rects(merged) ELSE merged
           r == sanitize_rect(c)
           t == Append(room, r)
<1>1. MaxDirts \in Nat /\ MaxDirts > 1 /\ Len(s) \in Nat
  BY RectsAssumption, LenProperties
<1>2. mark_dirty(s, c) = t
  BY DEF mark_dirty
<1>3. r \in Rect /\ Drawn(r) = Drawn(c)
  BY SanitizeIsExact
<1>4. /\ merged \in Seq(Rect) /\ Len(merged) \in Nat /\ Len(merged) <= MaxDirts
      /\ Covered(s) \subseteq Covered(merged)
      /\ Len(s) < MaxDirts => merged = s
  <2>1. CASE Len(s) = MaxDirts
    BY <1>1, <2>1, MergeCovers
  <2>2. CASE Len(s) # MaxDirts
    BY <1>1, <2>2
  <2>3. QED
    BY <2>1, <2>2
<1> HIDE DEF merged
<1>5. /\ room \in Seq(Rect) /\ Len(room) \in Nat /\ Len(room) < MaxDirts
      /\ Covered(merged) \subseteq Covered(room)
      /\ Len(s) < MaxDirts => room = s
  <2>1. CASE Len(merged) = MaxDirts
    <3>1. room = collapse_dirty_rects(merged) /\ Len(merged) >= 1
      BY <1>1, <2>1
    <3> HIDE DEF room
    <3>2. room \in Seq(Rect) /\ Len(room) = 1 /\ Covered(merged) \subseteq Covered(room)
      BY <1>4, <3>1, CollapseCovers
    <3>3. ~(Len(s) < MaxDirts)
      BY <1>4, <2>1
    <3>4. QED
      BY <1>1, <3>2, <3>3
  <2>2. CASE Len(merged) # MaxDirts
    BY <1>1, <1>4, <2>2
  <2>3. QED
    BY <2>1, <2>2
<1> HIDE DEF room, r
<1>6. /\ t \in Seq(Rect) /\ Len(t) = Len(room) + 1 /\ t[Len(t)] = r
      /\ \A i \in 1..Len(room) : t[i] = room[i]
  BY <1>3, <1>5, AppendProperties
<1>7. Covered(s) \cup Drawn(c) \subseteq Covered(t)
  BY <1>3, <1>4, <1>5, CoveredMore
<1>8. Len(s) < MaxDirts => Shortened(t) = s
  <2> SUFFICES ASSUME room = s PROVE Shortened(t) = s
    BY <1>5
  <2>1. Len(t) - 1 = Len(s)
    BY <1>1, <1>6
  <2>2. Shortened(t) = [i \in 1..Len(s) |-> t[i]]
    BY <2>1 DEF Shortened
  <2>3. s = [i \in 1..Len(s) |-> s[i]]
    BY LenProperties
  <2>4. QED
    BY <1>6, <2>2, <2>3
<1>9. QED
  BY <1>1, <1>2, <1>5, <1>6, <1>7, <1>8 DEF r

\* evdi_painter_grabpix_ioctl with room for any number of rectangles: the client
\* gets all that is dirty in the room it has, and merging alone never makes it
\* copy more pixels than were dirty.
THEOREM GrabGetsAll ==
  ASSUME NEW s \in Seq(Rect), NEW space \in Nat, space >= 1
  PROVE  LET t == grabpix(s, space)
         IN  /\ t \in Seq(Rect) /\ Len(t) <= space
             /\ Covered(s) \subseteq Covered(t)
             /\ Len(merge_dirty_rects(s)) <= space => Area(t) <= Area(s)
<1> DEFINE merged == merge_dirty_rects(s)
<1>1. /\ merged \in Seq(Rect) /\ Len(merged) \in Nat /\ Covered(s) \subseteq Covered(merged)
      /\ Area(merged) <= Area(s)
  BY MergeCovers
<1> HIDE DEF merged
<1>2. CASE Len(merged) <= space
  <2>1. grabpix(s, space) = merged
    BY <1>1, <1>2 DEF grabpix, merged
  <2>2. QED
    BY <1>1, <1>2, <2>1
<1>3. CASE Len(merged) > space
  <2>1. grabpix(s, space) = collapse_dirty_rects(merged)
    BY <1>3 DEF grabpix, merged
  <2>2. Len(merged) >= 1 /\ ~(Len(merged) <= space)
    BY <1>1, <1>3
  <2>3. QED
    BY <1>1, <2>1, <2>2, CollapseCovers DEF merged
<1>4. QED
  BY <1>1, <1>2, <1>3

LEMMA ListsAreSequences ==
  ASSUME NEW s \in Lists
  PROVE  s \in Seq(Rect) /\ Len(s) <= MaxDirts /\ DOMAIN s = 1..Len(s)
<1>1. PICK n \in 0..MaxDirts : s \in [1..n -> Rect]
  BY DEF Lists
<1>2. n \in Nat
  BY RectsAssumption
<1>3. s \in Seq(Rect)
  BY <1>1, <1>2, SeqDef
<1>4. Len(s) = n
  BY <1>1, <1>2, <1>3, LenProperties
<1>5. QED
  BY <1>1, <1>3, <1>4, RectsAssumption

\* The rectangles' arithmetic, as it is checked on a small framebuffer.
LEMMA RectsLoseNothing == MarksAreExact /\ MarksAreKept /\ GrabsAreComplete
<1>1. MarksAreExact
  <2>1. Clips \subseteq Clip
    BY RectsAssumption DEF Clips, Clip
  <2>2. QED
    BY <2>1, SanitizeIsExact DEF MarksAreExact
<1>2. MarksAreKept
  <2>1. Awkward \in Clip
    BY RectsAssumption DEF Awkward, Clip
  <2>2. ASSUME NEW s \in Lists
        PROVE  LET t == mark_dirty(s, Awkward)
               IN  /\ Len(t) <= MaxDirts
                   /\ \A i \in DOMAIN t : t[i] \in Rect
                   /\ Covered(s) \cup Drawn(Awkward) \subseteq Covered(t)
                   /\ t[Len(t)] = sanitize_rect(Awkward)
                   /\ Len(s) < MaxDirts => Shortened(t) = s
    <3> DEFINE t == mark_dirty(s, Awkward)
    <3> HIDE DEF t
    <3>1. /\ t \in Seq(Rect) /\ Len(t) <= MaxDirts
          /\ Covered(s) \cup Drawn(Awkward) \subseteq Covered(t)
          /\ t[Len(t)] = sanitize_rect(Awkward)
          /\ Len(s) < MaxDirts => Shortened(t) = s
      BY <2>1, ListsAreSequences, MarkKeepsAll DEF t
    <3>2. \A i \in DOMAIN t : t[i] \in Rect
      BY <3>1, LenProperties, ElementOfSeq
    <3>3. QED
      BY <3>1, <3>2 DEF t
  <2>3. QED
    BY <2>2 DEF MarksAreKept
<1>3. GrabsAreComplete
  <2>1. ASSUME NEW s \in Lists, NEW space \in 1..MaxDirts
        PROVE  LET t == grabpix(s, space)
               IN  /\ Len(t) <= space
                   /\ Covered(s) \subseteq Covered(t)
                   /\ Len(merge_dirty_rects(s)) <= space => Area(t) <= Area(s)
    <3>1. space \in Nat /\ space >= 1 /\ s \in Seq(Rect)
      BY ListsAreSequences, RectsAssumption
    <3>2. QED
      BY <3>1, GrabGetsAll
  <2>2. QED
    BY <2>1 DEF GrabsAreComplete
<1>4. QED
  BY <1>1, <1>2, <1>3

\* Whatever the sizes of the framebuffer and of dirty_rects[], the rectangles
\* keep what is dirty, as marks come in, pairs are merged, all is collapsed into
\* one and the client grabs them.
THEOREM RectsAreKept == Spec => []RectsKeepDamage
<1>1. RectsKeepDamage
  BY RectsLoseNothing DEF RectsKeepDamage
<1>2. QED
  BY <1>1, PTL
=============================================================================
