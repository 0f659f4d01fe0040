---------------------------- MODULE EvdiPainter ----------------------------
(***************************************************************************)
(* How a frame of the virtual monitor gets from the desktop to the client. *)
(*                                                                         *)
(* The evdi module (evdi_painter.c, evdi_modeset.c) meets three kinds of   *)
(* actors in its painter: the thread that commits a new desktop picture    *)
(* (one commit at a time: the modeset locks), the client that connects,    *)
(* asks for updates, reads events and grabs pixels (a ScreenDriver of      *)
(* src/example over libevdipp and libevdi, one thread), and the delayed    *)
(* work that delivers events the client's file had no room for.            *)
(* painter->lock is taken and released by every single operation, so a     *)
(* commit is a sequence of them and the others run in between.             *)
(*                                                                         *)
(* A framebuffer is its mode: what its references protect is the subject   *)
(* of EvdiMemory.  Dirty rectangles are the set of tiles they cover (their *)
(* arithmetic is the subject of EvdiRects).  Kernel 5.13 or later.         *)
(***************************************************************************)
EXTENDS Naturals, Sequences

CONSTANTS
    Modes,       \* resolutions of a framebuffer
    NoMode,      \* no framebuffer
    Tiles,       \* parts of the desktop that are damaged and copied as a whole
    EventSpace,  \* external: events the file of the client has room for
    MaxEvents    \* bound: no commit starts with more events undelivered

ASSUME PainterAssumption ==
    /\ NoMode \notin Modes
    /\ Tiles # {}
    /\ EventSpace \in Nat \ {0} /\ MaxEvents \in Nat

VARIABLES
    connected,   \* is_connected, and drm_filp # NULL
    scanout,     \* scanout_fb
    dirts,       \* dirty_rects; num_dirts is 0 iff it is empty
    requested,   \* was_update_requested
    needsFull,   \* needs_full_modeset
    held,        \* vblank # NULL: the painter delays the end of a page flip
    pending,     \* pending_events
    worker,      \* send_events_work is scheduled
    queue,       \* external: events the client can read from its file
    plane,       \* external: state->fb of the primary plane
    commit,      \* the commit in progress
    pc,          \* client: "off", "loop", "events", "grab", "copy"
    batch,       \* client: events read and not handled yet
    buffers,     \* client: mode of the registered buffers
    grab,        \* client: what the grab in progress took from the painter
    behind,      \* history: damaged tiles the client did not copy yet
    lost,        \* history: those of them that were dropped, see below
    owed         \* history: page flips whose vblank event was not sent

events  == <<pending, worker, queue>>
client  == <<pc, batch, buffers, grab>>
history == <<behind, lost, owed>>
painter == <<connected, scanout, dirts, requested, needsFull, held>>
vars == <<painter, events, plane, commit, client, history>>

Event == [type : {"dpms", "ready"}, mode : {NoMode}]
         \cup [type : {"mode"}, mode : Modes]
NoCommit == [at |-> "idle", fb |-> NoMode, old |-> NoMode, flip |-> FALSE,
             damage |-> {}, announce |-> FALSE, dpms |-> FALSE, event |-> FALSE]
NoGrab == [fb |-> NoMode, tiles |-> {}, vblank |-> FALSE]

Count(b) == IF b THEN 1 ELSE 0

\* evdi_painter_init: a device nobody is connected to.
Init ==
    /\ connected = FALSE /\ scanout = NoMode /\ dirts = {}
    /\ requested = FALSE /\ needsFull = TRUE /\ held = FALSE
    /\ pending = <<>> /\ worker = FALSE /\ queue = <<>>
    /\ plane = NoMode /\ commit = NoCommit
    /\ pc = "off" /\ batch = <<>> /\ buffers = NoMode /\ grab = NoGrab
    /\ behind = {} /\ lost = {} /\ owed = 0

-----------------------------------------------------------------------------
(* events *)

\* flush_pending_events: as many events of list p as the file has room for.
Flush(p) ==
    LET room == EventSpace - Len(queue)
        n == IF Len(p) < room THEN Len(p) ELSE room
    IN  /\ queue' = queue \o SubSeq(p, 1, n)
        /\ pending' = SubSeq(p, n + 1, Len(p))
        /\ worker' = (n < Len(p))

\* send_event: nobody connected, the event is dropped; work pending, it queues
\* up behind the others; otherwise it is flushed at once.
SendEvent(e) ==
    IF ~connected THEN UNCHANGED events
    ELSE IF worker
         THEN pending' = Append(pending, e) /\ UNCHANGED <<worker, queue>>
         ELSE Flush(Append(pending, e))

\* create_dpms_event (the value is not told apart), create_update_ready_event and
\* create_mode_changed_event
DpmsEvent == [type |-> "dpms", mode |-> NoMode]
ReadyEvent == [type |-> "ready", mode |-> NoMode]
ModeEvent(fb) == [type |-> "mode", mode |-> fb]

\* Defect: the work does not schedule itself again.
SendEventsWorkOnce ==
    /\ worker
    /\ LET room == EventSpace - Len(queue)
           n == IF Len(pending) < room THEN Len(pending) ELSE room
       IN  /\ queue' = queue \o SubSeq(pending, 1, n)
           /\ pending' = SubSeq(pending, n + 1, Len(pending))
           /\ worker' = FALSE
    /\ UNCHANGED <<painter, plane, commit, client, history>>

SendEventsWork ==
    /\ worker
    /\ Flush(pending)
    /\ UNCHANGED <<painter, plane, commit, client, history>>

-----------------------------------------------------------------------------
(* a commit of the desktop *)

\* The next operation of the commit in progress.
GoTo(at) == commit' = [commit EXCEPT !.at = at]
Marked(at) == commit' = [commit EXCEPT !.at = at, !.damage = {}]

\* mark_dirty: without a scanout buffer the rectangle is skipped.  More than
\* MAX_DIRTS rectangles are merged, which loses no pixel (see EvdiRects).
MarkDirty(tiles) ==
    IF scanout = NoMode THEN lost' = lost \cup tiles /\ UNCHANGED dirts
    ELSE dirts' = dirts \cup tiles /\ lost' = lost \ tiles

\* external: the desktop draws d and shows framebuffer fb, which may be the one
\* on display (flip = FALSE).  A framebuffer of another mode, or the first one,
\* is damaged all over.
StartCommit(fb, flip, d) ==
    /\ commit.at = "idle" /\ Len(pending) + Len(queue) <= MaxEvents
    /\ fb # NoMode \/ plane # NoMode
    /\ IF fb # plane THEN flip /\ d = (IF fb = NoMode THEN {} ELSE Tiles)
       ELSE d # {}
    /\ plane' = fb
    /\ commit' = [NoCommit EXCEPT !.at = "attach", !.fb = fb, !.old = plane,
                                  !.flip = flip, !.damage = d, !.event = TRUE]
    /\ owed' = owed + 1
    /\ behind' = behind \cup d
    /\ UNCHANGED <<painter, events, client, lost>>

\* external: the cursor moves over d.
StartCursorCommit(d) ==
    /\ commit.at = "idle" /\ Len(pending) + Len(queue) <= MaxEvents
    /\ plane # NoMode /\ d # {}
    /\ commit' = [NoCommit EXCEPT !.at = "cursor", !.fb = plane, !.old = plane,
                                  !.damage = d]
    /\ behind' = behind \cup d
    /\ UNCHANGED <<painter, events, plane, client, lost, owed>>

\* plane_atomic_update: dpms_notify when the plane gets or loses its crtc, and a
\* full modeset for the first framebuffer (the code also asks for one when only
\* the pixel format changes; Modes differ in resolution).
AttachPlane ==
    /\ commit.at = "attach"
    /\ IF (commit.fb = NoMode) # (commit.old = NoMode)
       THEN SendEvent(DpmsEvent) ELSE UNCHANGED events
    /\ IF commit.fb # NoMode /\ commit.old = NoMode
       THEN needsFull' = TRUE ELSE UNCHANGED needsFull
    /\ GoTo(IF commit.fb = NoMode THEN "flush" ELSE "scanout")
    /\ UNCHANGED <<connected, scanout, dirts, requested, held, plane, client,
                   history>>

\* set_scanout_buffer; nothing of it for the framebuffer on display already.
SetScanout ==
    /\ commit.at = "scanout"
    /\ IF commit.flip \/ needsFull
       THEN scanout' = commit.fb /\ GoTo("damage")
       ELSE UNCHANGED scanout /\ GoTo("rest")
    /\ UNCHANGED <<connected, dirts, requested, needsFull, held, events, plane,
                   client, history>>

\* The damage of a page flip.
MarkDamage ==
    /\ commit.at = "damage"
    /\ MarkDirty(commit.damage)
    /\ Marked("rest")
    /\ UNCHANGED <<connected, scanout, requested, needsFull, held, events, plane,
                   client, behind, owed>>

\* Nothing is dirty: everything is.  The damage of a commit that shows the same
\* framebuffer again is not looked at when something is dirty already.
MarkAll ==
    /\ commit.at = "rest"
    /\ IF dirts = {} THEN MarkDirty(Tiles)
       ELSE lost' = lost \cup (commit.damage \ dirts) /\ UNCHANGED dirts
    /\ Marked("flush")
    /\ UNCHANGED <<connected, scanout, requested, needsFull, held, events, plane,
                   client, behind, owed>>

\* cursor_atomic_update, cursor events disabled: the rectangle is dirty.
UpdateCursor ==
    /\ commit.at = "cursor"
    /\ MarkDirty(commit.damage)
    /\ Marked("flush")
    /\ UNCHANGED <<connected, scanout, requested, needsFull, held, events, plane,
                   client, behind, owed>>

\* Defect: only a full modeset is announced.
BeginFlushFullOnly ==
    /\ commit.at = "flush"
    /\ commit' = [commit EXCEPT
                    !.at = "mode",
                    !.announce = commit.fb # NoMode /\ needsFull,
                    !.dpms = \/ (commit.fb = NoMode) # (commit.old = NoMode)
                             \/ needsFull]
    /\ UNCHANGED <<painter, events, plane, client, history>>

\* crtc_atomic_flush: what there is to tell the client.
BeginFlush ==
    /\ commit.at = "flush"
    /\ commit' = [commit EXCEPT
                    !.at = "mode",
                    !.announce = /\ commit.fb # NoMode
                                 /\ commit.fb # commit.old \/ needsFull,
                    !.dpms = \/ (commit.fb = NoMode) # (commit.old = NoMode)
                             \/ needsFull]
    /\ UNCHANGED <<painter, events, plane, client, history>>

\* mode_changed_notify, without the lock: the event ...
NotifyMode ==
    /\ commit.at = "mode"
    /\ IF commit.announce /\ scanout # NoMode
       THEN SendEvent(ModeEvent(commit.fb)) /\ GoTo("clear")
       ELSE UNCHANGED events /\ GoTo("dpms")
    /\ UNCHANGED <<painter, plane, client, history>>

\* ... and then the flag, which a connect may have set in between.
ClearNeedsFull ==
    /\ commit.at = "clear"
    /\ needsFull' = FALSE
    /\ GoTo("dpms")
    /\ UNCHANGED <<connected, scanout, dirts, requested, held, events, plane,
                   client, history>>

NotifyDpms ==
    /\ commit.at = "dpms"
    /\ IF commit.dpms THEN SendEvent(DpmsEvent) ELSE UNCHANGED events
    /\ GoTo("vblank")
    /\ UNCHANGED <<painter, plane, client, history>>

\* Defect: the event of the previous commit is overwritten.
SetVblankOverwrites ==
    /\ commit.at = "vblank"
    /\ IF dirts # {} /\ connected
       THEN held' = commit.event /\ UNCHANGED owed
       ELSE held' = FALSE /\ owed' = owed - Count(commit.event)
    /\ GoTo("ready")
    /\ UNCHANGED <<connected, scanout, dirts, requested, needsFull, events, plane,
                   client, behind, lost>>

\* set_vblank: the event of the previous commit is sent; this one waits until
\* the client grabs the frame, if there is one to grab.
SetVblank ==
    /\ commit.at = "vblank"
    /\ IF dirts # {} /\ connected
       THEN held' = commit.event /\ owed' = owed - Count(held)
       ELSE held' = FALSE /\ owed' = owed - Count(held) - Count(commit.event)
    /\ GoTo("ready")
    /\ UNCHANGED <<connected, scanout, dirts, requested, needsFull, events, plane,
                   client, behind, lost>>

\* send_update_ready_if_needed, and the end of the commit.
UpdateReady ==
    /\ commit.at = "ready"
    /\ IF requested /\ dirts # {}
       THEN SendEvent(ReadyEvent) /\ requested' = FALSE
       ELSE UNCHANGED <<events, requested>>
    /\ commit' = NoCommit
    /\ UNCHANGED <<connected, scanout, dirts, needsFull, held, plane, client,
                   history>>

CommitStep ==
    \/ AttachPlane \/ SetScanout \/ MarkDamage \/ MarkAll \/ UpdateCursor
    \/ BeginFlush \/ NotifyMode \/ ClearNeedsFull \/ NotifyDpms \/ SetVblank
    \/ UpdateReady

-----------------------------------------------------------------------------
(* the client *)

\* Evdi() opens the device, Screen() connects to it.  dirts is what the last
\* client, or nobody, left.
Connect ==
    /\ pc = "off"
    /\ connected' = TRUE /\ needsFull' = TRUE
    /\ pc' = "loop"
    /\ UNCHANGED <<scanout, dirts, requested, held, events, plane, commit, batch,
                   buffers, grab, history>>

\* ~Screen disconnects, ~Evdi closes the file, and the events it holds go with
\* it; the disconnect of evdi_painter_close finds nobody connected.
Disconnect ==
    /\ pc = "loop"
    /\ connected' = FALSE /\ scanout' = NoMode /\ requested' = FALSE
    /\ pending' = <<>> /\ worker' = FALSE /\ queue' = <<>>
    /\ held' = FALSE /\ owed' = owed - Count(held)
    /\ pc' = "off" /\ buffers' = NoMode
    /\ behind' = {} /\ lost' = {}
    /\ UNCHANGED <<dirts, needsFull, plane, commit, batch, grab>>

\* evdi_request_update: nonzero if the library may grab at once.
GrabAtOnce == ~requested /\ dirts # {}

\* Defect: the request is recorded whatever is dirty.
UpdateAlwaysDeferred ==
    /\ pc = "loop" /\ buffers # NoMode
    /\ requested' = TRUE
    /\ UNCHANGED <<pc, connected, scanout, dirts, needsFull, held, events, plane,
                   commit, batch, buffers, grab, history>>

\* on_sync: Screen::update asks for an update; what is dirty already is grabbed
\* at once, otherwise the painter will send an event.
Update ==
    /\ pc = "loop" /\ buffers # NoMode
    /\ IF GrabAtOnce THEN pc' = "grab" /\ UNCHANGED requested
       ELSE requested' = TRUE /\ UNCHANGED pc
    /\ UNCHANGED <<connected, scanout, dirts, needsFull, held, events, plane,
                   commit, batch, buffers, grab, history>>

\* on_screen_event: evdi_handle_events reads what its file holds.
ReadEvents ==
    /\ pc = "loop" /\ queue # <<>>
    /\ batch' = queue /\ queue' = <<>>
    /\ pc' = "events"
    /\ UNCHANGED <<painter, pending, worker, plane, commit, buffers, grab, history>>

\* evdi_handle_event: on_mode_change replaces the buffers by new ones of the
\* mode, on_update_ready grabs.
HandleEvent ==
    /\ pc = "events" /\ batch # <<>>
    /\ batch' = Tail(batch)
    /\ buffers' = IF Head(batch).type = "mode" THEN Head(batch).mode ELSE buffers
    /\ pc' = IF Head(batch).type = "ready" THEN "grab" ELSE "events"
    /\ UNCHANGED <<painter, events, plane, commit, grab, history>>

EndEvents ==
    /\ pc = "events" /\ batch = <<>>
    /\ pc' = "loop"
    /\ UNCHANGED <<painter, events, plane, commit, batch, buffers, grab, history>>

\* grabpix, locked: the dirty rectangles and the vblank change hands.  Without a
\* scanout buffer it fails with EAGAIN and the library calls again.
GrabTake ==
    /\ pc = "grab" /\ scanout # NoMode
    /\ grab' = [fb |-> scanout, tiles |-> dirts, vblank |-> held]
    /\ dirts' = {} /\ held' = FALSE
    /\ pc' = "copy"
    /\ UNCHANGED <<connected, scanout, requested, needsFull, events, plane, commit,
                   batch, buffers, history>>

\* Tiles of the grab that were not drawn over since.
Fresh(g) == g.tiles \ (dirts \cup commit.damage \cup lost)

\* Defect: what is dirty is cleared after the copy.
GrabCopyClears(ok) ==
    /\ pc = "copy"
    /\ ok => buffers = grab.fb
    /\ IF ok THEN behind' = behind \ Fresh(grab) /\ UNCHANGED lost
       ELSE lost' = lost \cup Fresh(grab) /\ UNCHANGED behind
    /\ dirts' = {}
    /\ owed' = owed - Count(grab.vblank)
    /\ grab' = NoGrab
    /\ pc' = IF batch = <<>> THEN "loop" ELSE "events"
    /\ UNCHANGED <<connected, scanout, requested, needsFull, held, events, plane,
                   commit, batch, buffers>>

\* grabpix, unlocked: the copy, and then the vblank, whatever became of the
\* copy.  A buffer of another mode is refused (EINVAL), a copy may fail: the
\* rectangles are gone.  The driver encodes the buffer and returns to its loop.
GrabCopy(ok) ==
    /\ pc = "copy"
    /\ ok => buffers = grab.fb
    /\ IF ok THEN behind' = behind \ Fresh(grab) /\ UNCHANGED lost
       ELSE lost' = lost \cup Fresh(grab) /\ UNCHANGED behind
    /\ owed' = owed - Count(grab.vblank)
    /\ grab' = NoGrab
    /\ pc' = IF batch = <<>> THEN "loop" ELSE "events"
    /\ UNCHANGED <<painter, events, plane, commit, batch, buffers>>

ClientStep ==
    \/ Update \/ ReadEvents \/ HandleEvent \/ EndEvents
    \/ GrabTake \/ GrabCopy(TRUE) \/ GrabCopy(FALSE)

Next ==
    \/ \E fb \in Modes \cup {NoMode}, flip \in BOOLEAN, d \in SUBSET Tiles :
          StartCommit(fb, flip, d)
    \/ \E d \in SUBSET Tiles : StartCursorCommit(d)
    \/ CommitStep \/ ClientStep \/ SendEventsWork
    \/ Connect \/ Disconnect

Spec == Init /\ [][Next]_vars

\* The kernel finishes the commits it starts and runs the work it schedules.  A
\* turn of the event loop looks at the timer and at the file: neither starves
\* the other.
Fairness ==
    /\ WF_vars(CommitStep) /\ WF_vars(SendEventsWork)
    /\ WF_vars(ClientStep) /\ SF_vars(Update) /\ SF_vars(ReadEvents)

FairSpec == Spec /\ Fairness

-----------------------------------------------------------------------------
(* Properties *)

\* Every variable has a value of its type, and events the file had no room for
\* have the work scheduled that delivers them.
TypeOK ==
    /\ connected \in BOOLEAN /\ requested \in BOOLEAN /\ needsFull \in BOOLEAN
    /\ held \in BOOLEAN /\ worker \in BOOLEAN
    /\ scanout \in Modes \cup {NoMode} /\ plane \in Modes \cup {NoMode}
    /\ pending \in Seq(Event) /\ queue \in Seq(Event) /\ batch \in Seq(Event)
    /\ Len(queue) <= EventSpace
    /\ pending # <<>> => worker
    /\ pc \in {"off", "loop", "events", "grab", "copy"}
    /\ connected = (pc # "off")
    /\ buffers \in Modes \cup {NoMode}
    /\ \A s \in {dirts, behind, lost, grab.tiles, commit.damage} : s \subseteq Tiles

\* An update that was asked for is not forgotten: whenever something is dirty
\* and the client waits for an event, a commit is under way that will send it.
\* The request and the two places that look at it take the lock in turn.
UpdateNotLost == requested /\ dirts # {} => commit.at # "idle"

\* Every page flip ends exactly once: its event is with the commit, with the
\* painter or with the grab that took it, and the painter delays it only as
\* long as a connected client has something to grab.
FlipInCommit == commit.event /\ commit.at \notin {"idle", "ready"}
VblankAccounted ==
    /\ owed = Count(held) + Count(grab.vblank) + Count(FlipInCommit)
    /\ held => connected /\ dirts # {}

\* What the painter keeps under its lock fits together at every step: types,
\* update requests and page flips.
PainterConsistent == TypeOK /\ UpdateNotLost /\ VblankAccounted

\* What was drawn and not copied is dirty, in the hands of a grab, about to be
\* marked, or dropped in one of the ways the code drops it: a grab that failed
\* after it took the rectangles, damage of a framebuffer that is shown again
\* while something is dirty, damage without a scanout buffer.
DamageIsTracked ==
    behind \subseteq dirts \cup grab.tiles \cup commit.damage \cup lost

\* The buffers of the client have the mode of the scanout buffer, or will have
\* once it handled the events on their way to it and the commit in progress
\* told it: a grab is refused only for a while.  Told(b, s, m): a client with
\* buffers of mode b will have buffers of mode m after the events of s.
OnTheWay == batch \o queue \o pending
Told(b, s, m) ==
    \/ \E i \in 1..Len(s) : /\ s[i] = ModeEvent(m)
                            /\ \A j \in 1..Len(s) : j > i => s[j].type # "mode"
    \/ b = m /\ \A i \in 1..Len(s) : s[i].type # "mode"
BuffersFollowMode ==
    commit.at \notin {"damage", "rest", "flush", "mode"}
    => \A m \in Modes : Told(buffers, OnTheWay, m) => scanout = m

\* A dirty frame reaches a client that registered its buffers: the client
\* grabs, at its next update or when the event tells it to.
FrameReachesClient ==
    (buffers # NoMode /\ dirts # {}) ~> (dirts = {} \/ ~connected)
=============================================================================
