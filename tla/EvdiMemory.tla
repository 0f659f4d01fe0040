------------------------------ MODULE EvdiMemory ------------------------------
(***************************************************************************)
(* Who holds the framebuffers and buffer objects of a virtual card, and    *)
(* when their pages are pinned, mapped and given back.                     *)
(*                                                                         *)
(* Buffer objects (evdi_gem.c) are held by the handles, memory maps and    *)
(* exports of the desktop, by framebuffers (evdi_fb.c) and by the cursor   *)
(* (evdi_cursor.c); framebuffers by their id, by the planes, by the        *)
(* painter's scanout_fb and by a grab in progress (evdi_painter.c).  The   *)
(* holders work at the same time: a commit of the desktop, a client that   *)
(* grabs, one that disconnects, and the desktop's requests.  Each lock is  *)
(* held over single operations only, so the counts alone keep a buffer     *)
(* alive between them.                                                     *)
(*                                                                         *)
(* Kernel 5.13 or later.  A desktop draws its cursor in a buffer of its    *)
(* own (two mappers of one object are a hazard the README lists).          *)
(***************************************************************************)
EXTENDS Naturals, FiniteSets

CONSTANTS
    Objs,     \* buffer objects
    Shared,   \* those of the desktop's own that it maps into processes or exports
    Fbs,      \* framebuffers
    None,     \* NULL
    Kinds,    \* of objects: "own", "import" (from a driver other than amdgpu), "amdgpu"
    MaxPins   \* bound: of an object pinned so often no mmap offset is asked, and
              \* mapping it does not fail any more

ASSUME MemoryAssumption ==
    /\ IsFiniteSet(Fbs)
    /\ None \notin Objs /\ None \notin Fbs /\ Shared \subseteq Objs
    /\ "own" \in Kinds /\ Kinds \subseteq {"own", "import", "amdgpu"}
    /\ MaxPins \in Nat

VARIABLES
    mem,        \* .obj and .fb: the records of the objects and framebuffers
    phase,      \* "setup", "live", "failed", "unloaded"
    console,    \* external: framebuffer of evdi->fbdev
    plane,      \* external: state->fb of the primary plane
    cursorPlane,\* external: state->fb of the cursor plane
    scanout,    \* painter->scanout_fb
    cursor,     \* cursor->enabled, cursor->obj
    cursorLock, \* a grab holds cursor->lock
    commit,     \* the commit in progress
    grab,       \* the evdi_painter_grabpix_ioctl in progress
    leaving     \* a disconnect holds the painter lock, its cursor still enabled

display == <<plane, cursorPlane, scanout, cursor>>
vars == <<mem, phase, console, display, cursorLock, commit, grab, leaving>>

Free == [ref |-> 0, kind |-> "own", handle |-> FALSE, offset |-> FALSE,
         vma |-> FALSE, exported |-> FALSE, pages |-> FALSE, pins |-> 0,
         mapped |-> FALSE, maps |-> 0]
NoFb == [ref |-> 0, obj |-> None, id |-> FALSE]
NoCommit == [at |-> "idle", fb |-> None, old |-> None, drop |-> None]
NoGrab == [at |-> "idle", fb |-> None, cursor |-> None]

Init ==
    /\ mem = [obj |-> [o \in Objs |-> Free], fb |-> [f \in Fbs |-> NoFb]]
    /\ phase = "setup" /\ console = None
    /\ plane = None /\ cursorPlane = None /\ scanout = None
    /\ cursor = [enabled |-> FALSE, obj |-> None] /\ cursorLock = FALSE
    /\ commit = NoCommit /\ grab = NoGrab /\ leaving = FALSE

Count(b) == IF b THEN 1 ELSE 0

-----------------------------------------------------------------------------
(* pages and mappings of one object *)

\* evdi_pin_pages: the pages are there from the first pin on.  When they
\* cannot be had the count is taken back (the callers skip this operator).
Pin(r) == [r EXCEPT !.pins = @ + 1, !.pages = TRUE]

\* Defect: every unpin gives the pages back.
UnpinGivesBack(r) == [r EXCEPT !.pins = @ - 1, !.pages = FALSE]

\* evdi_unpin_pages: the last pin gives the pages back.
Unpin(r) == [r EXCEPT !.pins = @ - 1, !.pages = @ /\ r.pins # 1]

\* evdi_gem_vmap, by its result.  Foreign memory is mapped by its exporter;
\* when vmap() fails the pin of our own stays.
Vmap(r, result) ==
    CASE result = "ok" /\ r.kind = "import" -> [r EXCEPT !.mapped = TRUE, !.maps = @ + 1]
      [] result = "ok" /\ r.kind # "import" -> [Pin(r) EXCEPT !.mapped = TRUE, !.maps = @ + 1]
      [] result = "noMap" /\ r.kind # "import" -> Pin(r)
      [] OTHER -> r

\* evdi_gem_vunmap
Vunmap(r) ==
    LET u == [r EXCEPT !.mapped = FALSE, !.maps = @ - 1]
    IN  IF r.kind = "import" THEN u ELSE Unpin(u)

\* evdi_gem_put_pages, whatever is pinned
PutPages(r) == [r EXCEPT !.pages = FALSE]

\* evdi_gem_free_object
FreeObject(r) == PutPages(IF r.mapped THEN Vunmap(r) ELSE r)

-----------------------------------------------------------------------------
(* references, on the record m of all memory *)

GetObj(m, o) == [m EXCEPT !.obj[o].ref = @ + 1]

PutObj(m, o) ==
    LET r == [m.obj[o] EXCEPT !.ref = @ - 1]
    IN  [m EXCEPT !.obj[o] = IF r.ref = 0 THEN FreeObject(r) ELSE r]

GetFb(m, f) == IF f = None THEN m ELSE [m EXCEPT !.fb[f].ref = @ + 1]

\* evdi_user_framebuffer_destroy follows the last put.
PutFb(m, f) ==
    IF f = None THEN m
    ELSE IF m.fb[f].ref > 1 THEN [m EXCEPT !.fb[f].ref = @ - 1]
    ELSE PutObj([m EXCEPT !.fb[f] = NoFb], m.fb[f].obj)

\* evdi_cursor_set_gem: the new object is taken before the old one is put,
\* which may be the same.
SetGem(m, o) ==
    LET taken == IF o = None THEN m ELSE GetObj(m, o)
    IN  IF cursor.obj = None THEN taken ELSE PutObj(taken, cursor.obj)

-----------------------------------------------------------------------------
(* the console framebuffer: evdi_fbdev_init and evdifb_create *)

Mapped == Vmap([Free EXCEPT !.ref = 1], "ok")

\* No object: evdifb_create reports success without a framebuffer, and the
\* card comes up without a console.
SetupWithoutConsole ==
    /\ phase = "setup" /\ phase' = "live"
    /\ UNCHANGED <<mem, console, display, cursorLock, commit, grab, leaving>>

SetupConsole(f, o) ==
    /\ phase = "setup" /\ phase' = "live"
    /\ console' = f
    /\ mem' = [mem EXCEPT !.obj[o] = Mapped, !.fb[f] = [NoFb EXCEPT !.ref = 1, !.obj = o]]
    /\ UNCHANGED <<display, cursorLock, commit, grab, leaving>>

\* A failing step puts efbdev->efb.obj, which is NULL until the framebuffer is
\* initialised: the object of an earlier failure stays behind.
SetupFails(o, step) ==
    /\ phase = "setup" /\ phase' = "failed"
    /\ mem' = [mem EXCEPT !.obj[o] =
                 CASE step = "pin"  -> [Free EXCEPT !.ref = 1]
                   [] step = "vmap" -> Vmap([Free EXCEPT !.ref = 1], "noMap")
                   [] step = "info" -> Mapped
                   [] step = "cmap" -> FreeObject([Mapped EXCEPT !.ref = 0])]
    /\ UNCHANGED <<console, display, cursorLock, commit, grab, leaving>>

-----------------------------------------------------------------------------
(* requests of the desktop *)

Others == UNCHANGED <<phase, console, display, cursorLock, commit, grab, leaving>>
Opened == phase \in {"live", "unloaded"}
Change(o, r) == mem' = [mem EXCEPT !.obj[o] = r]

\* evdi_dumb_create and evdi_gem_create; a handle that cannot be made leaves nothing.
DumbCreate(o) ==
    /\ phase = "live" /\ mem.obj[o].ref = 0
    /\ Change(o, [Free EXCEPT !.ref = 1, !.handle = TRUE])
    /\ Others

\* evdi_prime_import_sg_table: the pages of the exporter, unpinned.
Import(o, kind) ==
    /\ phase = "live" /\ mem.obj[o].ref = 0 /\ kind # "own" /\ o \notin Shared
    /\ Change(o, [Free EXCEPT !.ref = 1, !.handle = TRUE, !.kind = kind, !.pages = TRUE])
    /\ Others

\* external: the desktop closes the handle.
CloseHandle(o) ==
    /\ Opened /\ mem.obj[o].handle
    /\ mem' = PutObj([mem EXCEPT !.obj[o].handle = FALSE], o)
    /\ Others

\* evdi_gem_mmap: every request pins the pages until the object is freed.
MapOffset(o) ==
    /\ phase = "live" /\ mem.obj[o].handle /\ mem.obj[o].pins < MaxPins
    /\ Change(o, [Pin(mem.obj[o]) EXCEPT !.offset = TRUE])
    /\ Others

\* evdi_drm_gem_mmap (drm_gem_mmap takes a reference)
Mmap(o) ==
    /\ phase = "live" /\ mem.obj[o].handle /\ mem.obj[o].offset /\ ~mem.obj[o].vma
    /\ mem' = GetObj([mem EXCEPT !.obj[o].vma = TRUE], o)
    /\ Others

\* external: drm_gem_vm_close
Munmap(o) ==
    /\ Opened /\ mem.obj[o].vma
    /\ mem' = PutObj([mem EXCEPT !.obj[o].vma = FALSE], o)
    /\ Others

\* evdi_prime_pin for another driver that attaches to the exported object.
Export(o) ==
    /\ phase = "live" /\ mem.obj[o].handle /\ mem.obj[o].kind = "own"
    /\ ~mem.obj[o].exported
    /\ mem' = GetObj([mem EXCEPT !.obj[o] = Pin([@ EXCEPT !.exported = TRUE])], o)
    /\ Others

\* evdi_prime_unpin
Unexport(o) ==
    /\ Opened /\ mem.obj[o].exported
    /\ mem' = PutObj([mem EXCEPT !.obj[o] = Unpin([@ EXCEPT !.exported = FALSE])], o)
    /\ Others

\* evdi_fb_user_fb_create: the reference of the lookup becomes the framebuffer's;
\* each failure puts it and leaves nothing.
UserFbCreate(f, o) ==
    /\ phase = "live" /\ mem.obj[o].handle /\ mem.fb[f].ref = 0
    /\ mem' = GetObj([mem EXCEPT !.fb[f] = [ref |-> 1, obj |-> o, id |-> TRUE]], o)
    /\ Others

\* evdi_user_framebuffer_create_handle
CreateHandle(f) ==
    /\ phase = "live" /\ mem.fb[f].ref > 0 /\ ~mem.obj[mem.fb[f].obj].handle
    /\ mem' = GetObj([mem EXCEPT !.obj[mem.fb[f].obj].handle = TRUE], mem.fb[f].obj)
    /\ Others

\* external: the desktop removes the framebuffer's id.
RemoveFb(f) ==
    /\ Opened /\ mem.fb[f].id
    /\ mem' = PutFb([mem EXCEPT !.fb[f].id = FALSE], f)
    /\ Others

-----------------------------------------------------------------------------
(* commits: one at a time, the modeset locks *)

Shown == {f \in Fbs : mem.fb[f].id \/ console = f}
ObjOf(f) == IF f = None THEN None ELSE mem.fb[f].obj

\* external: the new state of a plane holds its framebuffer.
StartCommit(f) ==
    /\ phase = "live" /\ commit.at = "idle" /\ f # plane
    /\ cursorPlane = None \/ ObjOf(f) # ObjOf(cursorPlane)
    /\ mem' = GetFb(mem, f) /\ plane' = f
    /\ commit' = [NoCommit EXCEPT !.at = IF f = None THEN "finish" ELSE "scanout",
                                  !.fb = f, !.old = plane]
    /\ UNCHANGED <<phase, console, cursorPlane, scanout, cursor, cursorLock, grab, leaving>>

\* Defect: the painter borrows the framebuffer of the plane.
SetScanoutBorrows ==
    /\ commit.at = "scanout" /\ ~leaving
    /\ scanout' = commit.fb
    /\ commit' = [commit EXCEPT !.at = "drop", !.drop = scanout]
    /\ UNCHANGED <<mem, phase, console, plane, cursorPlane, cursor, cursorLock, grab, leaving>>

\* evdi_painter_set_scanout_buffer: get, swap under the painter lock ...
SetScanout ==
    /\ commit.at = "scanout" /\ ~leaving
    /\ mem' = GetFb(mem, commit.fb) /\ scanout' = commit.fb
    /\ commit' = [commit EXCEPT !.at = "drop", !.drop = scanout]
    /\ UNCHANGED <<phase, console, plane, cursorPlane, cursor, cursorLock, grab, leaving>>

\* ... and put the old one.
DropScanout ==
    /\ commit.at = "drop"
    /\ mem' = PutFb(mem, commit.drop)
    /\ commit' = [commit EXCEPT !.at = "finish", !.drop = None]
    /\ UNCHANGED <<phase, console, display, cursorLock, grab, leaving>>

\* external: the old state of the plane is destroyed.
FinishCommit ==
    /\ commit.at = "finish"
    /\ mem' = PutFb(mem, commit.old) /\ commit' = NoCommit
    /\ UNCHANGED <<phase, console, display, cursorLock, grab, leaving>>

StartCursorCommit(f) ==
    /\ phase = "live" /\ commit.at = "idle" /\ f # cursorPlane
    /\ f # None => /\ ObjOf(f) # ObjOf(plane) /\ ObjOf(f) # ObjOf(scanout)
                   /\ ObjOf(f) # ObjOf(grab.fb) /\ f # console
    /\ mem' = GetFb(mem, f) /\ cursorPlane' = f
    /\ commit' = [NoCommit EXCEPT !.at = IF f = None THEN "enable" ELSE "cursor",
                                  !.fb = f, !.old = cursorPlane]
    /\ UNCHANGED <<phase, console, plane, scanout, cursor, cursorLock, grab, leaving>>

Results == {"ok", "noPages", "noMap"}
CanFail(o) == mem.obj[o].pins < MaxPins

\* evdi_cursor_set: an object that cannot be mapped is no cursor.
CursorSet(result) ==
    /\ commit.at = "cursor" /\ ~cursorLock
    /\ LET o == ObjOf(commit.fb)
           needed == ~mem.obj[o].mapped
           new == IF needed /\ result # "ok" THEN None ELSE o
           m == IF needed THEN [mem EXCEPT !.obj[o] = Vmap(@, result)] ELSE mem
       IN  /\ result = "ok" \/ (needed /\ CanFail(o))
           /\ cursor' = [enabled |-> new # None, obj |-> new]
           /\ mem' = SetGem(m, new)
    /\ commit' = [commit EXCEPT !.at = "enable"]
    /\ UNCHANGED <<phase, console, plane, cursorPlane, scanout, cursorLock, grab, leaving>>

\* evdi_cursor_enable(fb != NULL), in a critical section of its own.
CursorEnable ==
    /\ commit.at = "enable" /\ ~cursorLock
    /\ IF commit.fb = None
       THEN mem' = SetGem(mem, None) /\ cursor' = [enabled |-> FALSE, obj |-> None]
       ELSE cursor' = [cursor EXCEPT !.enabled = TRUE] /\ UNCHANGED mem
    /\ commit' = [commit EXCEPT !.at = "finish"]
    /\ UNCHANGED <<phase, console, plane, cursorPlane, scanout, cursorLock, grab, leaving>>

-----------------------------------------------------------------------------
(* a client *)

\* evdi_painter_grabpix_ioctl, under the painter lock: any file of the card may.
GrabTake ==
    /\ phase = "live" /\ grab.at = "idle" /\ ~leaving /\ scanout # None
    /\ mem' = GetFb(mem, scanout)
    /\ grab' = [NoGrab EXCEPT !.at = "map", !.fb = scanout]
    /\ UNCHANGED <<phase, console, display, cursorLock, commit, leaving>>

\* Without the lock: the object is mapped by its first grab.  No mapping, and
\* nothing is copied.
GrabMap(result) ==
    /\ grab.at = "map"
    /\ LET o == ObjOf(grab.fb)
           needed == ~mem.obj[o].mapped
       IN  /\ result = "ok" \/ (needed /\ CanFail(o))
           /\ mem' = IF needed THEN [mem EXCEPT !.obj[o] = Vmap(@, result)] ELSE mem
           /\ grab' = [grab EXCEPT !.at = IF needed /\ result # "ok" THEN "put" ELSE "copy"]
    /\ UNCHANGED <<phase, console, display, cursorLock, commit, leaving>>

\* Another size or a fault of the client's memory ends the grab; copying the
\* primary pixels leads to copy_cursor_pixels.
GrabCopy ==
    /\ grab.at = "copy"
    /\ \/ grab' = [grab EXCEPT !.at = "put"] /\ UNCHANGED cursorLock
       \/ /\ ~cursorLock /\ cursorLock' = TRUE
          /\ grab' = [grab EXCEPT !.at = "compose",
                                  !.cursor = IF cursor.enabled THEN cursor.obj ELSE None]
    /\ UNCHANGED <<mem, phase, console, display, commit, leaving>>

\* evdi_cursor_compose_and_copy has read both mappings.
GrabCompose ==
    /\ grab.at = "compose" /\ cursorLock' = FALSE
    /\ grab' = [grab EXCEPT !.at = "put", !.cursor = None]
    /\ UNCHANGED <<mem, phase, console, display, commit, leaving>>

GrabPut ==
    /\ grab.at = "put"
    /\ mem' = PutFb(mem, grab.fb) /\ grab' = NoGrab
    /\ UNCHANGED <<phase, console, display, cursorLock, commit, leaving>>

\* evdi_painter_disconnect: the painter lock is held until the cursor is disabled.
Disconnect ==
    /\ phase = "live" /\ ~leaving
    /\ mem' = PutFb(mem, scanout) /\ scanout' = None /\ leaving' = TRUE
    /\ UNCHANGED <<phase, console, plane, cursorPlane, cursor, cursorLock, commit, grab>>

\* evdi_cursor_enable(false)
CursorDisable ==
    /\ leaving /\ ~cursorLock /\ leaving' = FALSE
    /\ mem' = SetGem(mem, None) /\ cursor' = [enabled |-> FALSE, obj |-> None]
    /\ UNCHANGED <<phase, console, plane, cursorPlane, scanout, cursorLock, commit, grab>>

\* evdi_drm_device_unload, with nothing in progress and the console not on
\* display: the cursor's object, the scanout buffer, the console (whose
\* framebuffer is part of it) and the planes' framebuffers.
Unload ==
    /\ phase = "live" /\ phase' = "unloaded"
    /\ commit.at = "idle" /\ grab.at = "idle" /\ ~leaving
    /\ console # None => console \notin {plane, scanout}
    /\ LET m1 == SetGem(mem, None)
           m2 == PutFb(m1, scanout)
           m3 == PutFb(PutFb(m2, plane), cursorPlane)
       IN  mem' = IF console = None THEN m3
                  ELSE PutObj([m3 EXCEPT !.fb[console] = NoFb], ObjOf(console))
    /\ scanout' = None /\ console' = None /\ plane' = None /\ cursorPlane' = None
    /\ cursor' = [enabled |-> FALSE, obj |-> None]
    /\ UNCHANGED <<cursorLock, commit, grab, leaving>>

-----------------------------------------------------------------------------
Setup ==
    \/ SetupWithoutConsole
    \/ \E f \in Fbs, o \in Objs : SetupConsole(f, o)
    \/ \E o \in Objs, step \in {"pin", "vmap", "info", "cmap"} : SetupFails(o, step)

Desktop ==
    \/ \E o \in Objs : DumbCreate(o) \/ CloseHandle(o)
    \/ \E o \in Shared : MapOffset(o) \/ Mmap(o) \/ Munmap(o) \/ Export(o) \/ Unexport(o)
    \/ \E o \in Objs, kind \in Kinds : Import(o, kind)
    \/ \E f \in Fbs, o \in Objs : UserFbCreate(f, o)
    \/ \E f \in Fbs : CreateHandle(f) \/ RemoveFb(f)

Commit ==
    \/ \E f \in Shown \cup {None} : StartCommit(f) \/ StartCursorCommit(f)
    \/ SetScanout \/ DropScanout \/ FinishCommit \/ CursorEnable
    \/ \E result \in Results : CursorSet(result)

Client ==
    \/ GrabTake \/ GrabCopy \/ GrabCompose \/ GrabPut \/ Disconnect \/ CursorDisable
    \/ \E result \in Results : GrabMap(result)

Next == Setup \/ Desktop \/ Commit \/ Client \/ Unload

Spec == Init /\ [][Next]_vars

-----------------------------------------------------------------------------
(* Properties *)

ObjRecord == [ref : Nat, kind : {"own", "import", "amdgpu"}, handle : BOOLEAN,
              offset : BOOLEAN, vma : BOOLEAN, exported : BOOLEAN,
              pages : BOOLEAN, pins : Nat, mapped : BOOLEAN, maps : Nat]
FbRecord == [ref : Nat, obj : Objs \cup {None}, id : BOOLEAN]

\* Every variable has a value of its type; a count that is put or unpinned once
\* too often has none.
TypeOK ==
    /\ mem \in [obj : [Objs -> ObjRecord], fb : [Fbs -> FbRecord]]
    /\ phase \in {"setup", "live", "failed", "unloaded"}
    /\ {console, plane, cursorPlane, scanout} \subseteq Fbs \cup {None}
    /\ cursor \in [enabled : BOOLEAN, obj : Objs \cup {None}]
    /\ cursorLock \in BOOLEAN /\ leaving \in BOOLEAN
    /\ commit \in [at : {"idle", "scanout", "drop", "finish", "cursor", "enable"},
                   fb : Fbs \cup {None}, old : Fbs \cup {None}, drop : Fbs \cup {None}]
    /\ grab \in [at : {"idle", "map", "copy", "compose", "put"},
                 fb : Fbs \cup {None}, cursor : Objs \cup {None}]

FbHolders(f) ==
    Count(mem.fb[f].id) + Count(console = f) + Count(plane = f)
    + Count(cursorPlane = f) + Count(scanout = f) + Count(grab.fb = f)
    + Count(commit.old = f) + Count(commit.drop = f)

ObjHolders(o) ==
    Count(mem.obj[o].handle) + Count(mem.obj[o].vma) + Count(mem.obj[o].exported)
    + Count(cursor.obj = o) + Cardinality({f \in Fbs : mem.fb[f].obj = o})

\* Each count is the number of holders, across commits, grabs, disconnects and
\* the desktop's requests in any order: nothing is freed under a holder, and
\* what nobody holds has been freed.  (A failed setup leaves its object behind:
\* a finding.)
RefsCounted ==
    phase # "failed" =>
        /\ \A f \in Fbs : mem.fb[f].ref = FbHolders(f)
        /\ \A o \in Objs : mem.obj[o].ref = ObjHolders(o)

\* What a grab reads while commits replace the scanout buffer, the desktop
\* removes it and a disconnect disables the cursor is alive and mapped: the
\* framebuffer's object, and the cursor's until the cursor is unlocked.
GrabReadsMapped ==
    /\ grab.at \in {"copy", "compose"} =>
         /\ mem.fb[grab.fb].ref > 0
         /\ mem.obj[ObjOf(grab.fb)].ref > 0 /\ mem.obj[ObjOf(grab.fb)].mapped
    /\ grab.cursor # None =>
         mem.obj[grab.cursor].ref > 0 /\ mem.obj[grab.cursor].mapped

\* Pages under a kernel mapping stay pinned, and a page fault of a process
\* that mapped the object finds them, whoever pins and unpins in between.
MappedHasPages ==
    \A o \in Objs : mem.obj[o].ref > 0 =>
        /\ mem.obj[o].mapped /\ mem.obj[o].kind # "import" =>
             mem.obj[o].pages /\ mem.obj[o].pins > 0
        /\ mem.obj[o].vma => mem.obj[o].pages

\* An object is freed without its pages and with every mapping undone.
FreedIsClean ==
    \A o \in Objs : mem.obj[o].ref = 0 => ~mem.obj[o].pages /\ mem.obj[o].maps = 0

\* No memory is used after it was given back, and none is given back in use:
\* types, grabs, mappings and frees.
MemorySafe == TypeOK /\ GrabReadsMapped /\ MappedHasPages /\ FreedIsClean
=============================================================================
