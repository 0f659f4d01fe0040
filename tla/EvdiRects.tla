------------------------------ MODULE EvdiRects ------------------------------
(***************************************************************************)
(* The arithmetic of the painter's dirty rectangles (evdi_painter.c).      *)
(*                                                                         *)
(* The painter has room for MAX_DIRTS of them.  When it is full it merges  *)
(* pairs whose bounding box is not larger than the two, and if none is, it *)
(* collapses all into one.  EvdiPainter takes the rectangles for the set   *)
(* of tiles they cover; the properties at the end are what entitles it to. *)
(*                                                                         *)
(* Lists are numbered from 1.  A rectangle includes x1, y1 and not x2, y2. *)
(***************************************************************************)
EXTENDS Naturals, Sequences, FiniteSets

CONSTANTS
    Width, Height,  \* of the framebuffer
    MaxDirts        \* MAX_DIRTS, 16 in the code

ASSUME RectsAssumption ==
    Width \in Nat \ {0} /\ Height \in Nat \ {0} /\ MaxDirts \in Nat \ {0, 1}

\* struct drm_clip_rect as callers pass it, and as the painter keeps it
Clip == [x1 : Nat, y1 : Nat, x2 : Nat, y2 : Nat]
Rect == {r \in [x1 : 0..Width, y1 : 0..Height, x2 : 0..Width, y2 : 0..Height] :
            r.x1 <= r.x2 /\ r.y1 <= r.y2}

Lesser(m, n) == IF m < n THEN m ELSE n
Greater(m, n) == IF m < n THEN n ELSE m

\* evdi_framebuffer_sanitize_rect: corners in order, inside the framebuffer.
sanitize_rect(c) ==
    [x1 |-> Lesser(Lesser(c.x1, c.x2), Width),
     y1 |-> Lesser(Lesser(c.y1, c.y2), Height),
     x2 |-> Lesser(Greater(c.x1, c.x2), Width),
     y2 |-> Lesser(Greater(c.y1, c.y2), Height)]

expand_rect(a, b) ==
    [x1 |-> Lesser(a.x1, b.x1), y1 |-> Lesser(a.y1, b.y1),
     x2 |-> Greater(a.x2, b.x2), y2 |-> Greater(a.y2, b.y2)]

\* A mode has fewer than 2^26 pixels (evdi_modeset.c:522), so no int overflows.
rect_area(r) == (r.x2 - r.x1) * (r.y2 - r.y1)

\* The rectangles in the middle of merge_dirty_rects, and its loop variables.
Merging == {m \in [rects : Seq(Rect), a : Nat, b : Nat] : 0 < m.a /\ m.a < m.b}

\* The box of both is not larger than the two.
Mergeable(rects, a, b) ==
    rect_area(expand_rect(rects[a], rects[b])) <= rect_area(rects[a]) + rect_area(rects[b])

Shortened(rects) == SubSeq(rects, 1, Len(rects) - 1)

\* Defect: the last rectangle does not take the place of the merged one.
MergePairDropsLast(rects, a, b) ==
    Shortened([rects EXCEPT ![a] = expand_rect(rects[a], rects[b])])

\* Rectangle b is merged into a and replaced by the last one.
MergePair(rects, a, b) ==
    Shortened([rects EXCEPT ![a] = expand_rect(rects[a], rects[b]), ![b] = rects[Len(rects)]])

\* One turn of the loops: after a merge, a is compared with all that follow once more.
MergeStep(m) ==
    IF m.b > Len(m.rects) THEN [m EXCEPT !.a = m.a + 1, !.b = m.a + 2]
    ELSE IF Mergeable(m.rects, m.a, m.b)
         THEN [rects |-> MergePair(m.rects, m.a, m.b), a |-> m.a, b |-> m.a + 1]
         ELSE [m EXCEPT !.b = m.b + 1]

Merged[m \in Merging] ==
    IF m.a >= Len(m.rects) THEN m.rects ELSE Merged[MergeStep(m)]

merge_dirty_rects(rects) == Merged[[rects |-> rects, a |-> 1, b |-> 2]]

\* The box around the first n of them, and the loop of collapse_dirty_rects.
Boxes(rects) ==
    LET box[n \in 1..Len(rects)] ==
            IF n = 1 THEN rects[1] ELSE expand_rect(box[n - 1], rects[n])
    IN  box

collapse_dirty_rects(rects) == <<Boxes(rects)[Len(rects)]>>

\* evdi_painter_mark_dirty with a scanout buffer
mark_dirty(rects, clip) ==
    LET merged == IF Len(rects) = MaxDirts THEN merge_dirty_rects(rects) ELSE rects
        room == IF Len(merged) = MaxDirts THEN collapse_dirty_rects(merged) ELSE merged
    IN  Append(room, sanitize_rect(clip))

\* evdi_painter_grabpix_ioctl: what a client with room for space rectangles gets.
grabpix(rects, space) ==
    LET merged == merge_dirty_rects(rects)
    IN  IF Len(merged) > space THEN collapse_dirty_rects(merged) ELSE merged

\* The library has room for MAX_DIRTS.
evdi_grab_pixels(rects) == grabpix(rects, MaxDirts)

-----------------------------------------------------------------------------
(* Reference: the pixels *)

Pixels == (0..(Width - 1)) \X (0..(Height - 1))
Between(m, n, p) == Lesser(m, n) <= p /\ p < Greater(m, n)

\* The pixels of the framebuffer between two corners, in whatever order.
Drawn(c) == {p \in Pixels : Between(c.x1, c.x2, p[1]) /\ Between(c.y1, c.y2, p[2])}
Covered(rects) == UNION {Drawn(rects[i]) : i \in DOMAIN rects}

\* The pixels that are copied for the first n rectangles, and for all.
Areas(rects) ==
    LET sum[n \in 0..Len(rects)] ==
            IF n = 0 THEN 0 ELSE sum[n - 1] + rect_area(rects[n])
    IN  sum
Area(rects) == Areas(rects)[Len(rects)]

\* Bound: rectangles a caller passes reach at most one pixel beyond the
\* framebuffer.
Clips == [x1 : 0..(Width + 1), y1 : 0..(Height + 1),
          x2 : 0..(Width + 1), y2 : 0..(Height + 1)]
Lists == UNION {[1..n -> Rect] : n \in 0..MaxDirts}

\* What a caller marks is dirty, exactly what it marked of the framebuffer.
MarksAreExact == \A c \in Clips : sanitize_rect(c) \in Rect
                                  /\ Drawn(sanitize_rect(c)) = Drawn(c)

\* Corners in the wrong order, one of them beyond the framebuffer.
Awkward == [x1 |-> Width + 1, y1 |-> 0, x2 |-> Width - 1, y2 |-> Height]

\* From any list the painter may hold: there is room for what is marked next,
\* what was dirty stays dirty, the new rectangle is at the end, and a list that
\* is not full is left alone.
MarksAreKept ==
    \A rects \in Lists, clip \in {Awkward} :
        LET marked == mark_dirty(rects, clip)
        IN  /\ Len(marked) <= MaxDirts
            /\ \A i \in DOMAIN marked : marked[i] \in Rect
            /\ Covered(rects) \cup Drawn(clip) \subseteq Covered(marked)
            /\ marked[Len(marked)] = sanitize_rect(clip)
            /\ Len(rects) < MaxDirts => Shortened(marked) = rects

\* A grab, for any room of at least one rectangle, covers what was dirty; and as
\* long as nothing is collapsed no more is copied than before.
GrabsAreComplete ==
    \A rects \in Lists : \A space \in 1..MaxDirts :
        LET grabbed == grabpix(rects, space)
        IN  /\ Len(grabbed) <= space
            /\ Covered(rects) \subseteq Covered(grabbed)
            /\ Len(merge_dirty_rects(rects)) <= space => Area(grabbed) <= Area(rects)
=============================================================================
