------------------------------ MODULE MCPainter ------------------------------
(* EvdiPainter with the rectangles its tiles stand for. *)
EXTENDS EvdiPainter, EvdiRects

\* Whenever something is dirty, the list of rectangles that holds it can take
\* and give what the painter puts into it: no list of at most MAX_DIRTS
\* rectangles loses a dirty pixel when it is full and merged or collapsed, or
\* when a rectangle that sticks out of the framebuffer is added, and none
\* outgrows dirty_rects[].
RectsKeepDamage ==
    dirts # {} => MarksAreExact /\ MarksAreKept /\ GrabsAreComplete
=============================================================================
