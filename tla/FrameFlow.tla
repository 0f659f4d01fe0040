------------------------------ MODULE FrameFlow ------------------------------
(***************************************************************************)
(* What EncodeEngine promises to the capture loop, whatever its threads,   *)
(* tasks and events: a mailbox that holds the latest frame only, a judge   *)
(* that may skip a frame only if it repeats the last one kept, and a       *)
(* two-place line in which kept frames reach the device in the order they  *)
(* were kept.                                                              *)
(***************************************************************************)
EXTENDS Naturals, Sequences

CONSTANTS
    Frames,
    NoFrame  \* not one of them

\* One frame in compress, one in transmit.
Capacity == 2

VARIABLES
    mailbox,  \* the frame waiting to be looked at
    judged,   \* the frame being compared with the last one kept
    last,     \* the last frame kept
    line,     \* kept frames on their way to the device
    shown     \* the last frame handed to the device

vars == <<mailbox, judged, last, line, shown>>

Init == /\ mailbox = NoFrame /\ judged = NoFrame
        /\ last = NoFrame /\ line = <<>> /\ shown = NoFrame

\* A frame that was not looked at yet is replaced.
Submit(f) == mailbox' = f /\ UNCHANGED <<judged, last, line, shown>>

Take == /\ mailbox # NoFrame /\ judged = NoFrame
        /\ judged' = mailbox /\ mailbox' = NoFrame
        /\ UNCHANGED <<last, line, shown>>

Skip == /\ judged # NoFrame /\ judged = last
        /\ judged' = NoFrame
        /\ UNCHANGED <<mailbox, last, line, shown>>

Keep == /\ judged # NoFrame /\ Len(line) < Capacity
        /\ judged' = NoFrame /\ last' = judged
        /\ line' = Append(line, judged)
        /\ UNCHANGED <<mailbox, shown>>

Deliver == /\ line # <<>>
           /\ shown' = Head(line) /\ line' = Tail(line)
           /\ UNCHANGED <<mailbox, judged, last>>

Judge == Skip \/ Keep

Next == (\E f \in Frames : Submit(f)) \/ Take \/ Judge \/ Deliver

\* Safety, and: every frame is looked at, decided and delivered in the end.
Safe == Init /\ [][Next]_vars
Spec == Safe /\ WF_vars(Take) /\ WF_vars(Judge) /\ WF_vars(Deliver)
=============================================================================
