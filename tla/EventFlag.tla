------------------------------ MODULE EventFlag ------------------------------
(***************************************************************************)
(* What an event_t promises: a binary flag.  A set is remembered until one *)
(* wait takes it, sets that come before are merged, and a timed wait that  *)
(* gives up takes nothing.  EncodePipeline and UsbHost use events in this  *)
(* form, one step per call.                                                *)
(***************************************************************************)
CONSTANTS Waiters, TimedWaiters

VARIABLES flag, calling  \* the waiters inside wait_event or time_wait_event

vars == <<flag, calling>>

Init == flag = FALSE /\ calling = {}

Set == flag' = TRUE /\ UNCHANGED calling

Call(w) == w \notin calling /\ calling' = calling \cup {w} /\ UNCHANGED flag

Take(w) == w \in calling /\ flag /\ flag' = FALSE /\ calling' = calling \ {w}

GiveUp(w) == w \in calling /\ calling' = calling \ {w} /\ UNCHANGED flag

SomeTake == \E w \in Waiters : Take(w)

Next == \/ Set
        \/ \E w \in Waiters : Call(w)
        \/ SomeTake
        \/ \E w \in TimedWaiters : GiveUp(w)

Safe == Init /\ [][Next]_vars

\* A set flag does not stay set while somebody waits for it.
Spec == Safe /\ WF_vars(SomeTake)
=============================================================================
