----------------------------- MODULE MCPipeline -----------------------------
(***************************************************************************)
(* EncodePipeline for TLC.                                                 *)
(*                                                                         *)
(* Four task addresses are enough: one task waits in m_pNewTask and each   *)
(* of the three stages owns at most one.  With fewer, or with a leak,      *)
(* SubmitNew would block and TLC report the deadlock or the liveness       *)
(* violation that follows.                                                 *)
(***************************************************************************)
EXTENDS EncodePipeline, TLC

\* Addresses, contents and sizes are only ever compared for equality.
Sym == Permutations(Tasks) \cup Permutations(Images) \cup Permutations(Modes)

\* The liveness runs cannot use symmetry: they let `new` return the first free
\* address instead of any free one.  No property mentions an address.
FirstFit ==
    newTask = NoTask /\ newTask' # NoTask
    => newTask' = CHOOSE t \in Tasks : t \notin live
FirstFitSpec == Init /\ [][Next /\ FirstFit]_vars /\ Fairness
=============================================================================
