------------------------------ MODULE EventSync ------------------------------
(***************************************************************************)
(* libenc/event.c: set_event, wait_event and time_wait_event on one        *)
(* event_t, at the granularity of the pthread calls: a mutex, a condition  *)
(* variable that may wake a sleeper for no reason, and a flag.             *)
(*                                                                         *)
(* EncodeEngine::SendEvent and the wait at the top of Run use m_engine the *)
(* same way, with a flag word in which only one bit is ever set.           *)
(***************************************************************************)
EXTENDS FiniteSets

CONSTANTS
    Setters, Waiters,  \* the threads that call set_event, and the wait functions
    TimedWaiters,      \* the waiters that use time_wait_event
    Nobody             \* the owner of a free mutex

ASSUME EventAssumption ==
    /\ Setters \cap Waiters = {}
    /\ TimedWaiters \subseteq Waiters
    /\ Nobody \notin Setters \cup Waiters

Threads == Setters \cup Waiters

VARIABLES
    flag,   \* event->flag
    owner,  \* who holds event->mutex
    pc

eventVars == <<flag, owner, pc>>

\* In pthread_cond_wait, not woken yet.
Asleep == {w \in Waiters : pc[w] = "asleep"}

InitEvent ==
    /\ flag = FALSE
    /\ owner = Nobody
    /\ pc = [t \in Threads |-> "out"]

Goto(t, from, to) == pc[t] = from /\ pc' = [pc EXCEPT ![t] = to]

-----------------------------------------------------------------------------
(* set_event *)

CallSet(s) == Goto(s, "out", "lock") /\ UNCHANGED <<flag, owner>>

SetLock(s) == /\ owner = Nobody
              /\ Goto(s, "lock", "set")
              /\ owner' = s /\ UNCHANGED flag

SetFlag(s) == Goto(s, "set", "signal") /\ flag' = TRUE /\ UNCHANGED owner

\* Defect: the flag is set, and nobody is told.
SignalSkipped(s) == Goto(s, "signal", "unlock") /\ UNCHANGED <<flag, owner>>

\* pthread_cond_signal wakes at least one sleeper, if there is any.
Signal(s) ==
    /\ pc[s] = "signal"
    /\ \/ /\ Asleep = {}
          /\ pc' = [pc EXCEPT ![s] = "unlock"]
       \/ \E w \in Asleep : pc' = [pc EXCEPT ![s] = "unlock", ![w] = "relock"]
    /\ UNCHANGED <<flag, owner>>

Unlock(t) == /\ Goto(t, "unlock", "out")
             /\ owner' = Nobody /\ UNCHANGED flag

Setter(s) == SetLock(s) \/ SetFlag(s) \/ Signal(s) \/ Unlock(s)

-----------------------------------------------------------------------------
(* wait_event and time_wait_event *)

CallWait(w) == Goto(w, "out", "lock") /\ UNCHANGED <<flag, owner>>

WaitLock(w) == /\ owner = Nobody
               /\ Goto(w, "lock", "test")
               /\ owner' = w /\ UNCHANGED flag

\* The flag is set: it is cleared under the mutex.
TestSet(w) == /\ flag /\ Goto(w, "test", "unlock")
              /\ flag' = FALSE /\ UNCHANGED owner

\* It is not: pthread_cond_wait releases the mutex and sleeps, in one step.
TestClear(w) == /\ ~flag /\ Goto(w, "test", "asleep")
                /\ owner' = Nobody /\ UNCHANGED flag

SpuriousWakeup(w) == Goto(w, "asleep", "relock") /\ UNCHANGED <<flag, owner>>

\* Defects: `if` in place of `while` around pthread_cond_wait; a wait that
\* returns from it without the mutex.
WaitRelockTakes(w) == /\ owner = Nobody
                      /\ Goto(w, "relock", "unlock")
                      /\ owner' = w /\ flag' = FALSE
WaitRelockUnlocked(w) == Goto(w, "relock", "test") /\ UNCHANGED <<flag, owner>>

WaitRelock(w) == /\ owner = Nobody
                 /\ Goto(w, "relock", "test")
                 /\ owner' = w /\ UNCHANGED flag

\* The time is up (or the deadline was refused as invalid): the waiter leaves
\* the condition variable, takes the mutex and returns an error, whatever the
\* flag is by then.
TimeOut(w) == /\ w \in TimedWaiters
              /\ Goto(w, "asleep", "expired")
              /\ UNCHANGED <<flag, owner>>

ExpiredRelock(w) == /\ owner = Nobody
                    /\ Goto(w, "expired", "unlock")
                    /\ owner' = w /\ UNCHANGED flag

Waiter(w) == \/ WaitLock(w) \/ TestSet(w) \/ TestClear(w)
             \/ WaitRelock(w) \/ ExpiredRelock(w) \/ Unlock(w)

-----------------------------------------------------------------------------
NextCall ==
    \/ \E s \in Setters : CallSet(s) \/ Setter(s)
    \/ \E w \in Waiters : CallWait(w) \/ Waiter(w) \/ SpuriousWakeup(w) \/ TimeOut(w)

EventSpec == InitEvent /\ [][NextCall]_eventVars

\* A thread inside a call goes on, and gets the mutex in the end if it is free
\* again and again (the critical sections are a few instructions long).
\* Nobody has to call anything, to be woken without a reason, or to time out.
Fairness == /\ \A s \in Setters : SF_eventVars(Setter(s))
            /\ \A w \in Waiters : SF_eventVars(Waiter(w))
FairEventSpec == EventSpec /\ Fairness

-----------------------------------------------------------------------------
InMutex == {"set", "signal", "test", "unlock"}

\* Types, and: the owner of the mutex is the thread inside the critical section,
\* and only a timed wait can end without the flag.
EventTypeOK ==
    /\ flag \in BOOLEAN
    /\ pc \in [Threads -> {"out", "lock", "asleep", "relock", "expired"} \cup InMutex]
    /\ \A s \in Setters : pc[s] \notin {"asleep", "relock", "expired", "test"}
    /\ \A w \in Waiters : pc[w] \notin {"set", "signal"}
    /\ \A w \in Waiters \ TimedWaiters : pc[w] # "expired"
    /\ owner \in Threads \cup {Nobody}
    /\ \A t \in Threads : owner = t <=> pc[t] \in InMutex

\* No wakeup is lost: while the flag is set and somebody sleeps, a thread is on
\* its way that will wake a sleeper or take the flag itself.
NoLostWakeup ==
    flag /\ Asleep # {} => \/ \E s \in Setters : pc[s] = "signal"
                           \/ \E w \in Waiters : pc[w] \in {"relock", "test"}

\* The waiters in a call that has neither taken the flag nor failed.
Calling == {w \in Waiters : pc[w] \in {"lock", "test", "asleep", "relock", "expired"}}

Flag == INSTANCE EventFlag WITH calling <- Calling

\* The three calls are the binary event of EventFlag: a wait that succeeds takes
\* exactly one set, with whatever happens between its test and its sleep, and one
\* that gives up takes none.
FlagSafe == Flag!Safe

\* And while a waiter calls, a flag that is set is taken in the end.
FlagSpec == Flag!Spec
=============================================================================
