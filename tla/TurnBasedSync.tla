--------------------------- MODULE TurnBasedSync ---------------------------
(***************************************************************************)
(* The turn counter of core/machine/src/utils/concurrency.rs: a counter    *)
(* behind a mutex and a condition variable.  A worker is handed items in   *)
(* order (the channel its caller receives from), calls wait_for_turn with  *)
(* the item's index, does its ordered work without holding the mutex, and  *)
(* calls advance_turn.                                                     *)
(*                                                                         *)
(* Every acquisition and release of the mutex is a step of its own, and    *)
(* Condvar::wait may return without a notification, as its documentation   *)
(* allows.                                                                 *)
(***************************************************************************)
EXTENDS Naturals

CONSTANTS
    Threads,      \* worker threads
    NoThread,     \* the mutex is free
    Items,        \* number of items handed out
    MaxSpurious   \* bound: wake-ups without a notification in a behaviour

ASSUME ItemsAssumption == Items \in Nat
ASSUME NoThreadAssumption == NoThread \notin Threads
ASSUME MaxSpuriousAssumption == MaxSpurious \in Nat

VARIABLES
    ticket,       \* the caller's channel: the next index to be received
    mine,         \* mine[t]: the my_turn argument of thread t's last call
    current_turn, \* the counter
    holder,       \* who holds the mutex around current_turn
    pc,           \* where each thread is
    spurious      \* wake-ups without a notification so far

vars == <<ticket, mine, current_turn, holder, pc, spurious>>

PCs == {"free",      \* outside, no item
        "lock",      \* in wait_for_turn, acquiring the mutex
        "test",      \* in wait_for_turn, holding it, at the loop condition
        "asleep",    \* in Condvar::wait
        "inTurn",    \* wait_for_turn returned: ordered work
        "advance",   \* in advance_turn, holding the mutex
        "unlock"}    \* in advance_turn, counter and notification done

TypeOK ==
    /\ ticket \in 0 .. Items
    /\ mine \in [Threads -> Nat]
    /\ current_turn \in Nat
    /\ holder \in Threads \cup {NoThread}
    /\ pc \in [Threads -> PCs]
    /\ spurious \in 0 .. MaxSpurious

Init ==
    /\ ticket = 0
    /\ mine = [t \in Threads |-> 0]
    /\ current_turn = 0
    /\ holder = NoThread
    /\ pc = [t \in Threads |-> "free"]
    /\ spurious = 0

\* Mutant of Receive: indices go on after the last item.
BugReceiveForever(t) ==
    /\ pc[t] = "free"
    /\ mine' = [mine EXCEPT ![t] = ticket]
    /\ ticket' = ticket + 1
    /\ pc' = [pc EXCEPT ![t] = "lock"]
    /\ UNCHANGED <<current_turn, holder, spurious>>

\* The caller receives the next item and calls wait_for_turn(index).
Receive(t) ==
    /\ pc[t] = "free"
    /\ ticket < Items
    /\ mine' = [mine EXCEPT ![t] = ticket]
    /\ ticket' = ticket + 1
    /\ pc' = [pc EXCEPT ![t] = "lock"]
    /\ UNCHANGED <<current_turn, holder, spurious>>

\* current_turn.lock() of wait_for_turn, or the re-acquisition with which
\* Condvar::wait returns.
WaitLock(t) ==
    /\ pc[t] = "lock"
    /\ holder = NoThread
    /\ holder' = t
    /\ pc' = [pc EXCEPT ![t] = "test"]
    /\ UNCHANGED <<ticket, mine, current_turn, spurious>>

\* The loop condition is false: wait_for_turn returns and drops the guard.
WaitReturn(t) ==
    /\ pc[t] = "test"
    /\ current_turn = mine[t]
    /\ holder' = NoThread
    /\ pc' = [pc EXCEPT ![t] = "inTurn"]
    /\ UNCHANGED <<ticket, mine, current_turn, spurious>>

\* The loop condition is true: Condvar::wait releases the mutex and blocks,
\* in one step.
WaitSleep(t) ==
    /\ pc[t] = "test"
    /\ current_turn # mine[t]
    /\ holder' = NoThread
    /\ pc' = [pc EXCEPT ![t] = "asleep"]
    /\ UNCHANGED <<ticket, mine, current_turn, spurious>>

\* Mutant of SpuriousWakeup: the wait is in an if, not in a loop.
BugNoLoop(t) ==
    /\ pc[t] = "asleep"
    /\ spurious < MaxSpurious
    /\ spurious' = spurious + 1
    /\ pc' = [pc EXCEPT ![t] = "inTurn"]
    /\ UNCHANGED <<ticket, mine, current_turn, holder>>

\* Condvar::wait returns although nobody notified.
SpuriousWakeup(t) ==
    /\ pc[t] = "asleep"
    /\ spurious < MaxSpurious
    /\ spurious' = spurious + 1
    /\ pc' = [pc EXCEPT ![t] = "lock"]
    /\ UNCHANGED <<ticket, mine, current_turn, holder>>

\* The ordered work is over: advance_turn acquires the mutex.
AdvanceLock(t) ==
    /\ pc[t] = "inTurn"
    /\ holder = NoThread
    /\ holder' = t
    /\ pc' = [pc EXCEPT ![t] = "advance"]
    /\ UNCHANGED <<ticket, mine, current_turn, spurious>>

\* Mutants of NotifyAll: no notification; notify_one.
BugNoNotify(p) == p

BugNotifyOne(p) ==
    IF \E u \in Threads : p[u] = "asleep"
    THEN [p EXCEPT ![CHOOSE u \in Threads : p[u] = "asleep"] = "lock"]
    ELSE p

\* notify_all: every thread in Condvar::wait goes on to re-acquire the mutex.
NotifyAll(p) == [u \in Threads |-> IF p[u] = "asleep" THEN "lock" ELSE p[u]]

\* Mutant of Advance: the turn is advanced twice.
BugAdvanceTwice(t) ==
    /\ pc[t] = "advance"
    /\ current_turn' = current_turn + 2
    /\ pc' = NotifyAll([pc EXCEPT ![t] = "unlock"])
    /\ UNCHANGED <<ticket, mine, holder, spurious>>

\* *turn += 1; cv.notify_all(), with the mutex held.
Advance(t) ==
    /\ pc[t] = "advance"
    /\ current_turn' = current_turn + 1
    /\ pc' = NotifyAll([pc EXCEPT ![t] = "unlock"])
    /\ UNCHANGED <<ticket, mine, holder, spurious>>

\* advance_turn returns and drops the guard.
Unlock(t) ==
    /\ pc[t] = "unlock"
    /\ holder' = NoThread
    /\ pc' = [pc EXCEPT ![t] = "free"]
    /\ UNCHANGED <<ticket, mine, current_turn, spurious>>

Step(t) ==
    \/ WaitLock(t) \/ WaitReturn(t) \/ WaitSleep(t)
    \/ AdvanceLock(t) \/ Advance(t) \/ Unlock(t)

Next == \E t \in Threads : Receive(t) \/ Step(t) \/ SpuriousWakeup(t)

Spec == Init /\ [][Next]_vars

(***************************************************************************)
(* Threads are scheduled: a thread that can take its next step eventually  *)
(* does.  Nothing obliges Condvar::wait to return without a notification.  *)
(***************************************************************************)
FairSpec == Spec /\ \A t \in Threads : WF_vars(Receive(t)) /\ WF_vars(Step(t))

-----------------------------------------------------------------------------
(* Properties. *)

\* No wake-up is lost: a thread blocked in Condvar::wait is waiting for a turn
\* that is still to come, so that advance_turn's notify_all will reach it. (A
\* counter updated outside the mutex, or a notification before the update,
\* would leave a thread asleep on its own turn for ever.)
NoLostWakeup == \A t \in Threads : pc[t] = "asleep" => current_turn < mine[t]

\* The ordered parts of two items never overlap, and the one under way is the
\* one whose turn it is: the caller updates shared state there without any
\* other protection of its order.
OrderedParts ==
    \A t \in Threads : pc[t] \in {"inTurn", "advance"} =>
        /\ mine[t] = current_turn
        /\ \A u \in Threads \ {t} : pc[u] \notin {"inTurn", "advance"}

\* Every item handed out gets its turn: the counter reaches the number of items.
AllTurnsTaken == <>(current_turn = Items)

-----------------------------------------------------------------------------
(* Refinement of TurnOrder. *)

phaseBar ==
    [t \in Threads |->
        CASE pc[t] \in {"free", "unlock"}          -> "free"
          [] pc[t] \in {"lock", "test", "asleep"}  -> "waiting"
          [] pc[t] \in {"inTurn", "advance"}       -> "inTurn"]

Order == INSTANCE TurnOrder WITH phase <- phaseBar, turn <- current_turn

\* However threads interleave, and whenever a wait returns early, the mutex and
\* the condition variable hand turns out in the order TurnOrder promises.
ImplementsTurnOrder == Order!Spec
=============================================================================
