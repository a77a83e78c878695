----------------------------- MODULE TurnOrder -----------------------------
(***************************************************************************)
(* What the threads of the proving pipelines rely on when they share a     *)
(* turn counter: a thread that was given work item n does its ordered part *)
(* of the work exactly when the turn is n, and ends it by passing the turn *)
(* on.  Nothing is said about how a thread waits.  TurnBasedSync.tla, the  *)
(* mutex and condition variable of utils/concurrency.rs, implements this.  *)
(***************************************************************************)
EXTENDS Naturals

CONSTANTS
    Threads,    \* the worker threads that share the counter
    Items       \* how many work items there are: item n has turn n

VARIABLES
    ticket,     \* the next work item to hand out
    mine,       \* mine[t]: the item thread t was given last
    phase,      \* "free", "waiting" or "inTurn"
    turn        \* the item whose turn it is

vars == <<ticket, mine, phase, turn>>

Init ==
    /\ ticket = 0
    /\ mine = [t \in Threads |-> 0]
    /\ phase = [t \in Threads |-> "free"]
    /\ turn = 0

\* A thread takes the next item and starts to wait for its turn.
Take(t) ==
    /\ phase[t] = "free"
    /\ ticket < Items
    /\ mine' = [mine EXCEPT ![t] = ticket]
    /\ ticket' = ticket + 1
    /\ phase' = [phase EXCEPT ![t] = "waiting"]
    /\ UNCHANGED turn

\* The turn is the thread's: it may begin the ordered part of its work.
Enter(t) ==
    /\ phase[t] = "waiting"
    /\ turn = mine[t]
    /\ phase' = [phase EXCEPT ![t] = "inTurn"]
    /\ UNCHANGED <<ticket, mine, turn>>

\* The ordered part is over: the turn is the next item's.
Leave(t) ==
    /\ phase[t] = "inTurn"
    /\ phase' = [phase EXCEPT ![t] = "free"]
    /\ turn' = turn + 1
    /\ UNCHANGED <<ticket, mine>>

Next == \E t \in Threads : Take(t) \/ Enter(t) \/ Leave(t)

Spec == Init /\ [][Next]_vars
=============================================================================
