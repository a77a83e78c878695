------------------------ MODULE TurnBasedSyncProofs ------------------------
(***************************************************************************)
(* For any set of threads, any number of items and any number of early     *)
(* returns of Condvar::wait: no wake-up is lost, ordered parts exclude     *)
(* each other, and TurnBasedSync implements TurnOrder.                     *)
(***************************************************************************)
EXTENDS TurnBasedSync, TLAPS

Holding == {"test", "advance", "unlock"}
Busy == PCs \ {"free", "unlock"}

\* The mutex: its holder is the one thread between an acquisition and a release.
HolderInv == \A t \in Threads : pc[t] \in Holding <=> holder = t

\* Items in progress were handed out, are different, and their turn is not over.
TicketInv ==
    /\ current_turn <= ticket
    /\ \A t \in Threads : pc[t] \in Busy =>
         /\ mine[t] < ticket
         /\ current_turn <= mine[t]
         /\ \A u \in Threads \ {t} : pc[u] \in Busy => mine[u] # mine[t]

InTurnInv ==
    \A t \in Threads : pc[t] \in {"inTurn", "advance"} => mine[t] = current_turn

IInv == TypeOK /\ HolderInv /\ TicketInv /\ InTurnInv /\ NoLostWakeup

\* The initial state satisfies the inductive invariant.
LEMMA InitIInv == Init => IInv
  BY ItemsAssumption, NoThreadAssumption, MaxSpuriousAssumption
  DEF Init, IInv, TypeOK, PCs, HolderInv, TicketInv, InTurnInv, NoLostWakeup,
      Holding, Busy

\* Every step of every thread preserves the inductive invariant.
LEMMA NextIInv == IInv /\ [Next]_vars => IInv'
<1> SUFFICES ASSUME IInv, [Next]_vars PROVE IInv'
  OBVIOUS
<1> USE ItemsAssumption, NoThreadAssumption, MaxSpuriousAssumption
<1> USE DEF IInv, TypeOK, PCs, HolderInv, TicketInv, InTurnInv, NoLostWakeup,
            Holding, Busy
<1>1. ASSUME NEW t \in Threads, Receive(t) PROVE IInv'
  BY <1>1 DEF Receive
<1>2. ASSUME NEW t \in Threads, WaitLock(t) PROVE IInv'
  BY <1>2 DEF WaitLock
<1>3. ASSUME NEW t \in Threads, WaitReturn(t) PROVE IInv'
  BY <1>3 DEF WaitReturn
<1>4. ASSUME NEW t \in Threads, WaitSleep(t) PROVE IInv'
  BY <1>4 DEF WaitSleep
<1>5. ASSUME NEW t \in Threads, SpuriousWakeup(t) PROVE IInv'
  BY <1>5 DEF SpuriousWakeup
<1>6. ASSUME NEW t \in Threads, AdvanceLock(t) PROVE IInv'
  BY <1>6 DEF AdvanceLock
<1>7. ASSUME NEW t \in Threads, Advance(t) PROVE IInv'
  BY <1>7 DEF Advance, NotifyAll
<1>8. ASSUME NEW t \in Threads, Unlock(t) PROVE IInv'
  BY <1>8 DEF Unlock
<1>9. CASE UNCHANGED vars
  BY <1>9 DEF vars
<1>10. QED
  BY <1>1, <1>2, <1>3, <1>4, <1>5, <1>6, <1>7, <1>8, <1>9 DEF Next, Step

\* The variables keep their types in every behaviour of the turn counter.
THEOREM TypeCorrect == Spec => []TypeOK
<1>1. IInv => TypeOK
  BY DEF IInv
<1>2. QED
  BY InitIInv, NextIInv, <1>1, PTL DEF Spec

\* A thread in Condvar::wait never sleeps through its own turn (wait_for_turn
\* and advance_turn of utils/concurrency.rs).
THEOREM NoWakeupIsLost == Spec => []NoLostWakeup
<1>1. IInv => NoLostWakeup
  BY DEF IInv
<1>2. QED
  BY InitIInv, NextIInv, <1>1, PTL DEF Spec

\* Between wait_for_turn and advance_turn a thread is alone and it is its turn.
THEOREM PartsAreOrdered == Spec => []OrderedParts
<1>1. IInv => OrderedParts
  BY DEF IInv, TypeOK, TicketInv, InTurnInv, OrderedParts, Busy, PCs
<1>2. QED
  BY InitIInv, NextIInv, <1>1, PTL DEF Spec

\* The mutex and condition variable implement the order TurnOrder promises.
THEOREM Refinement == Spec => ImplementsTurnOrder
<1>1. Init => Order!Init
  BY DEF Init, Order!Init, phaseBar
<1>2. IInv /\ [Next]_vars => [Order!Next]_(Order!vars)
  <2> SUFFICES ASSUME IInv, [Next]_vars
               PROVE  [Order!Next]_(Order!vars)
    OBVIOUS
  <2> USE DEF IInv, TypeOK, PCs, phaseBar, Order!vars
  <2>idle. CASE UNCHANGED vars
    BY <2>idle DEF vars
  <2>take. ASSUME NEW t \in Threads, Receive(t) PROVE Order!Take(t)
    BY <2>take DEF Receive, Order!Take
  <2>enter. ASSUME NEW t \in Threads, WaitReturn(t) PROVE Order!Enter(t)
    BY <2>enter DEF WaitReturn, Order!Enter
  <2>leave. ASSUME NEW t \in Threads, Advance(t) PROVE Order!Leave(t)
    BY <2>leave DEF Advance, NotifyAll, Order!Leave
  <2>hidden. ASSUME NEW t \in Threads,
                    \/ WaitLock(t) \/ WaitSleep(t) \/ SpuriousWakeup(t)
                    \/ AdvanceLock(t) \/ Unlock(t)
             PROVE  UNCHANGED Order!vars
    BY <2>hidden DEF WaitLock, WaitSleep, SpuriousWakeup, AdvanceLock, Unlock
  <2> QED
    BY <2>idle, <2>take, <2>enter, <2>leave, <2>hidden DEF Next, Step, Order!Next
<1>3. QED
  BY InitIInv, NextIInv, <1>1, <1>2, PTL DEF Spec, ImplementsTurnOrder, Order!Spec
=============================================================================
