---------------------- MODULE EventDrivenStream_proofs ----------------------
(***************************************************************************)
(* Proofs about EventDrivenStream for any tasks, either direction or both, *)
(* and any behaviour of the low-level driver.                              *)
(***************************************************************************)
EXTENDS EventDrivenStream, TLAPS

(***************************************************************************)
(* The inductive invariant adds to the properties who owns a transfer.     *)
(***************************************************************************)
\* A transfer is owned only by the call that waits for it.
Owned ==
  \A t \in Task, d \in Direction :
    hw[d] = t \/ pending[d] = t => pc[t] = "await" /\ dir[t] = d

\* A call has one transfer: it cannot run and be over at the same time.
OwnedOnce ==
  \A t \in Task, d \in Direction : ~(hw[d] = t /\ pending[d] = t)

\* Between the drain and the start only an abandoned transfer signals.
FreshAtStart ==
  \A t \in Task : pc[t] = "start" /\ semaphore[dir[t]] = 1 => late[dir[t]]

Inv ==
  /\ TypeOK /\ LockHeld /\ DrainNeverBlocks
  /\ Owned /\ OwnedOnce /\ FreshAtStart /\ EarlySignalIsLate

\* Two calls inside the guarded region of one direction are the same call.
LEMMA OneHolder ==
  ASSUME TypeOK, LockHeld, NEW t \in Task, NEW u \in Task,
         pc[t] \in Critical, pc[u] \in Critical, dir[t] = dir[u]
  PROVE  t = u
  BY DEF LockHeld, TypeOK

\* Before the first call nothing is held, given or in flight.
LEMMA InitInv == Init => Inv
  <1> SUFFICES ASSUME Init PROVE Inv
    OBVIOUS
  <1> USE NoneAssumption DEF Init
  <1>1. TypeOK
    <2>1. /\ initialized \in BOOLEAN /\ llUp \in BOOLEAN
          /\ ret \in [Task -> BOOLEAN] /\ late \in [Direction -> BOOLEAN]
      BY Zenon
    <2>2. /\ control \in {"rest", "up", "down"}
          /\ mutex \in [Direction -> Task \union {None}]
          /\ semaphore \in [Direction -> 0..1]
          /\ pc \in [Task -> Critical \union {"idle", "lock"}]
          /\ dir \in [Task -> Direction]
          /\ hw \in [Direction -> Transfer] /\ pending \in [Direction -> Transfer]
      BY DEF Transfer
    <2> QED
      BY <2>1, <2>2 DEF TypeOK
  <1>2. LockHeld /\ DrainNeverBlocks
    BY DEF LockHeld, DrainNeverBlocks, Critical
  <1>3. Owned /\ OwnedOnce /\ FreshAtStart /\ EarlySignalIsLate
    BY DEF Owned, OwnedOnce, FreshAtStart, EarlySignalIsLate
  <1> QED
    BY <1>1, <1>2, <1>3 DEF Inv

\* init() and deinit() touch no lock and give no signal; a transfer they drop
\* was nobody's business but its owner's.
LEMMA ControlInv == ASSUME Inv, Control PROVE Inv'
  <1> USE NoneAssumption DEF Inv
  <1>1. /\ UNCHANGED <<mutex, semaphore, pc, dir, ret, pending, late>>
        /\ hw' = hw \/ hw' = [d \in Direction |-> None]
        /\ initialized' \in BOOLEAN /\ llUp' \in BOOLEAN /\ control' \in {"rest", "up", "down"}
    BY DEF Control, InitLL, InitSet, DeinitLL, DeinitSet, TypeOK
  <1>2. TypeOK'
    BY <1>1 DEF TypeOK, Transfer
  <1>3. LockHeld' /\ DrainNeverBlocks' /\ FreshAtStart'
    BY <1>1 DEF LockHeld, DrainNeverBlocks, FreshAtStart
  <1>4. Owned' /\ OwnedOnce' /\ EarlySignalIsLate'
    BY <1>1 DEF Owned, OwnedOnce, EarlySignalIsLate, TypeOK
  <1> QED
    BY <1>2, <1>3, <1>4

\* The steps of a call before it has the lock, and the check of the flag.
LEMMA EntryInv ==
  ASSUME Inv, NEW t \in Task, Read(t) \/ Write(t) \/ Lock(t) \/ Check(t)
  PROVE  Inv'
  <1> USE NoneAssumption DEF Inv, TypeOK
  <1>1. ASSUME NEW d \in Direction, Call(t, d) PROVE Inv'
    <2>1. TypeOK'
      BY <1>1 DEF Call, Goto, Return, initVars, hwVars, Critical
    <2>2. LockHeld' /\ DrainNeverBlocks' /\ FreshAtStart'
      BY <1>1 DEF Call, Goto, Return, initVars, hwVars, LockHeld, DrainNeverBlocks, FreshAtStart, Critical
    <2>3. Owned' /\ OwnedOnce' /\ EarlySignalIsLate'
      BY <1>1 DEF Call, Goto, Return, initVars, hwVars, Owned, OwnedOnce, EarlySignalIsLate
    <2> QED
      BY <2>1, <2>2, <2>3
  <1>2. CASE Lock(t)
    <2>1. TypeOK'
      BY <1>2 DEF Lock, Goto, initVars, hwVars, Critical
    <2>2. LockHeld' /\ DrainNeverBlocks' /\ FreshAtStart'
      BY <1>2 DEF Lock, Goto, initVars, hwVars, LockHeld, DrainNeverBlocks, FreshAtStart, Critical
    <2>3. Owned' /\ OwnedOnce' /\ EarlySignalIsLate'
      BY <1>2 DEF Lock, Goto, initVars, hwVars, Owned, OwnedOnce, EarlySignalIsLate
    <2> QED
      BY <2>1, <2>2, <2>3
  <1>3. CASE Check(t)
    <2>1. TypeOK'
      BY <1>3 DEF Check, Goto, Return, initVars, hwVars, Critical
    <2>2. LockHeld' /\ DrainNeverBlocks' /\ FreshAtStart'
      BY <1>3 DEF Check, Goto, Return, initVars, hwVars, LockHeld, DrainNeverBlocks, FreshAtStart, Critical
    <2>3. Owned' /\ OwnedOnce' /\ EarlySignalIsLate'
      BY <1>3 DEF Check, Goto, Return, initVars, hwVars, Owned, OwnedOnce, EarlySignalIsLate
    <2> QED
      BY <2>1, <2>2, <2>3
  <1> QED
    BY <1>1, <1>2, <1>3 DEF Read, Write

\* The drain: the signal that was given is taken, by the call that gave it.
LEMMA DrainInv ==
  ASSUME Inv, NEW t \in Task, Give(t) \/ Drain(t)
  PROVE  Inv'
  <1> USE NoneAssumption DEF Inv
  <1>0. \A u \in Task : pc[u] \in Critical /\ pc[t] \in Critical /\ dir[u] = dir[t] => u = t
    BY OneHolder
  <1>1. CASE Give(t)
    <2>1. TypeOK'
      BY <1>1 DEF Give, Goto, initVars, hwVars, Critical, TypeOK
    <2>2. LockHeld' /\ DrainNeverBlocks'
      BY <1>1 DEF Give, Goto, initVars, hwVars, LockHeld, DrainNeverBlocks, Critical, TypeOK
    <2>3. FreshAtStart' /\ EarlySignalIsLate'
      BY <1>0, <1>1 DEF Give, Goto, initVars, hwVars, FreshAtStart, EarlySignalIsLate, Critical, TypeOK
    <2>4. Owned' /\ OwnedOnce'
      BY <1>1 DEF Give, Goto, initVars, hwVars, Owned, OwnedOnce, TypeOK
    <2> QED
      BY <2>1, <2>2, <2>3, <2>4
  <1>2. CASE Drain(t)
    <2>1. TypeOK'
      BY <1>2 DEF Drain, Goto, initVars, Critical, TypeOK
    <2>2. LockHeld' /\ DrainNeverBlocks'
      BY <1>0, <1>2 DEF Drain, Goto, initVars, LockHeld, DrainNeverBlocks, Critical, TypeOK
    <2>3. FreshAtStart' /\ EarlySignalIsLate'
      BY <1>0, <1>2 DEF Drain, Goto, initVars, FreshAtStart, EarlySignalIsLate, Critical, TypeOK
    <2>4. Owned' /\ OwnedOnce'
      BY <1>2 DEF Drain, Goto, initVars, Owned, OwnedOnce, TypeOK
    <2> QED
      BY <2>1, <2>2, <2>3, <2>4
  <1> QED
    BY <1>1, <1>2

\* A transfer is started by a call that owns none.
LEMMA StartInv == ASSUME Inv, NEW t \in Task, Start(t) PROVE Inv'
  <1> USE NoneAssumption DEF Inv
  <1>0. \A u \in Task : pc[u] \in Critical /\ dir[u] = dir[t] => u = t
    BY OneHolder DEF Start, Critical
  <1>1. TypeOK'
    <2>1. ret' \in [Task -> BOOLEAN]
      BY DEF Start, Return, TypeOK
    <2>2. pc' \in [Task -> Critical \union {"idle", "lock"}]
      BY DEF Start, Goto, Critical, TypeOK
    <2>3. hw' \in [Direction -> Transfer]
      BY DEF Start, TypeOK, Transfer
    <2> QED
      BY <2>1, <2>2, <2>3 DEF Start, initVars, TypeOK
  <1>2. LockHeld' /\ DrainNeverBlocks'
    BY DEF Start, Goto, Return, initVars, LockHeld, DrainNeverBlocks, Critical, TypeOK
  <1>3. pending[dir[t]] # t
    BY DEF Start, Owned, TypeOK
  <1>4. Owned' /\ OwnedOnce'
    BY <1>3 DEF Start, Goto, Return, initVars, Owned, OwnedOnce, TypeOK
  <1>5. FreshAtStart' /\ EarlySignalIsLate'
    BY <1>0 DEF Start, Goto, Return, initVars, FreshAtStart, EarlySignalIsLate, Critical, TypeOK
  <1> QED
    BY <1>1, <1>2, <1>4, <1>5

\* The wait ends, with or without the signal; the transfer is nobody's then.
LEMMA FinishInv ==
  ASSUME Inv, NEW t \in Task, Await(t) \/ TimeOut(t)
  PROVE  Inv'
  <1> USE NoneAssumption DEF Inv
  <1>0. \A u \in Task : pc[u] \in Critical /\ dir[u] = dir[t] => u = t
    BY OneHolder DEF Await, TimeOut, Critical
  <1>1. /\ pc[t] = "await"
        /\ semaphore' \in [Direction -> 0..1]
        /\ \A d \in Direction : d # dir[t] => semaphore'[d] = semaphore[d]
        /\ semaphore'[dir[t]] = 0
    <2>1. CASE pc[t] = "await" /\ semaphore' = [semaphore EXCEPT ![dir[t]] = 0]
      BY <2>1 DEF TypeOK
    <2>2. CASE pc[t] = "await" /\ semaphore[dir[t]] = 0 /\ UNCHANGED semaphore
      BY <2>2 DEF TypeOK
    <2> QED
      BY <2>1, <2>2 DEF Await, TimeOut
  <1>2. PICK ok \in BOOLEAN : Finish(t, ok)
    <2>1. CASE Finish(t, TRUE)
      BY <2>1
    <2>2. CASE Finish(t, FALSE)
      BY <2>2
    <2> QED
      BY <2>1, <2>2 DEF Await, TimeOut
  <1> USE <1>2 DEF Goto, Return, initVars, Finish
  <1>3. TypeOK'
    <2>1. ret' \in [Task -> BOOLEAN]
      BY DEF TypeOK
    <2>2. pc' \in [Task -> Critical \union {"idle", "lock"}]
      BY DEF TypeOK, Critical
    <2>3. hw' \in [Direction -> Transfer] /\ pending' \in [Direction -> Transfer]
      BY DEF TypeOK, Transfer, Abandon
    <2> QED
      BY <1>1, <2>1, <2>2, <2>3 DEF TypeOK
  <1>4. LockHeld'
    BY <1>1 DEF LockHeld, Critical, TypeOK
  <1>5. DrainNeverBlocks' /\ FreshAtStart'
    BY <1>0, <1>1 DEF DrainNeverBlocks, FreshAtStart, Critical, TypeOK
  <1>6. Owned' /\ OwnedOnce'
    BY <1>1 DEF Owned, OwnedOnce, Abandon, TypeOK
  <1>7. EarlySignalIsLate'
    BY <1>0, <1>1 DEF EarlySignalIsLate, Abandon, Critical, TypeOK
  <1> QED
    BY <1>3, <1>4, <1>5, <1>6, <1>7

\* The unlock leaves the region.
LEMMA UnlockInv == ASSUME Inv, NEW t \in Task, Unlock(t) PROVE Inv'
  <1> USE NoneAssumption DEF Inv, Unlock, Goto, initVars, hwVars
  <1>1. TypeOK'
    BY DEF TypeOK
  <1>2. LockHeld'
    BY DEF LockHeld, Critical, TypeOK
  <1>3. DrainNeverBlocks' /\ FreshAtStart' /\ EarlySignalIsLate'
    BY DEF DrainNeverBlocks, FreshAtStart, EarlySignalIsLate, TypeOK
  <1>4. Owned' /\ OwnedOnce'
    BY DEF Owned, OwnedOnce, TypeOK
  <1> QED
    BY <1>1, <1>2, <1>3, <1>4

\* A signal of an owned transfer reaches the call that waits for it; any other
\* is recorded as late.
LEMMA SignalInv ==
  ASSUME Inv, NEW d \in Direction, CompleteInInterrupt(d) \/ CallBack(d)
  PROVE  Inv'
  <1> USE NoneAssumption DEF Inv
  <1>1. PICK transfer \in Transfer \ {None} :
          /\ Signal(d, transfer)
          /\ \/ transfer = hw[d] /\ hw' = [hw EXCEPT ![d] = None] /\ UNCHANGED pending
             \/ transfer = pending[d] /\ pending' = [pending EXCEPT ![d] = None] /\ UNCHANGED hw
          /\ UNCHANGED <<initVars, mutex, pc, dir, ret>>
    BY DEF CompleteInInterrupt, CallBack, TypeOK
  <1> USE DEF Signal, initVars
  <1>2. TypeOK'
    BY <1>1 DEF TypeOK, Transfer
  <1>3. LockHeld' /\ DrainNeverBlocks'
    BY <1>1 DEF LockHeld, DrainNeverBlocks, TypeOK
  <1>4. Owned' /\ OwnedOnce'
    BY <1>1 DEF Owned, OwnedOnce, TypeOK
  <1>5. CASE transfer = Abandoned
    BY <1>1, <1>5, <1>2, <1>3, <1>4 DEF FreshAtStart, EarlySignalIsLate, TypeOK
  <1>6. CASE transfer \in Task
    <2>1. pc[transfer] = "await" /\ dir[transfer] = d
      BY <1>1, <1>6 DEF Owned
    <2>2. \A u \in Task : pc[u] \in Critical /\ dir[u] = d => u = transfer
      BY <1>6, <2>1, OneHolder DEF Critical
    <2>3. hw'[d] # transfer /\ pending'[d] # transfer
      BY <1>1, <1>6 DEF OwnedOnce, TypeOK
    <2>4. FreshAtStart' /\ EarlySignalIsLate'
      BY <1>1, <2>1, <2>2, <2>3 DEF FreshAtStart, EarlySignalIsLate, Critical, TypeOK
    <2> QED
      BY <2>4, <1>2, <1>3, <1>4
  <1> QED
    BY <1>1, <1>5, <1>6 DEF Transfer

\* A transfer that ends for a thread passes from one register to the other.
LEMMA ThreadInv == ASSUME Inv, NEW d \in Direction, CompleteForThread(d) PROVE Inv'
  <1> USE NoneAssumption DEF Inv, CompleteForThread, initVars
  <1>1. TypeOK'
    BY DEF TypeOK, Transfer
  <1>2. LockHeld' /\ DrainNeverBlocks' /\ FreshAtStart'
    BY DEF LockHeld, DrainNeverBlocks, FreshAtStart
  <1>3. Owned' /\ OwnedOnce' /\ EarlySignalIsLate'
    BY DEF Owned, OwnedOnce, EarlySignalIsLate, TypeOK
  <1> QED
    BY <1>1, <1>2, <1>3

\* Every step preserves the invariant.
LEMMA NextInv == ASSUME Inv, [Next]_vars PROVE Inv'
  <1>1. CASE Control
    BY <1>1, ControlInv
  <1>2. ASSUME NEW t \in Task, Read(t) \/ Write(t) \/ Lock(t) \/ Work(t) PROVE Inv'
    BY <1>2, EntryInv, DrainInv, StartInv, FinishInv, UnlockInv DEF Work
  <1>3. ASSUME NEW d \in Direction, Complete(d) \/ CallBack(d) PROVE Inv'
    BY <1>3, SignalInv, ThreadInv DEF Complete
  <1>4. CASE UNCHANGED vars
    BY <1>4 DEF vars, Inv, TypeOK, LockHeld, DrainNeverBlocks, Owned, OwnedOnce,
                FreshAtStart, EarlySignalIsLate
  <1> QED
    BY <1>1, <1>2, <1>3, <1>4
    DEF Next, ll_async_read_completed_cb, ll_async_write_completed_cb

\* One call at a time is in the guarded region of a direction and every return
\* unlocks; the untimed take() of the drain never blocks; and a call is woken
\* early only by the late callback of a call that gave up (EventDrivenStream.hpp
\* 42-65, 70-84, 114-137).
THEOREM StreamSafety ==
  Spec => [](TypeOK /\ LockHeld /\ DrainNeverBlocks /\ EarlySignalIsLate)
  <1>1. Init => Inv
    BY InitInv
  <1>2. Inv /\ [Next]_vars => Inv'
    BY NextInv
  <1>3. Inv => TypeOK /\ LockHeld /\ DrainNeverBlocks /\ EarlySignalIsLate
    BY DEF Inv
  <1> QED
    BY <1>1, <1>2, <1>3, PTL DEF Spec

\* No transfer has been abandoned and no late signal given.
NoneAbandoned ==
  \A d \in Direction : hw[d] # Abandoned /\ pending[d] # Abandoned /\ ~late[d]

\* Without time-outs, no call leaves its transfer behind.
LEMMA AbandonStep ==
  ASSUME ~CanTimeOut, Inv, NoneAbandoned, [Next]_vars
  PROVE  NoneAbandoned'
  <1> USE NoneAssumption DEF Inv
  <1>1. CASE Control
    BY <1>1 DEF NoneAbandoned, Control, InitLL, InitSet, DeinitLL, DeinitSet
  <1>2. ASSUME NEW t \in Task, Read(t) \/ Write(t) \/ Lock(t) \/ Check(t) \/ Give(t) \/ Unlock(t)
        PROVE  NoneAbandoned'
    BY <1>2 DEF NoneAbandoned, Read, Write, Call, Lock, Check, Give, Unlock, hwVars
  <1>3. ASSUME NEW t \in Task, Drain(t) PROVE NoneAbandoned'
    BY <1>3 DEF NoneAbandoned, Drain, TypeOK
  <1>4. ASSUME NEW t \in Task, Start(t) PROVE NoneAbandoned'
    BY <1>4 DEF NoneAbandoned, Start, TypeOK
  <1>5. ASSUME NEW t \in Task, Await(t) PROVE NoneAbandoned'
    <2>1. dir[t] \in Direction
      BY DEF TypeOK
    <2>2. hw[dir[t]] # t /\ pending[dir[t]] # t
      BY <1>5, <2>1 DEF Await, EarlySignalIsLate, NoneAbandoned
    <2>3. hw' = hw /\ pending' = pending /\ late' = late
      BY <1>5, <2>1, <2>2 DEF Await, Finish, Abandon, TypeOK
    <2> QED
      BY <2>3 DEF NoneAbandoned
  <1>6. ASSUME NEW t \in Task, TimeOut(t) PROVE FALSE
    BY <1>6 DEF TimeOut
  <1>7. ASSUME NEW d \in Direction, Complete(d) \/ CallBack(d) PROVE NoneAbandoned'
    BY <1>7 DEF NoneAbandoned, Complete, CompleteInInterrupt, CompleteForThread,
                CallBack, Signal, TypeOK
  <1>8. CASE UNCHANGED vars
    BY <1>8 DEF vars, NoneAbandoned
  <1> QED
    BY <1>1, <1>2, <1>3, <1>4, <1>5, <1>6, <1>7, <1>8
    DEF Next, Work, ll_async_read_completed_cb, ll_async_write_completed_cb

\* What the comment in the code promises does hold while every call uses the
\* default time-out: the finding needs a call that gave up.
THEOREM UntimedSignalIsFresh ==
  ASSUME ~CanTimeOut
  PROVE  Spec => []NoStaleSignal
  <1>1. Init => Inv /\ NoneAbandoned
    BY InitInv, NoneAssumption DEF Init, NoneAbandoned
  <1>2. Inv /\ NoneAbandoned /\ [Next]_vars => (Inv /\ NoneAbandoned)'
    BY NextInv, AbandonStep
  <1>3. Inv /\ NoneAbandoned => NoStaleSignal
    BY DEF Inv, NoneAbandoned, NoStaleSignal, EarlySignalIsLate, TypeOK
  <1> QED
    BY <1>1, <1>2, <1>3, PTL DEF Spec
=============================================================================
