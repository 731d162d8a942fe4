------------------------- MODULE EventDrivenStream -------------------------
(***************************************************************************)
(* ln::drivers::EventDriven::ReadStream, WriteStream and Stream<rw>: tasks *)
(* call read() and write(), which start an asynchronous transfer of a low  *)
(* level driver and wait on a binary semaphore for its completion callback *)
(* (ln/drivers/include/ln/drivers/EventDrivenStream.hpp).  Both directions *)
(* run the same code on a mutex and a semaphore of their own and share     *)
(* Initializable's flag (Initializable.hpp).                               *)
(*                                                                         *)
(* The low-level driver is a class the application derives: it is modelled *)
(* from the way this code uses it.  It runs one transfer per direction at  *)
(* a time, may refuse to start one, finishes one at any moment, and calls  *)
(* back from an interrupt (at once) or from a thread (some time later).    *)
(***************************************************************************)
EXTENDS Integers, FiniteSets

CONSTANTS
  Task,           \* tasks that call read() and write()
  Direction,      \* {"r"}, {"w"} or {"r", "w"}: StreamType
  CanTimeOut,     \* calls pass a finite Timeout, not the default one
  AbortsOnDeinit, \* ll_deinit() may drop a transfer that is in flight
  None,           \* no task, no transfer
  Abandoned       \* a transfer whose caller has returned without it

ASSUME DirectionAssumption == Direction \subseteq {"r", "w"} /\ Direction /= {}
ASSUME BooleanAssumption == CanTimeOut \in BOOLEAN /\ AbortsOnDeinit \in BOOLEAN
ASSUME NoneAssumption == None \notin Task /\ Abandoned \notin Task /\ None /= Abandoned

VARIABLES
  initialized,    \* Initializable::initialized
  llUp,           \* the low-level driver is initialised
  control,        \* where the one task that calls init() and deinit() is
  mutex,          \* per direction, the holder
  semaphore,      \* per direction, the count of the binary semaphore
  pc,             \* per task, the next statement of its call
  dir,            \* per task, the direction of its call
  ret,            \* per task, what its last call returned
  hw,             \* per direction, the transfer in flight
  pending,        \* per direction, the finished transfer whose callback is due
  late            \* history: since the last drain, an abandoned transfer signalled

vars == <<initialized, llUp, control, mutex, semaphore, pc, dir, ret, hw, pending, late>>
initVars == <<initialized, llUp, control>>
hwVars == <<hw, pending, late>>

Transfer == Task \union {None, Abandoned}
Critical == {"check", "give", "drain", "start", "await", "unlock"}

Goto(t, label) == pc' = [pc EXCEPT ![t] = label]
Return(t, ok) == ret' = [ret EXCEPT ![t] = ok]

(***************************************************************************)
(* Initializable::init() and deinit().  A call that finds nothing to do, or *)
(* whose ll_init() or ll_deinit() fails, changes nothing.                  *)
(***************************************************************************)
\* init(): ll_init() succeeds ...
InitLL ==
  /\ control = "rest" /\ ~initialized
  /\ llUp' = TRUE /\ control' = "up"
  /\ UNCHANGED <<initialized, mutex, semaphore, pc, dir, ret, hw, pending, late>>

\* ... and the flag follows.
InitSet ==
  /\ control = "up"
  /\ initialized' = TRUE /\ control' = "rest"
  /\ UNCHANGED <<llUp, mutex, semaphore, pc, dir, ret, hw, pending, late>>

DeinitLL ==
  /\ control = "rest" /\ initialized
  /\ AbortsOnDeinit \/ \A d \in Direction : hw[d] = None
  /\ llUp' = FALSE /\ control' = "down"
  /\ hw' = [d \in Direction |-> None]
  /\ UNCHANGED <<initialized, mutex, semaphore, pc, dir, ret, pending, late>>

DeinitSet ==
  /\ control = "down"
  /\ initialized' = FALSE /\ control' = "rest"
  /\ UNCHANGED <<llUp, mutex, semaphore, pc, dir, ret, hw, pending, late>>

(***************************************************************************)
(* read() and write(): one step per access to shared state.  A definition  *)
(* named Mutant... is not part of the model: it is a plausible bug in the  *)
(* definition after it, kept to show that the properties notice it.        *)
(***************************************************************************)
\* size == 0, or no data, returns before the lock is taken.
Call(t, d) ==
  /\ pc[t] = "idle"
  /\ dir' = [dir EXCEPT ![t] = d]
  /\ \/ \E ok \in BOOLEAN : Return(t, ok) /\ UNCHANGED pc
     \/ Goto(t, "lock") /\ UNCHANGED ret
  /\ UNCHANGED <<initVars, mutex, semaphore, hwVars>>

Read(t) == "r" \in Direction /\ Call(t, "r")
Write(t) == "w" \in Direction /\ Call(t, "w")

\* LockGuard lock_guard(this->mutex)
Lock(t) ==
  /\ pc[t] = "lock" /\ mutex[dir[t]] = None
  /\ mutex' = [mutex EXCEPT ![dir[t]] = t]
  /\ Goto(t, "check")
  /\ UNCHANGED <<initVars, semaphore, dir, ret, hwVars>>

MutantCheckSkipsUnlock(t) ==
  /\ pc[t] = "check"
  /\ \/ initialized /\ Goto(t, "give") /\ UNCHANGED ret
     \/ ~initialized /\ Goto(t, "idle") /\ Return(t, FALSE)
  /\ UNCHANGED <<initVars, mutex, semaphore, dir, hwVars>>
\* if (!this->initialized) return false
Check(t) ==
  /\ pc[t] = "check"
  /\ \/ initialized /\ Goto(t, "give") /\ UNCHANGED ret
     \/ ~initialized /\ Goto(t, "unlock") /\ Return(t, FALSE)
  /\ UNCHANGED <<initVars, mutex, semaphore, dir, hwVars>>

MutantGiveForgotten(t) ==
  /\ pc[t] = "give"
  /\ Goto(t, "drain")
  /\ UNCHANGED <<initVars, mutex, semaphore, dir, ret, hwVars>>
MutantGiveCounts(t) ==
  /\ pc[t] = "give"
  /\ semaphore' = [semaphore EXCEPT ![dir[t]] = @ + 1]
  /\ Goto(t, "drain")
  /\ UNCHANGED <<initVars, mutex, dir, ret, hwVars>>
\* this->semaphore.give(): a no-op on a binary semaphore that is given.
Give(t) ==
  /\ pc[t] = "give"
  /\ semaphore' = [semaphore EXCEPT ![dir[t]] = 1]
  /\ Goto(t, "drain")
  /\ UNCHANGED <<initVars, mutex, dir, ret, hwVars>>

MutantDrainWithoutTake(t) ==
  /\ pc[t] = "drain"
  /\ late' = [late EXCEPT ![dir[t]] = FALSE]
  /\ Goto(t, "start")
  /\ UNCHANGED <<initVars, mutex, semaphore, dir, ret, hw, pending>>
\* this->semaphore.take(): waits for ever on a semaphore that is not given.
Drain(t) ==
  /\ pc[t] = "drain" /\ semaphore[dir[t]] = 1
  /\ semaphore' = [semaphore EXCEPT ![dir[t]] = 0]
  /\ late' = [late EXCEPT ![dir[t]] = FALSE]
  /\ Goto(t, "start")
  /\ UNCHANGED <<initVars, mutex, dir, ret, hw, pending>>

\* ll_read_async(data, size), ll_write_async(data, size)
Start(t) ==
  /\ pc[t] = "start"
  /\ \/ Goto(t, "unlock") /\ Return(t, FALSE) /\ UNCHANGED hw
     \/ /\ llUp /\ hw[dir[t]] = None
        /\ hw' = [hw EXCEPT ![dir[t]] = t]
        /\ Goto(t, "await")
        /\ UNCHANGED ret
  /\ UNCHANGED <<initVars, mutex, semaphore, dir, pending, late>>

\* The caller of a transfer stops waiting for it.
Abandon(transfer, t) == IF transfer = t THEN Abandoned ELSE transfer

\* The call returns with its transfer, if still there, left to itself.
Finish(t, ok) ==
  /\ hw' = [hw EXCEPT ![dir[t]] = Abandon(@, t)]
  /\ pending' = [pending EXCEPT ![dir[t]] = Abandon(@, t)]
  /\ Goto(t, "unlock") /\ Return(t, ok)
  /\ UNCHANGED <<initVars, mutex, dir, late>>

\* semaphore.take(timeout) succeeds
Await(t) ==
  /\ pc[t] = "await" /\ semaphore[dir[t]] = 1
  /\ semaphore' = [semaphore EXCEPT ![dir[t]] = 0]
  /\ Finish(t, TRUE)

\* semaphore.take(timeout) fails: the time is up and no signal has come
TimeOut(t) ==
  /\ pc[t] = "await" /\ semaphore[dir[t]] = 0 /\ CanTimeOut
  /\ UNCHANGED semaphore
  /\ Finish(t, FALSE)

\* ~LockGuard
Unlock(t) ==
  /\ pc[t] = "unlock"
  /\ mutex' = [mutex EXCEPT ![dir[t]] = None]
  /\ Goto(t, "idle")
  /\ UNCHANGED <<initVars, semaphore, dir, ret, hwVars>>

(***************************************************************************)
(* The low-level driver and its callbacks.                                 *)
(***************************************************************************)
\* The callback gives the semaphore; it does not know whose transfer it was.
Signal(d, transfer) ==
  /\ semaphore' = [semaphore EXCEPT ![d] = 1]
  /\ late' = [late EXCEPT ![d] = @ \/ transfer = Abandoned]

\* A transfer ends in an interrupt, which runs the callback.
CompleteInInterrupt(d) ==
  /\ hw[d] /= None /\ pending[d] = None
  /\ hw' = [hw EXCEPT ![d] = None]
  /\ Signal(d, hw[d])
  /\ UNCHANGED <<initVars, mutex, pc, dir, ret, pending>>

\* A transfer ends; a thread of the driver will run the callback.
CompleteForThread(d) ==
  /\ hw[d] /= None /\ pending[d] = None
  /\ hw' = [hw EXCEPT ![d] = None]
  /\ pending' = [pending EXCEPT ![d] = hw[d]]
  /\ UNCHANGED <<initVars, mutex, semaphore, pc, dir, ret, late>>

CallBack(d) ==
  /\ pending[d] /= None
  /\ pending' = [pending EXCEPT ![d] = None]
  /\ Signal(d, pending[d])
  /\ UNCHANGED <<initVars, mutex, pc, dir, ret, hw>>

ll_async_read_completed_cb == "r" \in Direction /\ CallBack("r")
ll_async_write_completed_cb == "w" \in Direction /\ CallBack("w")

(***************************************************************************)
(* Specification                                                           *)
(***************************************************************************)
\* A FreeRTOS binary semaphore is created empty.
Init ==
  /\ initialized = FALSE /\ llUp = FALSE /\ control = "rest"
  /\ mutex = [d \in Direction |-> None]
  /\ semaphore = [d \in Direction |-> 0]
  /\ pc = [t \in Task |-> "idle"]
  /\ dir \in [Task -> Direction]
  /\ ret = [t \in Task |-> FALSE]
  /\ hw = [d \in Direction |-> None]
  /\ pending = [d \in Direction |-> None]
  /\ late = [d \in Direction |-> FALSE]

Control == InitLL \/ InitSet \/ DeinitLL \/ DeinitSet

\* The steps of a call that has the lock; none waits for another task.
Work(t) ==
  \/ Check(t) \/ Give(t) \/ Drain(t) \/ Start(t)
  \/ Await(t) \/ TimeOut(t) \/ Unlock(t)

Complete(d) == CompleteInInterrupt(d) \/ CompleteForThread(d)

Next ==
  \/ Control
  \/ \E t \in Task : Read(t) \/ Write(t) \/ Lock(t) \/ Work(t)
  \/ \E d \in Direction : Complete(d)
  \/ ll_async_read_completed_cb
  \/ ll_async_write_completed_cb

Spec == Init /\ [][Next]_vars

\* The scheduler runs a task that can run, and a finite time-out expires.
\* Nothing is assumed of the hardware: a transfer may never end.
Fairness == \A t \in Task : WF_vars(Work(t))

FairSpec == Spec /\ Fairness

(***************************************************************************)
(* Properties                                                              *)
(***************************************************************************)
\* Types of the fields; the semaphores are binary.
TypeOK ==
  /\ initialized \in BOOLEAN /\ llUp \in BOOLEAN
  /\ control \in {"rest", "up", "down"}
  /\ mutex \in [Direction -> Task \union {None}]
  /\ semaphore \in [Direction -> 0..1]
  /\ pc \in [Task -> Critical \union {"idle", "lock"}]
  /\ dir \in [Task -> Direction]
  /\ ret \in [Task -> BOOLEAN]
  /\ hw \in [Direction -> Transfer]
  /\ pending \in [Direction -> Transfer]
  /\ late \in [Direction -> BOOLEAN]

\* The calls inside the guarded region are exactly the holders of the mutexes:
\* every return path of read() and write() unlocks, and none unlocks twice.
LockHeld ==
  \A t \in Task, d \in Direction :
    mutex[d] = t <=> pc[t] \in Critical /\ dir[t] = d

\* The take() of the drain has no time-out; it never finds the semaphore taken
\* away, although the callbacks of either direction run at any moment.
DrainNeverBlocks == \A t \in Task : pc[t] = "drain" => semaphore[dir[t]] = 1

\* "assure that the binary semaphore is not already given from previous timed
\* out read() call" (EventDrivenStream.hpp 53 and 125): a call that waits finds
\* the semaphore given only if its own transfer has ended.
NoStaleSignal ==
  \A t \in Task :
    pc[t] = "await" /\ semaphore[dir[t]] = 1 => hw[dir[t]] /= t /\ pending[dir[t]] /= t

\* What the drain does achieve: a call can be woken before its transfer has
\* ended only by a callback of an abandoned transfer that came after the drain.
EarlySignalIsLate ==
  \A t \in Task :
    /\ pc[t] = "await" /\ semaphore[dir[t]] = 1
    /\ hw[dir[t]] = t \/ pending[dir[t]] = t
    => late[dir[t]]

\* A call whose time-out is finite does not hold its mutex for ever, even if its
\* transfer never ends, is refused, or is dropped by deinit().
LockReleased ==
  \A t \in Task, d \in Direction : mutex[d] = t ~> mutex[d] /= t
=============================================================================
