--------------------------- MODULE EventDrivenSpi ---------------------------
(***************************************************************************)
(* ln::drivers::EventDrivenSpi: tasks read, write and exchange data over a *)
(* full-duplex bus (ln/drivers/src/EventDrivenSpi.cpp).  One mutex covers  *)
(* every operation; a binary semaphore per channel, "r" and "w", is meant  *)
(* to carry the completion of a transfer to the task that waits for it.    *)
(*                                                                         *)
(* The low-level driver is a class the application derives: a transfer it  *)
(* has started ends at any moment, normally or not, and calls back from an *)
(* interrupt (at once) or from a thread (some time later).                 *)
(***************************************************************************)
EXTENDS Integers, FiniteSets

CONSTANTS
  Task,        \* the tasks that use the bus
  Op,          \* the operations they call
  CanTimeOut,  \* calls pass a finite Timeout, not Timeout::max()
  MayFail,     \* a transfer may end abnormally
  Nobody       \* no task: a free mutex, a transfer nobody waits for

AllOps == {"read", "write", "write_async", "write_await", "read_write"}
Channel == {"r", "w"}

ASSUME OpAssumption == Op \subseteq AllOps
ASSUME BooleanAssumption == CanTimeOut \in BOOLEAN /\ MayFail \in BOOLEAN
ASSUME NobodyAssumption == Nobody \notin Task

VARIABLES
  mutex,       \* its holder
  semaphore,   \* semaphore["r"] is read_semaphore, ["w"] is write_semaphore
  pc,          \* per task, the next statement of its call
  op,          \* per task, the operation it is in
  ch,          \* per task, the channel its next statement is about
  expired,     \* per task, the time of its call is up
  ret,         \* per task, what its last call returned
  outcome,     \* history: what became of the transfer its call started;
               \* "crowded" if it runs and a signal of another may be about
  inflight,    \* the transfers the driver runs
  pending      \* a thread of the driver is about to run a callback

vars == <<mutex, semaphore, pc, op, ch, expired, ret, outcome, inflight, pending>>
driverVars == <<inflight, pending>>

Transfer == [kind : {"read", "write", "read_write"}, owner : Task \union {Nobody}]
Critical == {"ready", "take", "recheck", "start", "check", "await", "unlock"}

\* The channels an operation uses, in the order it waits for them.
First(o) == IF o \in {"read", "read_write"} THEN "r" ELSE "w"
Uses(o) == IF o = "read_write" THEN Channel ELSE {First(o)}
IsLast(o, c) == c = "w" \/ o /= "read_write"

\* ll_busy_reading(), ll_busy_writing()
Busy(c) == \E x \in inflight : c \in Uses(x.kind)

Goto(t, label) == pc' = [pc EXCEPT ![t] = label]
GotoAt(t, label, c) == Goto(t, label) /\ ch' = [ch EXCEPT ![t] = c]
Return(t, ok) ==
  /\ pc' = [pc EXCEPT ![t] = "unlock"]
  /\ ret' = [ret EXCEPT ![t] = ok]
  /\ UNCHANGED ch

(***************************************************************************)
(* The operations.  A definition named Mutant... is not part of the model: *)
(* it is a plausible bug in the definition after it, kept to show that the *)
(* properties notice it.                                                   *)
(***************************************************************************)
\* size == 0, or no data, returns before the lock is taken.
Call(t, o) ==
  /\ pc[t] = "idle"
  /\ op' = [op EXCEPT ![t] = o]
  /\ \/ /\ o /= "write_await"
        /\ \E ok \in BOOLEAN : ret' = [ret EXCEPT ![t] = ok]
        /\ UNCHANGED <<pc, expired, outcome>>
     \/ /\ Goto(t, "lock")
        /\ expired' = [expired EXCEPT ![t] = FALSE]
        /\ outcome' = [outcome EXCEPT ![t] = "none"]
        /\ UNCHANGED ret
  /\ UNCHANGED <<mutex, semaphore, ch, driverVars>>

MutantLockFreeAwait(t) ==
  /\ pc[t] = "lock"
  /\ mutex = Nobody \/ op[t] = "write_await"
  /\ mutex' = IF op[t] = "write_await" THEN mutex ELSE t
  /\ GotoAt(t, IF op[t] = "write_await" THEN "check" ELSE "ready", First(op[t]))
  /\ UNCHANGED <<semaphore, op, expired, ret, outcome, driverVars>>
\* LockGuard lock_guard(this->mutex)
Lock(t) ==
  /\ pc[t] = "lock" /\ mutex = Nobody
  /\ mutex' = t
  /\ GotoAt(t, IF op[t] = "write_await" THEN "check" ELSE "ready", First(op[t]))
  /\ UNCHANGED <<semaphore, op, expired, ret, outcome, driverVars>>

\* A channel is ready: on to the next one, or to the transfer.
Proceed(t) ==
  IF IsLast(op[t], ch[t]) THEN GotoAt(t, "start", First(op[t]))
                          ELSE GotoAt(t, "ready", "w")

\* The head of the loop of ll_ensure_read_readiness(), ..._write_readiness().
Ensure(t) ==
  /\ pc[t] = "ready"
  /\ \/ expired[t] /\ Return(t, FALSE)
     \/ ~expired[t] /\ ~Busy(ch[t]) /\ Proceed(t) /\ UNCHANGED ret
     \/ ~expired[t] /\ Busy(ch[t]) /\ Goto(t, "take") /\ UNCHANGED <<ch, ret>>
  /\ UNCHANGED <<mutex, semaphore, op, expired, outcome, driverVars>>

\* Its semaphore.take(): a signal, or none within 10 ms.
EnsureTake(t) ==
  /\ pc[t] = "take"
  /\ IF semaphore[ch[t]] = 1 THEN Goto(t, "recheck") ELSE Goto(t, "ready")
  /\ semaphore' = [semaphore EXCEPT ![ch[t]] = 0]
  /\ UNCHANGED <<mutex, op, ch, expired, ret, outcome, driverVars>>

MutantTrustSignal(t) ==
  /\ pc[t] = "recheck"
  /\ Proceed(t)
  /\ UNCHANGED <<mutex, semaphore, op, expired, ret, outcome, driverVars>>
\* The signal may be of another transfer: busy is read again.
EnsureRecheck(t) ==
  /\ pc[t] = "recheck"
  /\ IF Busy(ch[t]) THEN Goto(t, "ready") /\ UNCHANGED ch ELSE Proceed(t)
  /\ UNCHANGED <<mutex, semaphore, op, expired, ret, outcome, driverVars>>

\* No signal is given or to come.
Quiet == inflight = {} /\ ~pending /\ semaphore["w"] = 0

\* ll_read_async(), ll_write_async(), ll_read_write_async()
Start(t) ==
  LET async == op[t] = "write_async"
      kind == IF async THEN "write" ELSE op[t]
  IN  /\ pc[t] = "start"
      /\ \/ Return(t, FALSE) /\ UNCHANGED <<outcome, inflight>>
         \/ /\ inflight' = inflight \union
                             {[kind |-> kind, owner |-> IF async THEN Nobody ELSE t]}
            /\ IF async THEN Return(t, TRUE) /\ UNCHANGED outcome
               ELSE /\ Goto(t, "await")
                    /\ outcome' = [outcome EXCEPT ![t] =
                         IF Quiet THEN "flying" ELSE "crowded"]
                    /\ UNCHANGED <<ch, ret>>
      /\ UNCHANGED <<mutex, semaphore, op, expired, pending>>

\* write_await(): nothing to wait for?
CheckBusy(t) ==
  /\ pc[t] = "check"
  /\ IF Busy("w") THEN Goto(t, "await") /\ UNCHANGED <<ch, ret>> ELSE Return(t, TRUE)
  /\ UNCHANGED <<mutex, semaphore, op, expired, outcome, driverVars>>

\* A call returns; nobody waits for its transfer any more.
Finish(t, ok) ==
  /\ Return(t, ok)
  /\ inflight' = {[x EXCEPT !.owner = IF @ = t THEN Nobody ELSE @] : x \in inflight}

\* semaphore.take(timeout.left()) succeeds
Await(t) ==
  /\ pc[t] = "await" /\ semaphore[ch[t]] = 1
  /\ semaphore' = [semaphore EXCEPT ![ch[t]] = 0]
  /\ IF IsLast(op[t], ch[t]) THEN Finish(t, TRUE)
     ELSE GotoAt(t, "await", "w") /\ UNCHANGED <<ret, inflight>>
  /\ UNCHANGED <<mutex, op, expired, outcome, pending>>

MutantTimeOutSucceeds(t) ==
  /\ pc[t] = "await" /\ semaphore[ch[t]] = 0 /\ expired[t]
  /\ Finish(t, TRUE)
  /\ UNCHANGED <<mutex, semaphore, op, expired, outcome, pending>>
MutantTakeWithoutTimeout(t) ==
  /\ pc[t] = "await" /\ semaphore[ch[t]] = 0 /\ expired[t]
  /\ UNCHANGED vars
\* ... or fails
AwaitTimesOut(t) ==
  /\ pc[t] = "await" /\ semaphore[ch[t]] = 0 /\ expired[t]
  /\ Finish(t, FALSE)
  /\ UNCHANGED <<mutex, semaphore, op, expired, outcome, pending>>

\* ~LockGuard
Unlock(t) ==
  /\ pc[t] = "unlock"
  /\ mutex' = Nobody
  /\ Goto(t, "idle")
  /\ UNCHANGED <<semaphore, op, ch, expired, ret, outcome, driverVars>>

Expire(t) ==
  /\ CanTimeOut /\ pc[t] /= "idle" /\ ~expired[t]
  /\ expired' = [expired EXCEPT ![t] = TRUE]
  /\ UNCHANGED <<mutex, semaphore, pc, op, ch, ret, outcome, driverVars>>

(***************************************************************************)
(* The low-level driver and its callbacks.                                 *)
(***************************************************************************)
MutantSignalCounts == semaphore' = [semaphore EXCEPT !["w"] = @ + 1]
\* All four callbacks, of any kind of transfer, end here.
ll_async_complete_common_signal == semaphore' = [semaphore EXCEPT !["w"] = 1]

End(x) ==
  /\ x \in inflight /\ ~pending
  /\ inflight' = inflight \ {x}
  /\ \E how \in {"done"} \union (IF MayFail THEN {"failed"} ELSE {}) :
       outcome' = [t \in Task |-> IF x.owner = t THEN how ELSE outcome[t]]
  /\ \/ ll_async_complete_common_signal /\ UNCHANGED pending
     \/ pending' = TRUE /\ UNCHANGED semaphore
  /\ UNCHANGED <<mutex, pc, op, ch, expired, ret>>

CallBack ==
  /\ pending
  /\ pending' = FALSE
  /\ ll_async_complete_common_signal
  /\ UNCHANGED <<mutex, pc, op, ch, expired, ret, outcome, inflight>>

(***************************************************************************)
(* Specification                                                           *)
(***************************************************************************)
Init ==
  /\ mutex = Nobody
  /\ semaphore = [c \in Channel |-> 0]
  /\ pc = [t \in Task |-> "idle"]
  /\ op \in [Task -> Op]
  /\ ch = [t \in Task |-> "w"]
  /\ expired = [t \in Task |-> FALSE]
  /\ ret = [t \in Task |-> FALSE]
  /\ outcome = [t \in Task |-> "none"]
  /\ inflight = {}
  /\ pending = FALSE

\* The steps of a call that has the lock.
Work(t) ==
  \/ Ensure(t) \/ EnsureTake(t) \/ EnsureRecheck(t) \/ Start(t)
  \/ CheckBusy(t) \/ Await(t) \/ AwaitTimesOut(t) \/ Unlock(t)

EndSome == \E x \in Transfer : End(x)

Next ==
  \/ \E t \in Task : \/ \E o \in Op : Call(t, o)
                     \/ Lock(t)
                     \/ Work(t)
                     \/ Expire(t)
  \/ EndSome
  \/ CallBack

Spec == Init /\ [][Next]_vars

\* The scheduler runs a task that can run, and time passes.
TaskFairness == \A t \in Task : WF_vars(Work(t)) /\ WF_vars(Expire(t))
\* Besides, transfers end and their callbacks run.
HardwareFairness == WF_vars(EndSome) /\ WF_vars(CallBack)

TimedSpec == Spec /\ TaskFairness
UntimedSpec == Spec /\ TaskFairness /\ HardwareFairness

(***************************************************************************)
(* Properties                                                              *)
(***************************************************************************)
\* Types of the fields; the semaphores are binary.
TypeOK ==
  /\ mutex \in Task \union {Nobody}
  /\ semaphore \in [Channel -> 0..1]
  /\ pc \in [Task -> Critical \union {"idle", "lock"}]
  /\ op \in [Task -> Op]
  /\ ch \in [Task -> Channel]
  /\ expired \in [Task -> BOOLEAN]
  /\ ret \in [Task -> BOOLEAN]
  /\ outcome \in [Task -> {"none", "flying", "crowded", "done", "failed"}]
  /\ inflight \subseteq Transfer
  /\ pending \in BOOLEAN

\* One call at a time is inside the guarded region, and it is the holder of
\* the mutex: every return path of the five operations unlocks.
LockHeld == \A t \in Task : mutex = t <=> pc[t] \in Critical

\* No transfer is started on a channel that still runs one, even one that a
\* timed-out or asynchronous call has left behind: the readiness loops see to
\* it for both channels of read_write(), although busy is read long before the
\* start and the signal that ends a loop may be of another transfer.
ReadyAtStart ==
  \A t \in Task : pc[t] = "start" => \A c \in Uses(op[t]) : ~Busy(c)

\* What write() can rely on: it does not return true while its transfer runs if
\* no signal was given or still to come when the transfer was started.  The
\* calls of other tasks, timed out or not, cannot change that: the mutex keeps
\* them from starting anything.
QuietStartIsHonest ==
  [][\A t \in Task :
       pc[t] = "await" /\ pc'[t] = "unlock" /\ ret'[t] => outcome[t] /= "flying"]_vars

\* "Low-level callback signaling read completion" (EventDrivenSpi.hpp 91): a
\* read() whose transfer has ended gets the signal and returns.
ReadReturns ==
  \A t \in Task : op[t] = "read" /\ outcome[t] = "done" ~> pc[t] = "idle"

\* No call keeps the bus for ever.
LockReleased == \A t \in Task : mutex = t ~> mutex /= t
=============================================================================
