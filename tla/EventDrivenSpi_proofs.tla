------------------------ MODULE EventDrivenSpi_proofs ------------------------
(***************************************************************************)
(* Proofs about EventDrivenSpi for any tasks and operations and any        *)
(* behaviour of the low-level driver.                                      *)
(***************************************************************************)
EXTENDS EventDrivenSpi, TLAPS

(***************************************************************************)
(* The inductive invariant adds to the properties what the readiness loops *)
(* have seen so far, and what is known of a transfer that was started when *)
(* no signal was about.                                                    *)
(***************************************************************************)
Seeking == {"ready", "take", "recheck"}

\* A call looks for the readiness of a channel it uses; when read_write() looks
\* at the second one, the first is still ready.  write_await() starts nothing.
FirstStillReady ==
  \A t \in Task :
    /\ pc[t] \in Seeking =>
         /\ ch[t] \in Uses(op[t])
         /\ op[t] = "read_write" /\ ch[t] = "w" => ~Busy("r")
    /\ pc[t] \in Seeking \union {"start"} => op[t] # "write_await"

\* No callback gives read_semaphore.
ReadsUnsignalled == semaphore["r"] = 0

\* A transfer that was started in quiet is the only one, and nothing has
\* signalled since.  write_await() has started none.
QuietFlight ==
  \A t \in Task : outcome[t] = "flying" =>
    /\ pc[t] \notin {"lock", "check"}
    /\ pc[t] = "await" =>
         /\ semaphore["w"] = 0 /\ ~pending
         /\ \A x \in inflight : x.owner = t

Inv ==
  /\ TypeOK /\ LockHeld
  /\ FirstStillReady /\ ReadyAtStart
  /\ ReadsUnsignalled /\ QuietFlight

\* Two calls inside the guarded region are the same call.
LEMMA OneHolder ==
  ASSUME LockHeld, NEW t \in Task, NEW u \in Task,
         pc[t] \in Critical, pc[u] \in Critical
  PROVE  t = u
  BY DEF LockHeld

\* Before the first call the driver is at rest.
LEMMA InitInv == Init => Inv
  <1> SUFFICES ASSUME Init PROVE Inv
    OBVIOUS
  <1> USE NobodyAssumption DEF Init
  <1>1. /\ expired \in [Task -> BOOLEAN] /\ ret \in [Task -> BOOLEAN]
        /\ pending \in BOOLEAN
    BY Zenon
  <1>2. TypeOK
    BY <1>1 DEF TypeOK, Channel
  <1>3. LockHeld /\ FirstStillReady /\ ReadyAtStart
    BY DEF LockHeld, FirstStillReady, ReadyAtStart, Critical, Seeking
  <1>4. ReadsUnsignalled /\ QuietFlight
    BY DEF ReadsUnsignalled, QuietFlight, Channel
  <1> QED
    BY <1>2, <1>3, <1>4 DEF Inv

\* A call that is not in the guarded region yet moves nothing in it.
LEMMA OutsideInv ==
  ASSUME Inv, NEW t \in Task, (\E o \in Op : Call(t, o)) \/ Expire(t)
  PROVE  Inv'
  <1> USE NobodyAssumption DEF Inv, Goto, driverVars
  <1>1. ASSUME NEW o \in Op, Call(t, o) PROVE Inv'
    <2> USE <1>1 DEF Call
    <2>1. TypeOK'
      BY DEF TypeOK
    <2>2. LockHeld'
      BY DEF LockHeld, Critical, TypeOK
    <2>3. FirstStillReady' /\ ReadyAtStart'
      BY DEF FirstStillReady, ReadyAtStart, Seeking, TypeOK, Busy
    <2>4. ReadsUnsignalled' /\ QuietFlight'
      BY DEF ReadsUnsignalled, QuietFlight, TypeOK
    <2> QED
      BY <2>1, <2>2, <2>3, <2>4
  <1>2. CASE Expire(t)
    <2> USE <1>2 DEF Expire
    <2>1. TypeOK'
      BY DEF TypeOK
    <2>2. LockHeld' /\ FirstStillReady' /\ ReadyAtStart' /\ ReadsUnsignalled' /\ QuietFlight'
      BY DEF LockHeld, FirstStillReady, ReadyAtStart, ReadsUnsignalled, QuietFlight, Busy
    <2> QED
      BY <2>1, <2>2
  <1> QED
    BY <1>1, <1>2

\* The channels of an operation, in the order they are looked at.
LEMMA ChannelOrder ==
  ASSUME NEW o \in Op
  PROVE  /\ First(o) \in Uses(o) /\ First(o) \in Channel
         /\ o = "read_write" => First(o) = "r"
         /\ \A c \in Uses(o) : ~IsLast(o, c) => o = "read_write" /\ c = "r"
         /\ \A c, d \in Uses(o) : IsLast(o, c) /\ d # c => o = "read_write" /\ c = "w" /\ d = "r"
  BY OpAssumption DEF First, Uses, IsLast, Channel, AllOps

\* Moving on from a ready channel: the transfer is reached only when every
\* channel it uses is free.
LEMMA ProceedReady ==
  ASSUME Inv, NEW t \in Task, pc[t] \in Seeking, ~Busy(ch[t]), Proceed(t),
         UNCHANGED <<op, inflight>>
  PROVE  /\ pc' \in [Task -> Critical \union {"idle", "lock"}]
         /\ ch' \in [Task -> Channel]
         /\ pc'[t] \in {"start", "ready"}
         /\ \A u \in Task \ {t} : pc'[u] = pc[u]
         /\ FirstStillReady' /\ ReadyAtStart'
  <1> USE DEF Inv
  <1>0. \A u \in Task : pc[u] \in Critical => u = t
    BY OneHolder DEF Critical, Seeking
  <1>1. /\ op[t] \in Op /\ ch[t] \in Uses(op[t]) /\ op[t] # "write_await"
        /\ op[t] = "read_write" /\ ch[t] = "w" => ~Busy("r")
    BY DEF TypeOK, FirstStillReady
  <1>2. \A c : Busy(c)' <=> Busy(c)
    BY DEF Busy
  <1>3. CASE IsLast(op[t], ch[t])
    <2>1. GotoAt(t, "start", First(op[t])) /\ First(op[t]) \in Channel
      BY <1>1, <1>3, ChannelOrder DEF Proceed
    <2>2. \A d \in Uses(op[t]) : ~Busy(d)
      BY <1>1, <1>3, ChannelOrder
    <2> QED
      BY <1>0, <1>2, <2>1, <2>2
      DEF GotoAt, Goto, TypeOK, FirstStillReady, ReadyAtStart, Seeking, Critical
  <1>4. CASE ~IsLast(op[t], ch[t])
    <2>1. op[t] = "read_write" /\ ch[t] = "r"
      BY <1>1, <1>4, ChannelOrder
    <2>2. GotoAt(t, "ready", "w") /\ ~Busy("r") /\ "w" \in Uses(op[t]) /\ "w" \in Channel
      BY <1>4, <2>1 DEF Proceed, Uses, Channel
    <2> QED
      BY <1>0, <1>1, <1>2, <2>1, <2>2
      DEF GotoAt, Goto, TypeOK, FirstStillReady, ReadyAtStart, Seeking, Critical
  <1> QED
    BY <1>3, <1>4

\* The lock is taken when nobody is inside; the first channel is looked at.
LEMMA LockInv == ASSUME Inv, NEW t \in Task, Lock(t) PROVE Inv'
  <1> USE NobodyAssumption DEF Inv, Lock, Goto, GotoAt, driverVars
  <1>1. /\ op[t] \in Op /\ First(op[t]) \in Channel /\ First(op[t]) \in Uses(op[t])
        /\ op[t] = "read_write" => First(op[t]) = "r"
    BY ChannelOrder DEF TypeOK
  <1>2. \A u \in Task : pc[u] \notin Critical
    BY DEF LockHeld
  <1>3. TypeOK'
    <2>1. mutex' \in Task \union {Nobody}
      BY <1>1 DEF TypeOK, Critical, Channel
    <2>2. pc' \in [Task -> Critical \union {"idle", "lock"}]
      BY <1>1 DEF TypeOK, Critical, Channel
    <2>3. ch' \in [Task -> Channel]
      BY <1>1 DEF TypeOK, Critical, Channel
    <2> QED
      BY <2>1, <2>2, <2>3 DEF TypeOK
  <1>4. LockHeld'
    BY DEF LockHeld, Critical, TypeOK
  <1>5. FirstStillReady' /\ ReadyAtStart'
    BY <1>1, <1>2 DEF FirstStillReady, ReadyAtStart, Critical, Seeking, TypeOK, Busy
  <1>6. ReadsUnsignalled' /\ QuietFlight'
    BY DEF ReadsUnsignalled, QuietFlight, Critical, TypeOK, Channel
  <1> QED
    BY <1>3, <1>4, <1>5, <1>6

\* A channel is found ready, or the time is up, or its signal is waited for.
LEMMA EnsureInv == ASSUME Inv, NEW t \in Task, Ensure(t) PROVE Inv'
  <1> USE NobodyAssumption DEF Inv, Ensure, driverVars
  <1>0. \A u \in Task : pc[u] \in Critical => u = t
    BY OneHolder DEF Critical
  <1>1. CASE Return(t, FALSE)
    <2> USE <1>1 DEF Return
    <2>1. TypeOK'
      BY DEF TypeOK, Critical
    <2>2. LockHeld' /\ FirstStillReady' /\ ReadyAtStart'
      BY <1>0 DEF LockHeld, FirstStillReady, ReadyAtStart, Critical, Seeking, TypeOK, Busy
    <2>3. ReadsUnsignalled' /\ QuietFlight'
      BY <1>0 DEF ReadsUnsignalled, QuietFlight, Critical, TypeOK
    <2> QED
      BY <2>1, <2>2, <2>3
  <1>2. CASE ~Busy(ch[t]) /\ Proceed(t) /\ UNCHANGED ret
    <2>1. /\ pc' \in [Task -> Critical \union {"idle", "lock"}] /\ ch' \in [Task -> Channel]
          /\ pc'[t] \in {"start", "ready"} /\ \A u \in Task \ {t} : pc'[u] = pc[u]
          /\ FirstStillReady' /\ ReadyAtStart'
      BY <1>2, ProceedReady DEF Seeking
    <2>2. TypeOK'
      BY <1>2, <2>1 DEF TypeOK
    <2>3. LockHeld' /\ ReadsUnsignalled' /\ QuietFlight'
      BY <1>0, <2>1 DEF LockHeld, ReadsUnsignalled, QuietFlight, Critical
    <2> QED
      BY <2>1, <2>2, <2>3
  <1>3. CASE Goto(t, "take") /\ UNCHANGED <<ch, ret>>
    <2> USE <1>3 DEF Goto
    <2>1. TypeOK'
      BY DEF TypeOK, Critical
    <2>2. LockHeld' /\ FirstStillReady' /\ ReadyAtStart'
      BY <1>0 DEF LockHeld, FirstStillReady, ReadyAtStart, Critical, Seeking, TypeOK, Busy
    <2>3. ReadsUnsignalled' /\ QuietFlight'
      BY <1>0 DEF ReadsUnsignalled, QuietFlight, Critical, TypeOK
    <2> QED
      BY <2>1, <2>2, <2>3
  <1> QED
    BY <1>1, <1>2, <1>3

\* A signal is taken, or none comes.
LEMMA EnsureTakeInv == ASSUME Inv, NEW t \in Task, EnsureTake(t) PROVE Inv'
  <1> USE NobodyAssumption DEF Inv, EnsureTake, Goto, driverVars
  <1>0. \A u \in Task : pc[u] \in Critical => u = t
    BY OneHolder DEF Critical
  <1>1. TypeOK'
    <2>1. pc' \in [Task -> Critical \union {"idle", "lock"}]
      BY DEF TypeOK, Critical, Channel
    <2>2. semaphore' \in [Channel -> 0..1]
      BY DEF TypeOK, Critical, Channel
    <2> QED
      BY <2>1, <2>2 DEF TypeOK
  <1>2. LockHeld'
    BY DEF LockHeld, Critical, TypeOK
  <1>3. FirstStillReady' /\ ReadyAtStart'
    BY <1>0 DEF FirstStillReady, ReadyAtStart, Critical, Seeking, TypeOK, Busy
  <1>4. ReadsUnsignalled' /\ QuietFlight'
    BY <1>0 DEF ReadsUnsignalled, QuietFlight, Critical, TypeOK, Channel
  <1> QED
    BY <1>1, <1>2, <1>3, <1>4

\* The channel is looked at again before the call moves on.
LEMMA EnsureRecheckInv == ASSUME Inv, NEW t \in Task, EnsureRecheck(t) PROVE Inv'
  <1> USE NobodyAssumption DEF Inv, EnsureRecheck, driverVars
  <1>0. \A u \in Task : pc[u] \in Critical => u = t
    BY OneHolder DEF Critical
  <1>1. CASE ~Busy(ch[t])
    <2>1. /\ pc' \in [Task -> Critical \union {"idle", "lock"}] /\ ch' \in [Task -> Channel]
          /\ pc'[t] \in {"start", "ready"} /\ \A u \in Task \ {t} : pc'[u] = pc[u]
          /\ FirstStillReady' /\ ReadyAtStart'
      BY <1>1, ProceedReady DEF Seeking
    <2>2. TypeOK'
      BY <2>1 DEF TypeOK
    <2>3. LockHeld' /\ ReadsUnsignalled' /\ QuietFlight'
      BY <1>0, <2>1 DEF LockHeld, ReadsUnsignalled, QuietFlight, Critical
    <2> QED
      BY <2>1, <2>2, <2>3
  <1>2. CASE Busy(ch[t])
    <2> USE <1>2 DEF Goto
    <2>1. TypeOK'
      BY DEF TypeOK, Critical
    <2>2. LockHeld' /\ FirstStillReady' /\ ReadyAtStart'
      BY <1>0 DEF LockHeld, FirstStillReady, ReadyAtStart, Critical, Seeking, TypeOK, Busy
    <2>3. ReadsUnsignalled' /\ QuietFlight'
      BY <1>0 DEF ReadsUnsignalled, QuietFlight, Critical, TypeOK
    <2> QED
      BY <2>1, <2>2, <2>3
  <1> QED
    BY <1>1, <1>2

\* The transfer is started; if all is quiet it is the only one.
LEMMA StartInv == ASSUME Inv, NEW t \in Task, Start(t) PROVE Inv'
  <1> USE NobodyAssumption DEF Inv, driverVars
  <1>0. pc[t] = "start" /\ \A u \in Task : pc[u] \in Critical => u = t
    BY OneHolder DEF Start, Critical
  <1>1. CASE Return(t, FALSE) /\ UNCHANGED <<outcome, inflight>>
    <2> USE <1>0, <1>1 DEF Start, Return
    <2>1. TypeOK'
      BY DEF TypeOK, Critical
    <2>2. LockHeld' /\ FirstStillReady' /\ ReadyAtStart'
      BY DEF LockHeld, FirstStillReady, ReadyAtStart, Critical, Seeking, TypeOK, Busy
    <2>3. ReadsUnsignalled' /\ QuietFlight'
      BY DEF ReadsUnsignalled, QuietFlight, Critical, TypeOK
    <2> QED
      BY <2>1, <2>2, <2>3
  <1>2. CASE /\ op[t] = "write_async" /\ Return(t, TRUE) /\ UNCHANGED outcome
             /\ inflight' = inflight \union {[kind |-> "write", owner |-> Nobody]}
    <2> USE <1>0, <1>2 DEF Start, Return
    <2>1. TypeOK'
      BY DEF TypeOK, Critical, Transfer
    <2>2. LockHeld' /\ FirstStillReady' /\ ReadyAtStart'
      BY DEF LockHeld, FirstStillReady, ReadyAtStart, Critical, Seeking, TypeOK
    <2>3. ReadsUnsignalled' /\ QuietFlight'
      BY DEF ReadsUnsignalled, QuietFlight, Critical, TypeOK
    <2> QED
      BY <2>1, <2>2, <2>3
  <1>3. CASE /\ op[t] # "write_async" /\ Goto(t, "await") /\ UNCHANGED <<ch, ret>>
             /\ outcome' = [outcome EXCEPT ![t] = IF Quiet THEN "flying" ELSE "crowded"]
             /\ inflight' = inflight \union {[kind |-> op[t], owner |-> t]}
    <2> USE <1>0, <1>3 DEF Goto
    <2>a. op[t] \in {"read", "write", "read_write"}
      BY OpAssumption DEF FirstStillReady, TypeOK, AllOps
    <2>b. UNCHANGED <<mutex, semaphore, op, expired, pending>>
      BY DEF Start
    <2>0. /\ op[t] \in {"read", "write", "read_write"}
          /\ UNCHANGED <<mutex, semaphore, op, expired, pending>>
      BY <2>a, <2>b
    <2>1. TypeOK'
      <3>1. pc' \in [Task -> Critical \union {"idle", "lock"}]
        BY DEF TypeOK, Critical
      <3>2. outcome' \in [Task -> {"none", "flying", "crowded", "done", "failed"}]
        BY DEF TypeOK
      <3>3. inflight' \subseteq Transfer
        BY <2>0 DEF TypeOK, Transfer
      <3> QED
        BY <2>0, <3>1, <3>2, <3>3 DEF TypeOK
    <2>2. LockHeld' /\ FirstStillReady' /\ ReadyAtStart'
      BY <2>0 DEF LockHeld, FirstStillReady, ReadyAtStart, Critical, Seeking, TypeOK
    <2>3. ReadsUnsignalled' /\ QuietFlight'
      BY <2>0 DEF ReadsUnsignalled, QuietFlight, Quiet, Critical, TypeOK
    <2> QED
      BY <2>1, <2>2, <2>3
  <1> QED
    BY <1>1, <1>2, <1>3 DEF Start

\* write_await() waits for nothing it has started itself.
LEMMA CheckBusyInv == ASSUME Inv, NEW t \in Task, CheckBusy(t) PROVE Inv'
  <1> USE NobodyAssumption DEF Inv, CheckBusy, Goto, Return, driverVars
  <1>0. \A u \in Task : pc[u] \in Critical => u = t
    BY OneHolder DEF Critical
  <1>1. TypeOK'
    <2>1. pc' \in [Task -> Critical \union {"idle", "lock"}]
      BY DEF TypeOK, Critical, Channel
    <2>2. ret' \in [Task -> BOOLEAN]
      BY DEF TypeOK, Critical, Channel
    <2> QED
      BY <2>1, <2>2 DEF TypeOK
  <1>2. LockHeld'
    BY DEF LockHeld, Critical, TypeOK
  <1>3. FirstStillReady' /\ ReadyAtStart'
    BY <1>0 DEF FirstStillReady, ReadyAtStart, Critical, Seeking, TypeOK, Busy
  <1>4. ReadsUnsignalled' /\ QuietFlight'
    BY <1>0 DEF ReadsUnsignalled, QuietFlight, Critical, TypeOK, Channel
  <1> QED
    BY <1>1, <1>2, <1>3, <1>4

\* The wait ends with a signal.
LEMMA AwaitInv == ASSUME Inv, NEW t \in Task, Await(t) PROVE Inv'
  <1> USE NobodyAssumption DEF Inv, Await, Finish, Goto, GotoAt, Return, driverVars
  <1>0. \A u \in Task : pc[u] \in Critical => u = t
    BY OneHolder DEF Critical
  <1>1. TypeOK'
    <2>1. pc' \in [Task -> Critical \union {"idle", "lock"}]
      BY DEF TypeOK, Critical, Channel
    <2>2. ch' \in [Task -> Channel]
      BY DEF TypeOK, Critical, Channel
    <2>3. ret' \in [Task -> BOOLEAN]
      BY DEF TypeOK, Critical, Channel
    <2>4. semaphore' \in [Channel -> 0..1]
      BY DEF TypeOK, Critical, Channel
    <2>5. inflight' \subseteq Transfer
      BY DEF TypeOK, Critical, Channel, Transfer
    <2> QED
      BY <2>1, <2>2, <2>3, <2>4, <2>5 DEF TypeOK
  <1>2. LockHeld'
    BY DEF LockHeld, Critical, TypeOK
  <1>3. FirstStillReady' /\ ReadyAtStart'
    BY <1>0 DEF FirstStillReady, ReadyAtStart, Critical, Seeking, TypeOK, Busy
  <1>4. ReadsUnsignalled' /\ QuietFlight'
    BY <1>0 DEF ReadsUnsignalled, QuietFlight, Critical, TypeOK, Channel
  <1> QED
    BY <1>1, <1>2, <1>3, <1>4

\* The wait ends without one.
LEMMA AwaitTimesOutInv == ASSUME Inv, NEW t \in Task, AwaitTimesOut(t) PROVE Inv'
  <1> USE NobodyAssumption DEF Inv, AwaitTimesOut, Finish, Goto, Return, driverVars
  <1>0. \A u \in Task : pc[u] \in Critical => u = t
    BY OneHolder DEF Critical
  <1>1. TypeOK'
    <2>1. pc' \in [Task -> Critical \union {"idle", "lock"}]
      BY DEF TypeOK, Critical, Channel
    <2>2. ret' \in [Task -> BOOLEAN]
      BY DEF TypeOK, Critical, Channel
    <2>3. inflight' \subseteq Transfer
      BY DEF TypeOK, Critical, Channel, Transfer
    <2> QED
      BY <2>1, <2>2, <2>3 DEF TypeOK
  <1>2. LockHeld'
    BY DEF LockHeld, Critical, TypeOK
  <1>3. FirstStillReady' /\ ReadyAtStart'
    BY <1>0 DEF FirstStillReady, ReadyAtStart, Critical, Seeking, TypeOK, Busy
  <1>4. ReadsUnsignalled' /\ QuietFlight'
    BY <1>0 DEF ReadsUnsignalled, QuietFlight, Critical, TypeOK, Channel
  <1> QED
    BY <1>1, <1>2, <1>3, <1>4

\* The unlock leaves the region.
LEMMA UnlockInv == ASSUME Inv, NEW t \in Task, Unlock(t) PROVE Inv'
  <1> USE NobodyAssumption DEF Inv, Unlock, Goto, driverVars
  <1>0. \A u \in Task : pc[u] \in Critical => u = t
    BY OneHolder DEF Critical
  <1>1. TypeOK'
    <2>1. mutex' \in Task \union {Nobody}
      BY DEF TypeOK, Critical, Channel
    <2>2. pc' \in [Task -> Critical \union {"idle", "lock"}]
      BY DEF TypeOK, Critical, Channel
    <2> QED
      BY <2>1, <2>2 DEF TypeOK
  <1>2. LockHeld'
    BY DEF LockHeld, Critical, TypeOK
  <1>3. FirstStillReady' /\ ReadyAtStart'
    BY <1>0 DEF FirstStillReady, ReadyAtStart, Critical, Seeking, TypeOK, Busy
  <1>4. ReadsUnsignalled' /\ QuietFlight'
    BY <1>0 DEF ReadsUnsignalled, QuietFlight, Critical, TypeOK, Channel
  <1> QED
    BY <1>1, <1>2, <1>3, <1>4

\* A transfer ends and its signal, given now or by a thread later, is that of
\* write_semaphore.
LEMMA DriverInv ==
  ASSUME Inv, (\E x \in Transfer : End(x)) \/ CallBack
  PROVE  Inv'
  <1> USE NobodyAssumption DEF Inv, ll_async_complete_common_signal
  <1>1. ASSUME NEW x \in Transfer, End(x) PROVE Inv'
    <2> USE <1>1 DEF End
    <2>0. PICK how \in {"done", "failed"} :
            outcome' = [t \in Task |-> IF x.owner = t THEN how ELSE outcome[t]]
      OBVIOUS
    <2>1. TypeOK'
      <3>1. semaphore' \in [Channel -> 0..1]
        BY DEF TypeOK, Channel
      <3>2. pending' \in BOOLEAN
        BY Zenon DEF TypeOK
      <3>3. outcome' \in [Task -> {"none", "flying", "crowded", "done", "failed"}]
        BY <2>0 DEF TypeOK
      <3>4. inflight' \subseteq Transfer
        BY DEF TypeOK
      <3> QED
        BY <3>1, <3>2, <3>3, <3>4 DEF TypeOK
    <2>2. LockHeld'
      BY DEF LockHeld
    <2>3. FirstStillReady' /\ ReadyAtStart'
      BY DEF FirstStillReady, ReadyAtStart, Busy
    <2>4. ReadsUnsignalled' /\ QuietFlight'
      BY <2>0 DEF ReadsUnsignalled, QuietFlight, TypeOK, Channel
    <2> QED
      BY <2>1, <2>2, <2>3, <2>4
  <1>2. CASE CallBack
    <2> USE <1>2 DEF CallBack
    <2>1. TypeOK'
      <3>1. semaphore' \in [Channel -> 0..1]
        BY DEF TypeOK, Channel
      <3>2. pending' \in BOOLEAN
        BY Zenon
      <3> QED
        BY <3>1, <3>2 DEF TypeOK
    <2>2. LockHeld' /\ FirstStillReady' /\ ReadyAtStart'
      BY DEF LockHeld, FirstStillReady, ReadyAtStart, Busy
    <2>3. ReadsUnsignalled' /\ QuietFlight'
      BY DEF ReadsUnsignalled, QuietFlight, TypeOK, Channel
    <2> QED
      BY <2>1, <2>2, <2>3
  <1> QED
    BY <1>1, <1>2

\* Every step preserves the invariant.
LEMMA NextInv == ASSUME Inv, [Next]_vars PROVE Inv'
  <1>1. ASSUME NEW t \in Task, (\E o \in Op : Call(t, o)) \/ Lock(t) \/ Work(t) \/ Expire(t)
        PROVE  Inv'
    BY <1>1, OutsideInv, LockInv, EnsureInv, EnsureTakeInv, EnsureRecheckInv, StartInv,
       CheckBusyInv, AwaitInv, AwaitTimesOutInv, UnlockInv DEF Work
  <1>2. CASE EndSome \/ CallBack
    BY <1>2, DriverInv DEF EndSome
  <1>3. CASE UNCHANGED vars
    BY <1>3 DEF vars, Inv, TypeOK, LockHeld, FirstStillReady, ReadyAtStart,
                ReadsUnsignalled, QuietFlight, Busy
  <1> QED
    BY <1>1, <1>2, <1>3 DEF Next

\* One call at a time uses the bus, every return path unlocks it, and no
\* transfer is started on a channel that still runs one (EventDrivenSpi.cpp
\* 21-43, 45-141).
THEOREM SpiSafety == Spec => [](TypeOK /\ LockHeld /\ ReadyAtStart)
  <1>1. Init => Inv
    BY InitInv
  <1>2. Inv /\ [Next]_vars => Inv'
    BY NextInv
  <1>3. Inv => TypeOK /\ LockHeld /\ ReadyAtStart
    BY DEF Inv
  <1> QED
    BY <1>1, <1>2, <1>3, PTL DEF Spec

\* A call whose transfer was started when no signal was given or to come does
\* not return true before the transfer has ended (EventDrivenSpi.cpp 59-62,
\* 79-82, 134-140).
THEOREM SpiQuietStart == Spec => QuietStartIsHonest
  <1> DEFINE Honest ==
        \A t \in Task :
          pc[t] = "await" /\ pc'[t] = "unlock" /\ ret'[t] => outcome[t] # "flying"
  <1>1. Init => Inv
    BY InitInv
  <1>2. Inv /\ [Next]_vars => Inv'
    BY NextInv
  <1>3. ASSUME Inv, [Next]_vars PROVE [Honest]_vars
    <2> SUFFICES ASSUME Next, NEW t \in Task,
                        pc[t] = "await", pc'[t] = "unlock", ret'[t], outcome[t] = "flying"
                 PROVE  FALSE
      BY <1>3
    <2>1. semaphore["w"] = 0 /\ semaphore["r"] = 0
      BY <1>3 DEF Inv, QuietFlight, ReadsUnsignalled
    <2>2. semaphore[ch[t]] = 0
      BY <1>3, <2>1 DEF Inv, TypeOK, Channel
    <2>3. ASSUME NEW u \in Task, (\E o \in Op : Call(u, o)) \/ Lock(u) \/ Expire(u)
          PROVE  FALSE
      BY <1>3, <2>3 DEF Inv, TypeOK, Call, Lock, Expire, Goto, GotoAt
    <2>4. ASSUME NEW u \in Task, Work(u) PROVE FALSE
      <3>1. u = t
        BY <1>3, <2>4, OneHolder DEF Inv, Work, Ensure, EnsureTake, EnsureRecheck, Start,
           CheckBusy, Await, AwaitTimesOut, Unlock, Critical
      <3>2. AwaitTimesOut(t)
        <4>1. ~Ensure(t) /\ ~EnsureTake(t) /\ ~EnsureRecheck(t) /\ ~Start(t)
          BY DEF Ensure, EnsureTake, EnsureRecheck, Start
        <4>2. ~CheckBusy(t) /\ ~Await(t) /\ ~Unlock(t)
          BY <2>2 DEF CheckBusy, Await, Unlock
        <4> QED
          BY <2>4, <3>1, <4>1, <4>2 DEF Work
      <3> QED
        BY <1>3, <3>2 DEF AwaitTimesOut, Finish, Return, Inv, TypeOK
    <2>5. ASSUME EndSome \/ CallBack PROVE FALSE
      BY <2>5 DEF EndSome, End, CallBack
    <2> QED
      BY <2>3, <2>4, <2>5 DEF Next
  <1> QED
    BY <1>1, <1>2, <1>3, PTL DEF Spec, QuietStartIsHonest
=============================================================================
