--------------------------- MODULE FileTable_proofs ---------------------------
(***************************************************************************)
(* Proofs about FileTable, for any tasks, any number of slots and any      *)
(* flags.  Inv adds to the properties what keeps the slots apart: a task   *)
(* in alloc() is about to take a slot that nobody has, every active slot   *)
(* is somebody's or leaked, and a slot's littlefs file is open exactly     *)
(* while a task has its descriptor or is about to close it.                *)
(***************************************************************************)
EXTENDS FileTable, TLAPS

InLfs == {"lookup", "lfs"}
AfterClaim == {"lookup", "lfs", "free", "undo"}

\* Slot d is the one task t is opening or closing, or it is one of t's.
InUse(t, d) == d = fd[t] /\ call[t] \in {"open", "close"} /\ pc[t] \in AfterClaim
Has(t, d) == d \in held[t] \/ InUse(t, d)

\* What a call has established at each of its statements.
CallShape ==
  \A t \in Task :
    /\ pc[t] \in {"scan", "claim", "undo"} => call[t] = "open"
    /\ pc[t] \in InLfs => call[t] \in {"open", "close", "access"}
    /\ pc[t] = "free" => call[t] \in {"open", "close"}
    /\ pc[t] \in {"lfs", "free"} => fd[t] \in Fd
    /\ call[t] = "open" => fd[t] \in Fd /\ flags[t] \subseteq KnownFlags
    /\ call[t] = "access" => fd[t] \in held[t] \union OutOfRange

\* A slot about to be claimed is free, and only one task is about to claim it.
ClaimsApart ==
  \A t \in Task :
    /\ pc[t] = "claim" => ~active[fd[t]]
    /\ pc[t] /= "undo"
    /\ \A u \in Task \ {t} : pc[t] = "claim" /\ pc[u] = "claim" => fd[t] /= fd[u]

\* A slot that a task has is active and nobody else's.
SlotsApart ==
  \A t \in Task, d \in Fd : Has(t, d) =>
    /\ active[d] /\ d \notin leaked
    /\ ~(d \in held[t] /\ InUse(t, d))
    /\ \A u \in Task \ {t} : ~Has(u, d)

\* An active slot has a task that will free it, or is leaked.
NoneLost ==
  /\ \A d \in leaked : active[d]
  /\ \A d \in Fd : active[d] => d \in leaked \/ \E t \in Task : Has(t, d)

\* The littlefs file of a slot is open while a task can still use or close it.
FilesMatch ==
  /\ \A d \in Fd : ~active[d] => file[d] = Closed
  /\ \A t \in Task :
       /\ pc[t] = "free" => file[fd[t]] = Closed
       /\ pc[t] \in InLfs /\ call[t] = "open" => file[fd[t]] = Closed
       /\ pc[t] \in InLfs /\ call[t] = "close" /\ fd[t] \in Fd => file[fd[t]] /= Closed
       /\ \A d \in held[t] : file[d] /= Closed

\* The slots a scan has passed are taken, unless one was freed meanwhile.
ScannedTaken ==
  \A t \in Task : pc[t] = "scan" /\ ~freed[t] => \A d \in Fd : d < fd[t] => active[d]

Inv ==
  /\ TypeOK /\ CallShape /\ ScannedTaken
  /\ ~raced => ClaimsApart /\ SlotsApart /\ NoneLost /\ FilesMatch

\* What open() does before alloc() (littlefs.cpp 70-79).
LEMMA OpenInv ==
  ASSUME Inv, NEW t \in Task, open(t)
  PROVE  Inv'
  <1> USE TableAssumption DEF open, historyVars, Return, Begin
  <1>1. TypeOK'
    <2> PICK o \in Flags :
          IF ~curr_lfs THEN Return(t, "ENODEV")
          ELSE IF ~(o \subseteq KnownFlags) THEN Return(t, "EINVAL")
          ELSE Begin(t, "open", 0, o, "scan")
      OBVIOUS
    <2>1. 0 \in Fd
      BY DEF Fd
    <2>2. /\ pc' \in [Task -> {"idle", "scan", "claim", "lookup", "lfs", "free", "undo"}]
          /\ call' \in [Task -> {"none", "open", "close", "access"}]
          /\ fd' \in [Task -> Fd \union OutOfRange]
          /\ flags' \in [Task -> Flags \union {{}}]
      BY <2>1 DEF Inv, TypeOK
    <2>3. \A u \in Task : pc'[u] \in {"scan", "claim"} => fd'[u] \in Fd
      BY <2>1 DEF Inv, TypeOK
    <2> QED
      BY <2>2, <2>3 DEF Inv, TypeOK
  <1>2. CallShape'
    BY DEF Inv, TypeOK, CallShape, InLfs, Fd
  <1>3. ScannedTaken'
    BY DEF Inv, TypeOK, ScannedTaken, Fd
  <1>4. ASSUME ~raced' PROVE ClaimsApart'
    BY <1>4 DEF Inv, TypeOK, ClaimsApart
  <1>5. ASSUME ~raced' PROVE SlotsApart'
    BY <1>5 DEF Inv, TypeOK, SlotsApart, Has, InUse, AfterClaim
  <1>6. ASSUME ~raced' PROVE NoneLost'
    BY <1>6 DEF Inv, TypeOK, NoneLost, Has, InUse, AfterClaim
  <1>7. ASSUME ~raced' PROVE FilesMatch'
    BY <1>7 DEF Inv, TypeOK, FilesMatch, InLfs
  <1> QED
    BY <1>1, <1>2, <1>3, <1>4, <1>5, <1>6, <1>7 DEF Inv

\* alloc() finds a slot free: nobody has it, and if nobody else found it it is
\* this task's to take.
LEMMA ScanFreeInv ==
  ASSUME Inv, NEW t \in Task, ScanFree(t)
  PROVE  Inv'
  <1> USE TableAssumption DEF ScanFree, historyVars, Goto, ScanEnds
  <1>1. TypeOK'
    BY DEF Inv, TypeOK
  <1>2. CallShape'
    BY DEF Inv, CallShape
  <1>3. ScannedTaken'
    BY DEF Inv, TypeOK, ScannedTaken
  <1>4. ASSUME ~raced' PROVE ClaimsApart'
    BY <1>4 DEF Inv, TypeOK, ClaimsApart, CallShape
  <1>5. ASSUME ~raced' PROVE SlotsApart'
    BY <1>5 DEF Inv, TypeOK, SlotsApart, Has, InUse, AfterClaim
  <1>6. ASSUME ~raced' PROVE NoneLost'
    BY <1>6 DEF Inv, TypeOK, NoneLost, Has, InUse
  <1>7. ASSUME ~raced' PROVE FilesMatch'
    BY <1>7 DEF Inv, TypeOK, FilesMatch, InLfs
  <1> QED
    BY <1>1, <1>2, <1>3, <1>4, <1>5, <1>6, <1>7 DEF Inv

\* alloc() goes on to the next slot.
LEMMA ScanTakenInv ==
  ASSUME Inv, NEW t \in Task, ScanTaken(t)
  PROVE  Inv'
  <1> USE TableAssumption DEF ScanTaken, historyVars
  <1>1. TypeOK'
    BY DEF Inv, TypeOK
  <1>2. CallShape'
    BY DEF Inv, CallShape
  <1>3. ScannedTaken'
    BY DEF Inv, ScannedTaken, Fd, CallShape
  <1>4. ASSUME ~raced' PROVE ClaimsApart'
    BY <1>4 DEF Inv, ClaimsApart
  <1>5. ASSUME ~raced' PROVE SlotsApart'
    BY <1>5 DEF Inv, SlotsApart, Has, InUse, AfterClaim
  <1>6. ASSUME ~raced' PROVE NoneLost'
    BY <1>6 DEF Inv, NoneLost, Has, InUse, AfterClaim
  <1>7. ASSUME ~raced' PROVE FilesMatch'
    BY <1>7 DEF Inv, FilesMatch, InLfs
  <1> QED
    BY <1>1, <1>2, <1>3, <1>4, <1>5, <1>6, <1>7 DEF Inv

\* alloc() has seen every slot taken.
LEMMA ScanFailsInv ==
  ASSUME Inv, NEW t \in Task, ScanFails(t)
  PROVE  Inv'
  <1> USE TableAssumption DEF ScanFails, historyVars, Return, ScanEnds
  <1>1. TypeOK'
    BY DEF Inv, TypeOK, Fd
  <1>2. CallShape'
    BY DEF Inv, TypeOK, CallShape, InLfs
  <1>3. ScannedTaken'
    BY DEF Inv, TypeOK, ScannedTaken
  <1>4. ASSUME ~raced' PROVE ClaimsApart'
    BY <1>4 DEF Inv, ClaimsApart
  <1>5. ASSUME ~raced' PROVE SlotsApart'
    BY <1>5 DEF Inv, SlotsApart, Has, InUse, AfterClaim
  <1>6. ASSUME ~raced' PROVE NoneLost'
    BY <1>6 DEF Inv, NoneLost, Has, InUse, AfterClaim
  <1>7. ASSUME ~raced' PROVE FilesMatch'
    BY <1>7 DEF Inv, FilesMatch, InLfs
  <1> QED
    BY <1>1, <1>2, <1>3, <1>4, <1>5, <1>6, <1>7 DEF Inv

\* alloc() takes the slot: from now on the task has it.
LEMMA ClaimInv ==
  ASSUME Inv, NEW t \in Task, Claim(t)
  PROVE  Inv'
  <1> USE TableAssumption DEF Claim, historyVars, Goto
  <1>1. TypeOK'
    BY DEF Inv, TypeOK
  <1>2. CallShape'
    BY DEF Inv, CallShape
  <1>3. ScannedTaken'
    BY DEF Inv, ScannedTaken
  <1>4. ASSUME ~raced' PROVE ClaimsApart'
    BY <1>4 DEF Inv, TypeOK, ClaimsApart
  <1>5. ASSUME ~raced' PROVE SlotsApart'
    BY <1>5 DEF Inv, TypeOK, ClaimsApart, SlotsApart, NoneLost, Has, InUse
  <1>6. ASSUME ~raced' PROVE NoneLost'
    BY <1>6 DEF Inv, TypeOK, CallShape, NoneLost, Has, InUse, AfterClaim
  <1>7. ASSUME ~raced' PROVE FilesMatch'
    BY <1>7 DEF Inv, CallShape, ClaimsApart, FilesMatch
  <1> QED
    BY <1>1, <1>2, <1>3, <1>4, <1>5, <1>6, <1>7 DEF Inv

\* lfs_file_open() works, and the caller has the descriptor, or fails.
LEMMA LfsOpenInv ==
  ASSUME Inv, NEW t \in Task, lfs_file_open(t)
  PROVE  Inv'
  <1> USE TableAssumption DEF lfs_file_open, historyVars, Return, Goto, LfsFlags
  <1>1. TypeOK'
    <2>1. fd[t] \in Fd /\ flags[t] \subseteq KnownFlags /\ flags[t] \in Flags \union {{}}
      BY DEF Inv, CallShape, TypeOK
    <2>2. LfsFlags(flags[t]) \in SUBSET (KnownFlags \union {"RDONLY"})
      BY <2>1
    <2>3. file' \in [Fd -> (SUBSET (KnownFlags \union {"RDONLY"})) \union {Closed}]
      <3> HIDE DEF LfsFlags
      <3> QED
        BY <2>1, <2>2 DEF Inv, TypeOK
    <2>4. asked' \in [Fd -> Flags \union {{}}] /\ held' \in [Task -> SUBSET Fd]
      BY <2>1 DEF Inv, TypeOK
    <2>5. /\ pc' \in [Task -> {"idle", "scan", "claim", "lookup", "lfs", "free", "undo"}]
          /\ call' \in [Task -> {"none", "open", "close", "access"}]
          /\ flags' \in [Task -> Flags \union {{}}]
      BY DEF Inv, TypeOK
    <2>6. 0 \in Fd
      BY DEF Fd
    <2>7. fd' \in [Task -> Fd \union OutOfRange]
      BY <2>6 DEF Inv, TypeOK
    <2>8. \A u \in Task : pc'[u] \in {"scan", "claim"} => fd'[u] \in Fd
      BY DEF Inv, TypeOK
    <2> QED
      BY <2>3, <2>4, <2>5, <2>7, <2>8 DEF Inv, TypeOK
  <1>2. CallShape'
    BY DEF Inv, TypeOK, CallShape, InLfs
  <1>3. ScannedTaken'
    BY DEF Inv, TypeOK, ScannedTaken
  <1>4. ASSUME ~raced' PROVE ClaimsApart'
    BY <1>4 DEF Inv, TypeOK, ClaimsApart
  <1>5. ASSUME ~raced' PROVE SlotsApart'
    BY <1>5 DEF Inv, TypeOK, SlotsApart, Has, InUse, AfterClaim
  <1>6. ASSUME ~raced' PROVE NoneLost'
    BY <1>6 DEF Inv, TypeOK, NoneLost, Has, InUse, AfterClaim
  <1>7. ASSUME ~raced' PROVE FilesMatch'
    <2>1. fd[t] \in Fd /\ flags[t] \subseteq KnownFlags /\ Has(t, fd[t]) /\ active[fd[t]]
      BY <1>7 DEF Inv, CallShape, SlotsApart, Has, InUse, AfterClaim
    <2>2. LfsFlags(flags[t]) /= Closed
      BY <2>1 DEF KnownFlags, Closed
    <2> HIDE DEF LfsFlags
    <2>3. \A u \in Task \ {t} : ~Has(u, fd[t])
      BY <1>7, <2>1 DEF Inv, SlotsApart
    <2>4. CASE file' = [file EXCEPT ![fd[t]] = LfsFlags(flags[t])] /\ Return(t, "ok")
               /\ held' = [held EXCEPT ![t] = @ \union {fd[t]}]
      BY <1>7, <2>1, <2>2, <2>3, <2>4 DEF Inv, TypeOK, CallShape, FilesMatch, Has,
         InUse, AfterClaim, InLfs
    <2>5. CASE Goto(t, "free") /\ UNCHANGED <<file, asked, held>>
      BY <1>7, <2>5 DEF Inv, FilesMatch, InLfs
    <2> QED
      BY <2>4, <2>5
  <1> QED
    BY <1>1, <1>2, <1>3, <1>4, <1>5, <1>6, <1>7 DEF Inv

\* get_lfs_file_of(): an open descriptor is found active.
LEMMA LookupInv ==
  ASSUME Inv, NEW t \in Task, Lookup(t)
  PROVE  Inv'
  <1> USE TableAssumption DEF Lookup, historyVars, Return, Goto, get_lfs_file_of
  <1>1. TypeOK'
    <2>1. /\ pc' \in [Task -> {"idle", "scan", "claim", "lookup", "lfs", "free", "undo"}]
          /\ call' \in [Task -> {"none", "open", "close", "access"}]
          /\ flags' \in [Task -> Flags \union {{}}]
      BY DEF Inv, TypeOK
    <2>2. fd' \in [Task -> Fd \union OutOfRange]
      BY DEF Inv, TypeOK, Fd
    <2> QED
      BY <2>1, <2>2 DEF Inv, TypeOK
  <1>2. CallShape'
    BY DEF Inv, TypeOK, CallShape, InLfs
  <1>3. ScannedTaken'
    BY DEF Inv, TypeOK, ScannedTaken
  <1>4. ASSUME ~raced' PROVE ClaimsApart'
    BY <1>4 DEF Inv, TypeOK, ClaimsApart, CallShape, SlotsApart, Has, InUse, AfterClaim
  <1>5. ASSUME ~raced' PROVE SlotsApart'
    BY <1>5 DEF Inv, TypeOK, SlotsApart, Has, InUse, AfterClaim
  <1>6. ASSUME ~raced' PROVE NoneLost'
    BY <1>6 DEF Inv, TypeOK, NoneLost, Has, InUse, AfterClaim
  <1>7. ASSUME ~raced' PROVE FilesMatch'
    BY <1>7 DEF Inv, TypeOK, FilesMatch, InLfs
  <1> QED
    BY <1>1, <1>2, <1>3, <1>4, <1>5, <1>6, <1>7 DEF Inv

\* lfs_file_close() closes the file; when it fails the slot is leaked.
LEMMA LfsCloseInv ==
  ASSUME Inv, NEW t \in Task, lfs_file_close(t)
  PROVE  Inv'
  <1> USE TableAssumption DEF lfs_file_close, historyVars, Return, Goto
  <1>1. TypeOK'
    <2>1. fd[t] \in Fd
      BY DEF Inv, CallShape
    <2>2. /\ file' \in [Fd -> (SUBSET (KnownFlags \union {"RDONLY"})) \union {Closed}]
          /\ asked' \in [Fd -> Flags \union {{}}] /\ leaked' \subseteq Fd
      BY <2>1 DEF Inv, TypeOK
    <2>3. /\ pc' \in [Task -> {"idle", "scan", "claim", "lookup", "lfs", "free", "undo"}]
          /\ call' \in [Task -> {"none", "open", "close", "access"}]
          /\ flags' \in [Task -> Flags \union {{}}]
      BY DEF Inv, TypeOK
    <2>4. 0 \in Fd
      BY DEF Fd
    <2>5. fd' \in [Task -> Fd \union OutOfRange]
      BY <2>4 DEF Inv, TypeOK
    <2> QED
      BY <2>1, <2>2, <2>3, <2>5 DEF Inv, TypeOK
  <1>2. CallShape'
    BY DEF Inv, TypeOK, CallShape, InLfs
  <1>3. ScannedTaken'
    BY DEF Inv, TypeOK, ScannedTaken
  <1>4. ASSUME ~raced' PROVE ClaimsApart'
    BY <1>4 DEF Inv, TypeOK, ClaimsApart
  <1>5. ASSUME ~raced' PROVE SlotsApart'
    BY <1>5 DEF Inv, TypeOK, SlotsApart, Has, InUse, AfterClaim
  <1>6. ASSUME ~raced' PROVE NoneLost'
    BY <1>6 DEF Inv, TypeOK, CallShape, SlotsApart, NoneLost, Has, InUse, AfterClaim
  <1>7. ASSUME ~raced' PROVE FilesMatch'
    BY <1>7 DEF Inv, TypeOK, CallShape, SlotsApart, FilesMatch, Has, InUse, AfterClaim,
       InLfs
  <1> QED
    BY <1>1, <1>2, <1>3, <1>4, <1>5, <1>6, <1>7 DEF Inv

\* The calls on an open file change no slot.
LEMMA LfsAccessInv ==
  ASSUME Inv, NEW t \in Task, lfs_file_access(t)
  PROVE  Inv'
  <1> USE TableAssumption DEF lfs_file_access, historyVars, Return
  <1>1. TypeOK'
    BY DEF Inv, TypeOK, Fd
  <1>2. CallShape'
    BY DEF Inv, TypeOK, CallShape, InLfs
  <1>3. ScannedTaken'
    BY DEF Inv, ScannedTaken
  <1>4. ASSUME ~raced' PROVE ClaimsApart'
    BY <1>4 DEF Inv, ClaimsApart
  <1>5. ASSUME ~raced' PROVE SlotsApart'
    BY <1>5 DEF Inv, SlotsApart, Has, InUse
  <1>6. ASSUME ~raced' PROVE NoneLost'
    BY <1>6 DEF Inv, NoneLost, Has, InUse
  <1>7. ASSUME ~raced' PROVE FilesMatch'
    BY <1>7 DEF Inv, FilesMatch
  <1> QED
    BY <1>1, <1>2, <1>3, <1>4, <1>5, <1>6, <1>7 DEF Inv

\* free() gives back the slot of a closed file.
LEMMA FreeInv ==
  ASSUME Inv, NEW t \in Task, free(t)
  PROVE  Inv'
  <1> USE TableAssumption DEF free, historyVars, Return
  <1>1. TypeOK'
    BY DEF Inv, CallShape, TypeOK, Fd
  <1>2. CallShape'
    BY DEF Inv, TypeOK, CallShape, InLfs
  <1>3. ScannedTaken'
    BY DEF Inv, TypeOK, ScannedTaken
  <1>4. ASSUME ~raced' PROVE ClaimsApart'
    BY <1>4 DEF Inv, ClaimsApart
  <1>5. ASSUME ~raced' PROVE SlotsApart'
    BY <1>5 DEF Inv, TypeOK, CallShape, SlotsApart, Has, InUse, AfterClaim
  <1>6. ASSUME ~raced' PROVE NoneLost'
    BY <1>6 DEF Inv, TypeOK, CallShape, SlotsApart, NoneLost, Has, InUse, AfterClaim
  <1>7. ASSUME ~raced' PROVE FilesMatch'
    BY <1>7 DEF Inv, TypeOK, ClaimsApart, FilesMatch
  <1> QED
    BY <1>1, <1>2, <1>3, <1>4, <1>5, <1>6, <1>7 DEF Inv

\* A call on a descriptor: close() takes it from its caller.
LEMMA CallOnInv ==
  ASSUME Inv, NEW t \in Task, NEW name \in {"close", "access"},
         NEW d \in Fd \union OutOfRange, CallOn(t, name, d)
  PROVE  Inv'
  <1> USE TableAssumption DEF CallOn, historyVars, Return, Begin
  <1>1. TypeOK'
    <2>1. /\ pc' \in [Task -> {"idle", "scan", "claim", "lookup", "lfs", "free", "undo"}]
          /\ call' \in [Task -> {"none", "open", "close", "access"}]
          /\ flags' \in [Task -> Flags \union {{}}]
      BY DEF Inv, TypeOK
    <2>2. fd' \in [Task -> Fd \union OutOfRange]
      BY DEF Inv, TypeOK, Fd
    <2>3. held' \in [Task -> SUBSET Fd]
      BY DEF Inv, TypeOK
    <2>4. \A u \in Task : pc'[u] \in {"scan", "claim"} => fd'[u] \in Fd
      BY DEF Inv, TypeOK
    <2> QED
      BY <2>1, <2>2, <2>3, <2>4 DEF Inv, TypeOK
  <1>2. CallShape'
    BY DEF Inv, TypeOK, CallShape, InLfs
  <1>3. ScannedTaken'
    BY DEF Inv, TypeOK, ScannedTaken
  <1>4. ASSUME ~raced' PROVE ClaimsApart'
    BY <1>4 DEF Inv, TypeOK, ClaimsApart
  <1>5. ASSUME ~raced' PROVE SlotsApart'
    <2>1. CASE name = "close" /\ curr_lfs
      <3>1. \A u \in Task \ {t}, e \in Fd :
              (Has(u, e)' <=> Has(u, e)) /\ (InUse(u, e)' <=> InUse(u, e)) /\ held'[u] = held[u]
        BY <2>1 DEF Inv, TypeOK, Has, InUse
      <3>2. \A e \in Fd : Has(t, e)' => Has(t, e) /\ ~(e \in held'[t] /\ InUse(t, e)')
        BY <2>1 DEF Inv, TypeOK, Has, InUse, OutOfRange, Fd
      <3> QED
        BY <1>5, <3>1, <3>2 DEF Inv, SlotsApart
    <2>2. CASE ~(name = "close" /\ curr_lfs)
      <3>1. \A u \in Task, e \in Fd : (Has(u, e)' <=> Has(u, e)) /\ (InUse(u, e)' <=> InUse(u, e))
        BY <2>2 DEF Inv, TypeOK, Has, InUse, AfterClaim
      <3> QED
        BY <1>5, <3>1, <2>2 DEF Inv, SlotsApart
    <2> QED
      BY <2>1, <2>2
  <1>6. ASSUME ~raced' PROVE NoneLost'
    BY <1>6 DEF Inv, TypeOK, NoneLost, Has, InUse, AfterClaim
  <1>7. ASSUME ~raced' PROVE FilesMatch'
    <2>1. \A u \in Task \ {t} :
            /\ pc'[u] = pc[u] /\ call'[u] = call[u] /\ fd'[u] = fd[u] /\ held'[u] = held[u]
      BY DEF Inv, TypeOK
    <2>2. /\ held'[t] \subseteq held[t]
          /\ pc'[t] = "idle" \/ (pc'[t] = "lookup" /\ call'[t] = name /\ fd'[t] = d)
      BY DEF Inv, TypeOK
    <2>3. d \in Fd => file[d] /= Closed
      BY <1>7 DEF Inv, FilesMatch, OutOfRange, Fd
    <2> HIDE DEF CallOn, Begin, Return
    <2>4. active' = active /\ file' = file /\ raced' = raced
      BY DEF CallOn
    <2> QED
      BY <1>7, <2>1, <2>2, <2>3, <2>4 DEF Inv, FilesMatch, InLfs
  <1> QED
    BY <1>1, <1>2, <1>3, <1>4, <1>5, <1>6, <1>7 DEF Inv

\* The empty table satisfies the invariant.
LEMMA InitInv == Init => Inv
  <1> USE TableAssumption DEF Init
  <1>1. Init => TypeOK
    <2>1. 0 \in Fd
      BY DEF Fd
    <2> QED
      BY <2>1 DEF TypeOK
  <1>2. Init => CallShape /\ ScannedTaken
    BY DEF CallShape, ScannedTaken, InLfs
  <1>3. Init => ClaimsApart /\ SlotsApart /\ NoneLost /\ FilesMatch
    BY DEF ClaimsApart, SlotsApart, NoneLost, FilesMatch, Has, InUse
  <1> QED
    BY <1>1, <1>2, <1>3 DEF Inv

\* Every statement of every call keeps the invariant.
LEMMA NextInv == Inv /\ [Next]_vars => Inv'
  <1> SUFFICES ASSUME Inv, [Next]_vars PROVE Inv'
    OBVIOUS
  <1>1. CASE set_lfs
    BY <1>1 DEF set_lfs, historyVars, Inv, TypeOK, CallShape, ScannedTaken, ClaimsApart,
                SlotsApart, NoneLost, FilesMatch, Has, InUse
  <1>2. ASSUME NEW t \in Task, OpenStep(t) PROVE Inv'
    BY <1>2, OpenInv, ScanFreeInv, ScanTakenInv, ScanFailsInv, ClaimInv, LfsOpenInv
       DEF OpenStep
  <1>3. ASSUME NEW t \in Task, NEW d \in Fd \union OutOfRange,
               close(t, d) \/ read(t, d) \/ lseek(t, d)
        PROVE  Inv'
    BY <1>3, CallOnInv DEF close, read, lseek
  <1>4. ASSUME NEW t \in Task, NEW d \in Fd \union OutOfRange, write(t, d) PROVE Inv'
    <2>1. CASE CallOn(t, "access", d)
      BY <2>1, CallOnInv
    <2>2. CASE /\ pc[t] = "idle" /\ Return(t, "EBADF")
               /\ UNCHANGED <<curr_lfs, active, file, held, historyVars>>
      <3> USE DEF Return, historyVars
      <3>1. TypeOK'
        BY <2>2, TableAssumption DEF Inv, TypeOK, Fd
      <3>2. CallShape' /\ ScannedTaken'
        BY <2>2 DEF Inv, TypeOK, CallShape, ScannedTaken, InLfs
      <3>3. ASSUME ~raced' PROVE (ClaimsApart /\ SlotsApart /\ NoneLost /\ FilesMatch)'
        BY <2>2, <3>3 DEF Inv, ClaimsApart, SlotsApart, NoneLost, FilesMatch,
                          Has, InUse, AfterClaim, InLfs
      <3> QED
        BY <3>1, <3>2, <3>3 DEF Inv
    <2> QED
      BY <1>4, <2>1, <2>2 DEF write
  <1>5. ASSUME NEW t \in Task, Lookup(t) \/ lfs_file_close(t) \/ lfs_file_access(t) \/ free(t)
        PROVE  Inv'
    BY <1>5, LookupInv, LfsCloseInv, LfsAccessInv, FreeInv
  <1>6. CASE UNCHANGED vars
    BY <1>6 DEF vars, taskVars, historyVars, Inv, TypeOK, CallShape, ScannedTaken,
       ClaimsApart,
                SlotsApart, NoneLost, FilesMatch, Has, InUse
  <1> QED
    BY <1>1, <1>2, <1>3, <1>4, <1>5, <1>6 DEF Next, AccessStep

\* While no two tasks have raced for a slot in alloc(), two tasks never have
\* the same slot, and every slot that is taken is somebody's or its
\* lfs_file_close() has failed (littlefs.cpp 26-41, 70-138).
THEOREM FileTableSafety == Spec => [](TypeOK /\ DescriptorsUnique /\ SlotsAccounted)
  <1>1. Inv => DescriptorsUnique
    BY DEF Inv, SlotsApart, DescriptorsUnique, Owned, InCall, Has, InUse, AfterClaim,
       TypeOK
  <1>2. Inv => SlotsAccounted
    <2> SUFFICES ASSUME Inv, ~raced, NEW d
                 PROVE  d \in {e \in Fd : active[e]} <=>
                          d \in leaked \/ \E t \in Task : d \in Owned(t)
      BY DEF SlotsAccounted
    <2>1. \A t \in Task : d \in Owned(t) <=> d \in Fd /\ Has(t, d)
      BY DEF Inv, TypeOK, Owned, InCall, Has, InUse, AfterClaim
    <2> QED
      BY <2>1 DEF Inv, TypeOK, SlotsApart, NoneLost
  <1>3. Inv => TypeOK
    BY DEF Inv
  <1> QED
    BY <1>1, <1>2, <1>3, InitInv, NextInv, PTL DEF Spec

\* Every flag set with which a file can be opened names a mode, but O_RDONLY,
\* which is no flag at all.
NamesMode(o) == o = {} \/ "WRONLY" \in o \/ "RDWR" \in o

Readable(d) ==
  file[d] /= Closed /\ "WRONLY" \notin asked[d] => file[d] \intersect {"RDONLY", "RDWR"} /= {}

\* A file opened for reading can be read until it is closed.
LEMMA ReadableStep ==
  ASSUME \A o \in Flags : NamesMode(o), Inv, [Next]_vars, \A d \in Fd : Readable(d)
  PROVE  \A d \in Fd : Readable(d)'
  <1>1. ASSUME NEW t \in Task, lfs_file_open(t) PROVE \A d \in Fd : Readable(d)'
    <2>1. fd[t] \in Fd /\ flags[t] \in Flags \union {{}}
      BY <1>1 DEF lfs_file_open, Inv, TypeOK, CallShape
    <2>2. "WRONLY" \notin flags[t] => LfsFlags(flags[t]) \intersect {"RDONLY", "RDWR"} /= {}
      BY <2>1 DEF NamesMode, LfsFlags
    <2> QED
      BY <1>1, <2>1, <2>2 DEF lfs_file_open, Inv, TypeOK, Readable
  <1>2. ASSUME NEW t \in Task, lfs_file_close(t) PROVE \A d \in Fd : Readable(d)'
    BY <1>2 DEF lfs_file_close, Inv, TypeOK, Readable
  <1>3. CASE UNCHANGED <<file, asked>>
    BY <1>3 DEF Readable
  <1>4. (\E t \in Task : lfs_file_open(t) \/ lfs_file_close(t)) \/ UNCHANGED <<file, asked>>
    BY DEF Next, OpenStep, AccessStep, vars, historyVars, set_lfs, open, ScanFree,
       ScanTaken,
           ScanFails, ScanEnds, Claim, close, read, write, lseek, CallOn, Lookup, lfs_file_access, free
  <1> QED
    BY <1>1, <1>2, <1>3, <1>4

\* littlefs is asked to open only closed files and to use only open ones, which
\* can be read if the caller asked for reading (littlefs.cpp 75-156), as long
\* as no caller combines O_RDONLY with another flag.
THEOREM LfsFilesSafety ==
  ASSUME \A o \in Flags : NamesMode(o)
  PROVE  Spec => []LfsFilesUsable
  <1> DEFINE AllReadable == \A d \in Fd : Readable(d)
  <1>1. Init => Inv /\ AllReadable
    BY InitInv DEF Init, Readable
  <1>2. Inv /\ AllReadable /\ [Next]_vars => (Inv /\ AllReadable)'
    BY NextInv, ReadableStep
  <1>3. Inv /\ AllReadable => LfsFilesUsable
    <2> SUFFICES ASSUME Inv, AllReadable, ~raced, NEW t \in Task
                 PROVE  /\ pc[t] = "lfs" => (file[fd[t]] = Closed <=> call[t] = "open")
                        /\ \A d \in held[t] :
                             /\ file[d] /= Closed
                             /\ "WRONLY" \notin asked[d] => file[d] \intersect {"RDONLY", "RDWR"} /= {}
      BY DEF LfsFilesUsable
    <2>1. \A d \in held[t] : d \in Fd /\ file[d] /= Closed
      BY DEF Inv, TypeOK, FilesMatch
    <2>2. \A d \in held[t] : "WRONLY" \notin asked[d] => file[d] \intersect {"RDONLY", "RDWR"} /= {}
      BY <2>1 DEF Readable
    <2>3. pc[t] = "lfs" => (file[fd[t]] = Closed <=> call[t] = "open")
      BY <2>1 DEF Inv, CallShape, FilesMatch, InLfs, OutOfRange, Fd
    <2> QED
      BY <2>1, <2>2, <2>3
  <1> QED
    BY <1>1, <1>2, <1>3, PTL DEF Spec

\* A call on an open descriptor reaches littlefs, except write() on the first
\* (littlefs.cpp 43-51, 121-180).
THEOREM HeldReachesLittlefs == Spec => HeldReachesLfs
  <1> DEFINE Reaches ==
        \A t \in Task, d \in Fd :
          /\ ~raced /\ result' = "EBADF"
          /\ (Lookup(t) /\ d = fd[t]) \/ (write(t, d) /\ d \in held[t])
          => d = STDIN_FILENO /\ write(t, d)
  <1>1. ASSUME Inv PROVE [Reaches]_vars
    <2> SUFFICES ASSUME NEW t \in Task, NEW d \in Fd, ~raced, result' = "EBADF",
                        (Lookup(t) /\ d = fd[t]) \/ (write(t, d) /\ d \in held[t])
                 PROVE  d = STDIN_FILENO /\ write(t, d)
      OBVIOUS
    <2>1. CASE Lookup(t) /\ d = fd[t]
      <3>1. active[d]
        BY <1>1, <2>1 DEF Lookup, Inv, CallShape, SlotsApart, Has, InUse, InLfs,
           AfterClaim,
                          OutOfRange, Fd
      <3> QED
        BY <2>1, <3>1 DEF Lookup, get_lfs_file_of, Goto
    <2>2. CASE write(t, d) /\ d \in held[t]
      BY <2>2 DEF write, CallOn, Begin, Return
    <2> QED
      BY <2>1, <2>2
  <1> QED
    BY <1>1, InitInv, NextInv, PTL DEF Spec, HeldReachesLfs

\* alloc() reports a full table only if it is full, or if a slot became free
\* behind its scan (littlefs.cpp 26-33).
THEOREM RefusedOnlyWhenFull == Spec => FullWhenRefused
  <1> DEFINE Full ==
        \A t \in Task : result' = "ENFILE" /\ pc'[t] /= pc[t] /\ ~freed[t] => \A d \in Fd : active[d]
  <1>1. ASSUME Inv, [Next]_vars PROVE [Full]_vars
    <2> SUFFICES ASSUME Next, NEW t \in Task, result' = "ENFILE", pc'[t] /= pc[t], ~freed[t],
                        NEW d \in Fd
                 PROVE  active[d]
      BY <1>1
    <2>1. PICK u \in Task : ScanFails(u)
      BY DEF Next, OpenStep, AccessStep, set_lfs, open, ScanFree, ScanTaken, Claim,
         lfs_file_open,
             close, read, write, lseek, CallOn, Lookup, lfs_file_close, lfs_file_access, free,
             Begin, Goto, Return
    <2>2. u = t
      BY <1>1, <2>1 DEF ScanFails, Return
    <2> QED
      BY <1>1, <2>1, <2>2, TableAssumption DEF ScanFails, Inv, TypeOK, ScannedTaken, Fd
  <1> QED
    BY <1>1, InitInv, NextInv, PTL DEF Spec, FullWhenRefused
===============================================================================
