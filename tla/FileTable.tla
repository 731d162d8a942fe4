------------------------------ MODULE FileTable ------------------------------
(***************************************************************************)
(* ln::syscalls::littlefs: open(), close(), read(), write() and lseek() of *)
(* the C library over a table of littlefs files, called by several tasks   *)
(* without a lock (ln/syscalls/src/syscalls/littlefs.cpp).                 *)
(*                                                                         *)
(* littlefs is external: each lfs_ call is one step that works or fails,   *)
(* and lfs_file_close() closes the file even when it reports an error.     *)
(* The caller is the C library: it passes descriptors that it has open, or *)
(* one out of range, and gives a descriptor up once it has called close(). *)
(***************************************************************************)
EXTENDS Integers, FiniteSets

CONSTANTS
  Task,           \* tasks that use files
  max_open_files, \* config::max_open_files
  Flags           \* what open() is called with: sets of O_ names

ASSUME TableAssumption == max_open_files \in Nat \ {0}

VARIABLES
  curr_lfs,   \* whether a file system has been set
  active,     \* per slot, FileEntry::active
  file,       \* external: per slot, the flags of the open littlefs file, or Closed
  pc,         \* per task, the next statement of its call
  call,       \* per task, the call it is in, access for read, write and lseek
  fd,         \* per task, the descriptor of that call, or the index in alloc()
  flags,      \* per task, the flags of its open()
  result,     \* how the last step returned from a call, "none" if it did not
  held,       \* per task, the descriptors that are open for it
  asked,      \* history: per slot, the flags it was opened with
  raced,      \* history: two tasks found a slot free before either had taken it
  leaked,     \* history: the slots whose lfs_file_close() failed
  freed       \* history: per task in alloc(), a slot was freed meanwhile

taskVars == <<pc, call, fd, flags, result>>
historyVars == <<asked, raced, leaked, freed>>
vars == <<curr_lfs, active, file, taskVars, held, historyVars>>

Fd == 0..max_open_files - 1
OutOfRange == {-1, max_open_files}
Closed == {"CLOSED"}
STDIN_FILENO == 0

(***************************************************************************)
(* A call of task t: it begins, goes from statement to statement, and      *)
(* returns with 0 or a count ("ok") or with an error number.               *)
(***************************************************************************)
Begin(t, name, d, o, label) ==
  /\ pc' = [pc EXCEPT ![t] = label] /\ result' = "none"
  /\ call' = [call EXCEPT ![t] = name]
  /\ fd' = [fd EXCEPT ![t] = d] /\ flags' = [flags EXCEPT ![t] = o]

Goto(t, label) ==
  /\ pc' = [pc EXCEPT ![t] = label] /\ result' = "none"
  /\ UNCHANGED <<call, fd, flags>>

Return(t, code) ==
  /\ pc' = [pc EXCEPT ![t] = "idle"] /\ result' = code
  /\ call' = [call EXCEPT ![t] = "none"]
  /\ fd' = [fd EXCEPT ![t] = 0] /\ flags' = [flags EXCEPT ![t] = {}]

\* The one call of an application that mounts its file system.  The code would also
\* take another file system later, or none: neither is modelled.
set_lfs ==
  /\ ~curr_lfs /\ curr_lfs' = TRUE
  /\ result' = "none"
  /\ UNCHANGED <<active, file, pc, call, fd, flags, held, historyVars>>

(***************************************************************************)
(* open().  A definition named Mutant... is not part of the model: it is a *)
(* plausible bug in the definition after it, kept to show that the         *)
(* properties notice it.                                                   *)
(***************************************************************************)
KnownFlags == {"WRONLY", "RDWR", "APPEND", "CREAT", "TRUNC", "EXCL"}

MutantLfsFlags(o) == o
\* O_RDONLY is 0: it has no bit for the map of flags to find.
LfsFlags(o) == IF o = {} THEN {"RDONLY"} ELSE o

open(t) ==
  /\ pc[t] = "idle"
  /\ \E o \in Flags :
       IF ~curr_lfs THEN Return(t, "ENODEV")
       ELSE IF ~(o \subseteq KnownFlags) THEN Return(t, "EINVAL")
       ELSE Begin(t, "open", 0, o, "scan")
  /\ UNCHANGED <<curr_lfs, active, file, held, historyVars>>

ScanEnds(t) ==
  /\ freed' = [freed EXCEPT ![t] = FALSE]
  /\ UNCHANGED <<curr_lfs, active, file, held, asked, leaked>>

\* alloc() looks at one slot after the other ...
ScanFree(t) ==
  /\ pc[t] = "scan" /\ ~active[fd[t]]
  /\ Goto(t, "claim")
  /\ raced' = (raced \/ \E u \in Task : pc[u] = "claim" /\ fd[u] = fd[t])
  /\ ScanEnds(t)

MutantScanPastEnd(t) ==
  /\ pc[t] = "scan" /\ active[fd[t]]
  /\ fd' = [fd EXCEPT ![t] = @ + 1] /\ result' = "none"
  /\ UNCHANGED <<curr_lfs, active, file, pc, call, flags, held, historyVars>>
ScanTaken(t) ==
  /\ pc[t] = "scan" /\ active[fd[t]] /\ fd[t] + 1 \in Fd
  /\ fd' = [fd EXCEPT ![t] = @ + 1] /\ result' = "none"
  /\ UNCHANGED <<curr_lfs, active, file, pc, call, flags, held, historyVars>>

MutantScanSkipsLast(t) ==
  /\ pc[t] = "scan" /\ active[fd[t]] /\ fd[t] + 2 \notin Fd
  /\ Return(t, "ENFILE")
  /\ ScanEnds(t) /\ UNCHANGED raced
ScanFails(t) ==
  /\ pc[t] = "scan" /\ active[fd[t]] /\ fd[t] + 1 \notin Fd
  /\ Return(t, "ENFILE")
  /\ ScanEnds(t) /\ UNCHANGED raced

\* ... and takes the one it found free.
Claim(t) ==
  /\ pc[t] = "claim"
  /\ active' = [active EXCEPT ![fd[t]] = TRUE]
  /\ Goto(t, "lookup")
  /\ UNCHANGED <<curr_lfs, file, held, historyVars>>

lfs_file_open(t) ==
  /\ pc[t] = "lfs" /\ call[t] = "open"
  /\ \/ /\ file' = [file EXCEPT ![fd[t]] = LfsFlags(flags[t])]
        /\ asked' = [asked EXCEPT ![fd[t]] = flags[t]]
        /\ held' = [held EXCEPT ![t] = @ \union {fd[t]}]
        /\ Return(t, "ok")
     \/ Goto(t, "free") /\ UNCHANGED <<file, asked, held>>
  /\ UNCHANGED <<curr_lfs, active, raced, leaked, freed>>

(***************************************************************************)
(* The calls on a descriptor.                                              *)
(***************************************************************************)
CallOn(t, name, d) ==
  /\ pc[t] = "idle" /\ d \in held[t] \union OutOfRange
  /\ IF curr_lfs THEN Begin(t, name, d, {}, "lookup") ELSE Return(t, "ENODEV")
  /\ held' = IF name = "close" /\ curr_lfs THEN [held EXCEPT ![t] = @ \ {d}] ELSE held
  /\ UNCHANGED <<curr_lfs, active, file, historyVars>>

close(t, d) == CallOn(t, "close", d)
read(t, d) == CallOn(t, "access", d)
lseek(t, d) == CallOn(t, "access", d)

write(t, d) ==
  \/ d /= STDIN_FILENO /\ CallOn(t, "access", d)
  \/ /\ pc[t] = "idle" /\ d \in held[t] /\ d = STDIN_FILENO
     /\ Return(t, "EBADF")
     /\ UNCHANGED <<curr_lfs, active, file, held, historyVars>>

get_lfs_file_of(d) == d \in Fd /\ active[d]

MutantLookupFrees(t) ==
  /\ pc[t] = "lookup"
  /\ IF get_lfs_file_of(fd[t]) THEN Goto(t, "lfs")
     ELSE IF call[t] = "open" THEN Goto(t, "undo") ELSE Return(t, "EBADF")
  /\ active' = [d \in Fd |-> active[d] /\ ~(d = fd[t] /\ call[t] = "close")]
  /\ UNCHANGED <<curr_lfs, file, held, historyVars>>
Lookup(t) ==
  /\ pc[t] = "lookup"
  /\ IF get_lfs_file_of(fd[t]) THEN Goto(t, "lfs")
     ELSE IF call[t] = "open" THEN Goto(t, "undo") ELSE Return(t, "EBADF")
  /\ UNCHANGED <<curr_lfs, active, file, held, historyVars>>

lfs_file_close(t) ==
  /\ pc[t] = "lfs" /\ call[t] = "close"
  /\ file' = [file EXCEPT ![fd[t]] = Closed] /\ asked' = [asked EXCEPT ![fd[t]] = {}]
  /\ \/ Goto(t, "free") /\ UNCHANGED leaked
     \/ Return(t, "EIO") /\ leaked' = leaked \union {fd[t]}
  /\ UNCHANGED <<curr_lfs, active, held, raced, freed>>

MutantAccessFreesOnError(t) ==
  /\ pc[t] = "lfs" /\ call[t] = "access"
  /\ \/ Return(t, "ok") /\ UNCHANGED active
     \/ Return(t, "EIO") /\ active' = [active EXCEPT ![fd[t]] = FALSE]
  /\ UNCHANGED <<curr_lfs, file, held, historyVars>>
lfs_file_access(t) ==
  /\ pc[t] = "lfs" /\ call[t] = "access"
  /\ \E code \in {"ok", "EIO"} : Return(t, code)
  /\ UNCHANGED <<curr_lfs, active, file, held, historyVars>>

MutantFreeOnlyOnClose(t) ==
  /\ pc[t] \in {"free", "undo"}
  /\ active' = [active EXCEPT ![fd[t]] = call[t] = "open"]
  /\ freed' = [u \in Task |-> freed[u] \/ pc[u] = "scan"]
  /\ Return(t, IF pc[t] = "undo" THEN "EBADF" ELSE IF call[t] = "open" THEN "EIO" ELSE "ok")
  /\ UNCHANGED <<curr_lfs, file, held, asked, raced, leaked>>
\* After a close that worked, or an open that did not.
free(t) ==
  /\ pc[t] \in {"free", "undo"}
  /\ active' = [active EXCEPT ![fd[t]] = FALSE]
  /\ freed' = [u \in Task |-> freed[u] \/ pc[u] = "scan"]
  /\ Return(t, IF pc[t] = "undo" THEN "EBADF" ELSE IF call[t] = "open" THEN "EIO" ELSE "ok")
  /\ UNCHANGED <<curr_lfs, file, held, asked, raced, leaked>>

(***************************************************************************)
(* The specification                                                       *)
(***************************************************************************)
Init ==
  /\ curr_lfs = FALSE
  /\ active = [d \in Fd |-> FALSE] /\ file = [d \in Fd |-> Closed]
  /\ pc = [t \in Task |-> "idle"] /\ call = [t \in Task |-> "none"]
  /\ fd = [t \in Task |-> 0] /\ flags = [t \in Task |-> {}]
  /\ result = "none" /\ held = [t \in Task |-> {}]
  /\ asked = [d \in Fd |-> {}] /\ raced = FALSE /\ leaked = {}
  /\ freed = [t \in Task |-> FALSE]

OpenStep(t) ==
  open(t) \/ ScanFree(t) \/ ScanTaken(t) \/ ScanFails(t) \/ Claim(t) \/ lfs_file_open(t)

AccessStep(t) ==
  \/ \E d \in Fd \union OutOfRange : close(t, d) \/ read(t, d) \/ write(t, d) \/ lseek(t, d)
  \/ Lookup(t) \/ lfs_file_close(t) \/ lfs_file_access(t) \/ free(t)

Next == set_lfs \/ \E t \in Task : OpenStep(t) \/ AccessStep(t)

Spec == Init /\ [][Next]_vars

(***************************************************************************)
(* Properties.  The first four are about an application in which no two    *)
(* tasks race for a slot in alloc().                                       *)
(***************************************************************************)
TypeOK ==
  /\ curr_lfs \in BOOLEAN /\ raced \in BOOLEAN /\ leaked \subseteq Fd
  /\ active \in [Fd -> BOOLEAN] /\ freed \in [Task -> BOOLEAN]
  /\ file \in [Fd -> (SUBSET (KnownFlags \union {"RDONLY"})) \union {Closed}]
  /\ asked \in [Fd -> Flags \union {{}}] /\ flags \in [Task -> Flags \union {{}}]
  /\ pc \in [Task -> {"idle", "scan", "claim", "lookup", "lfs", "free", "undo"}]
  /\ call \in [Task -> {"none", "open", "close", "access"}]
  /\ fd \in [Task -> Fd \union OutOfRange] /\ held \in [Task -> SUBSET Fd]
  /\ \A t \in Task : pc[t] \in {"scan", "claim"} => fd[t] \in Fd

\* The slots a task has: its open descriptors, and the one it is opening or
\* closing.
InCall(t) ==
  {d \in Fd : d = fd[t] /\ call[t] \in {"open", "close"} /\ pc[t] \in {"lookup", "lfs", "free", "undo"}}
Owned(t) == held[t] \union InCall(t)

\* Two tasks never have the same slot, and a task that opens or closes one
\* does not have it open, unless two tasks once found a slot free together.
DescriptorsUnique ==
  ~raced => \A t \in Task :
    /\ held[t] \intersect InCall(t) = {}
    /\ \A u \in Task \ {t} : Owned(t) \intersect Owned(u) = {}

\* No slot is lost: one that is active is open, being opened or closed, or
\* its lfs_file_close() has failed.  Those stay taken for ever.
SlotsAccounted ==
  ~raced => {d \in Fd : active[d]} = leaked \union UNION {Owned(t) : t \in Task}

\* littlefs is only given files it can take: one to open is closed, one to
\* use or close is open, and can be read if open() was asked for reading.
LfsFilesUsable ==
  ~raced => \A t \in Task :
    /\ pc[t] = "lfs" => (file[fd[t]] = Closed <=> call[t] = "open")
    /\ \A d \in held[t] :
         /\ file[d] /= Closed
         /\ "WRONLY" \notin asked[d] => file[d] \intersect {"RDONLY", "RDWR"} /= {}

\* A call on a descriptor that open() returned is answered by littlefs, all
\* but one: write() on the first descriptor.
HeldReachesLfs ==
  [][\A t \in Task, d \in Fd :
       /\ ~raced /\ result' = "EBADF"
       /\ (Lookup(t) /\ d = fd[t]) \/ (write(t, d) /\ d \in held[t])
       => d = STDIN_FILENO /\ write(t, d)]_vars

\* open() reports a full table only when it is full, or when a slot became
\* free behind the scan.
FullWhenRefused ==
  [][\A t \in Task : result' = "ENFILE" /\ pc'[t] /= pc[t] /\ ~freed[t] =>
       \A d \in Fd : active[d]]_vars
=============================================================================
