------------------------------- MODULE Logger -------------------------------
(***************************************************************************)
(* ln::logger::Logger: tasks and interrupts append messages to one buffer, *)
(* which tasks write to the output file and clear, and tasks change the    *)
(* configuration, some through the shell's log commands                    *)
(* (ln/logger/src/logger.cpp and cmds.cpp).                                *)
(*                                                                         *)
(* A character is the number of its message and how many of its characters *)
(* follow it; wording, colours and time stamps are left out, the lengths   *)
(* are not.  An interrupt runs to its end between two steps of a task.     *)
(***************************************************************************)
EXTENDS Integers, Sequences, FiniteSetsExt

CONSTANTS
  Task,        \* tasks that log, flush and configure
  None,        \* no task
  Size,        \* Config::out_buffer_size
  Threshold,   \* Config::out_buffer_auto_flush_threshold
  Bodies,      \* the lengths of the formatted messages
  Level,       \* the levels in use
  MaxLog,      \* bound: messages logged
  MaxSet       \* bound: settings made

NOTSET == 0
INFO == 20
EolLen == 1
HeaderLen == 1

ASSUME TaskAssumption == None \notin Task
ASSUME SizeAssumption == Size \in Nat /\ Threshold \in Nat /\ Threshold < Size
ASSUME BodiesAssumption == Bodies \subseteq Nat
ASSUME LevelAssumption == Level \subseteq Nat /\ INFO \in Level
ASSUME BoundAssumption == MaxLog \in Nat /\ MaxSet \in Nat

VARIABLES
  mutex,      \* the task that holds Logger::mutex
  pc,         \* per task, the next statement
  body,       \* per task, the length of the message it logs
  at,         \* per task, where its open handle on buff_mem appends
  buff,       \* buff_mem up to its first NUL
  out,        \* what was written to config.out_file
  config,     \* Logger::config
  copy,       \* per task, the Config it passes to set_config()
  todo,       \* per task, the fields set_config() has still to assign
  logged,     \* the number of messages appended, by which they are told apart
  sets,       \* the number of settings begun
  burst,      \* history: the messages of interrupts
  doomed,     \* history: those logged while a task had the buffer open or written
  edited,     \* history: per task, the field that its setting is about
  overtaken   \* history: per task, another setting was assigned during its own

bufferVars == <<buff, out, logged, burst, doomed>>
configVars == <<config, copy, todo, sets, edited, overtaken>>
vars == <<mutex, pc, body, at, bufferVars, configVars>>

Field == {"enabled_run_time", "log_level", "print_header_enabled"}
DefaultConfig == [enabled_run_time |-> FALSE, log_level |-> INFO, print_header_enabled |-> TRUE]
Config == [enabled_run_time : BOOLEAN, log_level : Level, print_header_enabled : BOOLEAN]

Goto(t, label) == pc' = [pc EXCEPT ![t] = label]

(***************************************************************************)
(* The stream that the buffer and the file stand for.  A message that an   *)
(* interrupt logs while a task has the buffer open, or has written it and  *)
(* not yet cleared it, is not part of it: the task is about to wipe it,    *)
(* with all that follows it in the buffer.                                 *)
(***************************************************************************)
LongestMessage == HeaderLen + Max(Bodies \union {0}) + EolLen
Lasting(n) == \A i \in 1..n : buff[i][1] \notin doomed
Unwritten == IF \E t \in Task : pc[t] = "clear" THEN <<>>
             ELSE SubSeq(buff, 1, Max({n \in 0..Len(buff) : Lasting(n)}))

\* A task has the buffer open, or has written it and not cleared it.
Exposed == \E t \in Task : pc[t] \in {"close", "clear"}

Stream == INSTANCE LogStream WITH
  MaxLen <- LongestMessage, Limit <- Size,
  delivered <- out, pending <- Unwritten, window <- Exposed

\* The messages that are being logged count towards the bound.
InProgress == {t \in Task : pc[t] \in {"level", "lock", "open", "close"}}
MayLog == logged + Cardinality(InProgress) < MaxLog

(***************************************************************************)
(* The buffer as a memory file.  fmemopen() is modelled by what the code   *)
(* uses of it: mode a+ appends at the end the text had when the handle was *)
(* opened, a NUL follows what is written, and what does not fit is lost.   *)
(* A definition named Mutant... is not part of the model: it is a          *)
(* plausible bug in the definition after it, kept to show that the         *)
(* properties notice it.                                                   *)
(***************************************************************************)
Prefix(s, n) == SubSeq(s, 1, IF n < Len(s) THEN n ELSE Len(s))

MutantAppendUnbounded(end, n) == Prefix(buff, end) \o Stream!Text(logged + 1, n)
MutantAppendWholeOrNot(end, n) ==
  IF end + n > Size THEN Prefix(buff, end) ELSE Prefix(buff, end) \o Stream!Text(logged + 1, n)
AppendAt(end, n) == Prefix(Prefix(buff, end) \o Stream!Text(logged + 1, n), Size)

\* log_unsafe(): header, message and end of line.
MessageLen(n) == (IF config.print_header_enabled THEN HeaderLen ELSE 0) + n + EolLen

(***************************************************************************)
(* Module::log() and ln_logger_log(), and the part of Logger::log() that   *)
(* runs in a task.                                                         *)
(***************************************************************************)
is_enabled == config.enabled_run_time

\* A module has a level of its own, or takes the configured one.
Passes(level, own) == level >= IF own = NOTSET THEN config.log_level ELSE own
OwnLevel == Level \union {NOTSET}

Enabled(t) ==
  /\ pc[t] = "idle" /\ MayLog
  /\ is_enabled
  /\ Goto(t, "level")
  /\ UNCHANGED <<mutex, body, at, bufferVars, configVars>>

LevelCheck(t) ==
  /\ pc[t] = "level"
  /\ \E level \in Level, own \in OwnLevel :
       IF Passes(level, own)
       THEN Goto(t, "lock") /\ \E n \in Bodies : body' = [body EXCEPT ![t] = n]
       ELSE Goto(t, "idle") /\ UNCHANGED body
  /\ UNCHANGED <<mutex, at, bufferVars, configVars>>

Acquire(t, label) ==
  /\ mutex = None /\ mutex' = t
  /\ Goto(t, label)
  /\ UNCHANGED <<body, at, bufferVars, configVars>>

MutantLogUnlocked(t) ==
  /\ pc[t] = "lock"
  /\ Goto(t, "open")
  /\ UNCHANGED <<mutex, body, at, bufferVars, configVars>>
Lock(t) == pc[t] = "lock" /\ Acquire(t, "open")

\* ln::File buff_file(this->buff_mem, "a+")
Open(t) ==
  /\ pc[t] = "open"
  /\ at' = [at EXCEPT ![t] = Len(buff)]
  /\ Goto(t, "close")
  /\ UNCHANGED <<mutex, body, bufferVars, configVars>>

\* The message stays in the handle until it is closed.
Close(t) ==
  /\ pc[t] = "close"
  /\ buff' = AppendAt(at[t], MessageLen(body[t]))
  /\ logged' = logged + 1
  /\ body' = [body EXCEPT ![t] = 0] /\ at' = [at EXCEPT ![t] = 0]
  /\ Goto(t, "check")
  /\ UNCHANGED <<mutex, out, burst, doomed, configVars>>

MutantCheckWholeBuffer(t) ==
  /\ pc[t] = "check"
  /\ Goto(t, IF Len(buff) >= Size THEN "write" ELSE "unlock")
  /\ UNCHANGED <<mutex, body, at, bufferVars, configVars>>
Check(t) ==
  /\ pc[t] = "check"
  /\ Goto(t, IF Len(buff) > Threshold THEN "write" ELSE "unlock")
  /\ UNCHANGED <<mutex, body, at, bufferVars, configVars>>

\* flush_buffer_unsafe(): write the buffer ...
Write(t) ==
  /\ pc[t] = "write"
  /\ out' = out \o buff
  /\ Goto(t, "clear")
  /\ UNCHANGED <<mutex, body, at, buff, logged, burst, doomed, configVars>>

\* ... then clear it.
clear_buffer_unsafe(t) ==
  /\ pc[t] = "clear"
  /\ buff' = <<>>
  /\ Goto(t, "unlock")
  /\ UNCHANGED <<mutex, body, at, out, logged, burst, doomed, configVars>>

Unlock(t) ==
  /\ pc[t] = "unlock"
  /\ mutex' = None
  /\ Goto(t, "idle")
  /\ UNCHANGED <<body, at, bufferVars, configVars>>

(***************************************************************************)
(* flush_buffer(): the same two steps, if logging is enabled.              *)
(***************************************************************************)
flush_buffer(t) ==
  /\ pc[t] = "idle"
  /\ Acquire(t, "flush")

FlushEnabled(t) ==
  /\ pc[t] = "flush"
  /\ Goto(t, IF is_enabled THEN "write" ELSE "unlock")
  /\ UNCHANGED <<mutex, body, at, bufferVars, configVars>>

(***************************************************************************)
(* Logger::log() in an interrupt: no mutex and no flush.                   *)
(***************************************************************************)
InterruptLogs ==
  /\ MayLog
  /\ is_enabled /\ \E level \in Level, own \in OwnLevel : Passes(level, own)
  /\ \E n \in Bodies : buff' = AppendAt(Len(buff), MessageLen(n))
  /\ logged' = logged + 1
  /\ burst' = burst \union {logged'}
  /\ doomed' = IF Exposed THEN doomed \union {logged'} ELSE doomed
  /\ UNCHANGED <<mutex, pc, body, at, out, configVars>>

(***************************************************************************)
(* Settings.  enable() and the commands log, log color and log prefix copy *)
(* the configuration, edit the copy and assign it back, field by field in  *)
(* an order that is the compiler's; set_level() assigns its field alone.   *)
(***************************************************************************)
MutantBeginFromDefaults(t, field, value, assigned) ==
  /\ pc[t] = "idle" /\ sets < MaxSet
  /\ sets' = sets + 1
  /\ copy' = [copy EXCEPT ![t] = [DefaultConfig EXCEPT ![field] = value]]
  /\ todo' = [todo EXCEPT ![t] = assigned]
  /\ edited' = [edited EXCEPT ![t] = field]
  /\ overtaken' = [overtaken EXCEPT ![t] = \E u \in Task : todo[u] /= {}]
  /\ Goto(t, "assign")
  /\ UNCHANGED <<mutex, body, at, bufferVars, config>>
Begin(t, field, value, assigned) ==
  /\ pc[t] = "idle" /\ sets < MaxSet
  /\ sets' = sets + 1
  /\ copy' = [copy EXCEPT ![t] = [config EXCEPT ![field] = value]]
  /\ todo' = [todo EXCEPT ![t] = assigned]
  /\ edited' = [edited EXCEPT ![t] = field]
  /\ overtaken' = [overtaken EXCEPT ![t] = \E u \in Task : todo[u] /= {}]
  /\ Goto(t, "assign")
  /\ UNCHANGED <<mutex, body, at, bufferVars, config>>

enable(t) == Begin(t, "enabled_run_time", TRUE, Field)

set_level(t) == \E level \in Level : Begin(t, "log_level", level, {"log_level"})

\* on_off_command_parser(): one argument, on or off; anything else is refused.
cmd_log(t) == \E on \in BOOLEAN : Begin(t, "enabled_run_time", on, Field)
log_prefix_cmd(t) == \E on \in BOOLEAN : Begin(t, "print_header_enabled", on, Field)

set_config(t) ==
  /\ pc[t] = "assign"
  /\ \E f \in todo[t] :
       /\ config' = [config EXCEPT ![f] = copy[t][f]]
       /\ todo' = [todo EXCEPT ![t] = @ \ {f}]
  /\ IF todo'[t] = {}
     THEN /\ Goto(t, "idle") /\ copy' = [copy EXCEPT ![t] = DefaultConfig]
          /\ edited' = [edited EXCEPT ![t] = "log_level"]
     ELSE UNCHANGED <<pc, copy, edited>>
  /\ overtaken' = [u \in Task |-> todo'[u] /= {} /\ (overtaken[u] \/ u /= t)]
  /\ UNCHANGED <<mutex, body, at, bufferVars, sets>>

(***************************************************************************)
(* The specification                                                       *)
(***************************************************************************)
Init ==
  /\ mutex = None
  /\ pc = [t \in Task |-> "idle"]
  /\ body = [t \in Task |-> 0] /\ at = [t \in Task |-> 0]
  /\ buff = <<>> /\ out = <<>> /\ logged = 0
  /\ config = DefaultConfig
  /\ copy = [t \in Task |-> DefaultConfig] /\ todo = [t \in Task |-> {}] /\ sets = 0
  /\ burst = {} /\ doomed = {}
  /\ edited = [t \in Task |-> "log_level"] /\ overtaken = [t \in Task |-> FALSE]

log(t) ==
  \/ Enabled(t) \/ LevelCheck(t) \/ Lock(t) \/ Open(t) \/ Close(t)
  \/ Check(t) \/ Write(t) \/ clear_buffer_unsafe(t) \/ Unlock(t)

configure(t) == enable(t) \/ set_level(t) \/ cmd_log(t) \/ log_prefix_cmd(t) \/ set_config(t)

Next ==
  \/ \E t \in Task : log(t) \/ flush_buffer(t) \/ FlushEnabled(t) \/ configure(t)
  \/ InterruptLogs

Spec == Init /\ [][Next]_vars

(***************************************************************************)
(* Properties                                                              *)
(***************************************************************************)
Region == {"open", "close", "check", "write", "clear", "unlock", "flush"}

TypeOK ==
  /\ mutex \in Task \union {None}
  /\ pc \in [Task -> {"idle", "level", "lock", "assign"} \union Region]
  /\ body \in [Task -> Bodies \union {0}] /\ at \in [Task -> 0..Size]
  /\ buff \in Seq(Nat \X Nat) /\ Len(buff) <= Size /\ out \in Seq(Nat \X Nat)
  /\ config \in Config /\ copy \in [Task -> Config] /\ todo \in [Task -> SUBSET Field]
  /\ logged \in Nat /\ sets \in Nat /\ burst \subseteq 1..logged /\ doomed \subseteq burst
  /\ edited \in [Task -> Field] /\ overtaken \in [Task -> BOOLEAN]

\* One task at a time has the buffer open, writes it or clears it: a task is
\* between lock and unlock exactly while it holds the mutex.
OneWriter == \A t \in Task : pc[t] \in Region <=> mutex = t

\* The flush after each message leaves room for the next: as long as the
\* longest message fits above the threshold, a message of a task is cut only
\* when the buffer holds text of an interrupt, which never flushes.
CutOnlyByBurst ==
  [][\A t \in Task :
       Close(t) /\ Threshold + LongestMessage <= Size
       /\ (\A i \in 1..at[t] : buff[i][1] \notin burst)
       => Len(buff') = at[t] + MessageLen(body[t])]_vars

\* A setting changes a field it is not about only if another setting was made
\* while it was between reading and assigning the configuration.
SettingKept ==
  [][\A f \in Field : config'[f] /= config[f] =>
       \E t \in Task : set_config(t) /\ (f = edited[t] \/ overtaken[t])]_vars

\* Messages of tasks, and of interrupts outside the two windows in which a task
\* has the buffer open or written but not cleared, are appended once and in
\* order, whole or up to where the buffer is full, and reach the file as they
\* were appended, without gaps.
RefinesLogStream == Stream!StreamSpec
=============================================================================
