---------------------------- MODULE Logger_proofs ----------------------------
(***************************************************************************)
(* Proofs about Logger, for any tasks, levels, message lengths and sizes   *)
(* of the buffer.  The variables fall into three groups that the actions   *)
(* change apart from each other: who is where, what the buffer holds, and  *)
(* the configuration.  The invariant has a part for each.                  *)
(***************************************************************************)
EXTENDS Logger, SequenceTheorems, TLAPS

Character == Nat \X Nat

(***************************************************************************)
(* The invariant                                                           *)
(***************************************************************************)
ControlType ==
  /\ mutex \in Task \union {None}
  /\ pc \in [Task -> {"idle", "level", "lock", "assign"} \union Region]

BufferType ==
  /\ body \in [Task -> Bodies \union {0}] /\ at \in [Task -> 0..Size]
  /\ buff \in Seq(Character) /\ Len(buff) <= Size /\ out \in Seq(Character)
  /\ logged \in Nat /\ burst \subseteq 1..logged /\ doomed \subseteq burst

ConfigType ==
  /\ config \in Config /\ copy \in [Task -> Config] /\ todo \in [Task -> SUBSET Field]
  /\ sets \in Nat
  /\ edited \in [Task -> Field] /\ overtaken \in [Task -> BOOLEAN]

\* None of the first n characters of the buffer is an interrupt's.
NoBurst(n) == \A i \in 1..n : buff[i][1] \notin burst

\* Between two flushes the text of tasks stays below the threshold: while no
\* task is between its message and its flush, and when one opens the buffer.
Midway == {"close", "check", "write", "clear"}
Room ==
  /\ (\A t \in Task : pc[t] \notin Midway) /\ NoBurst(Len(buff)) => Len(buff) <= Threshold
  /\ \A t \in Task : pc[t] = "close" =>
       at[t] <= Len(buff) /\ (NoBurst(at[t]) => at[t] <= Threshold)

\* A setting that nothing overtook has yet to assign what is configured, but
\* for the field it is about.
Fresh ==
  \A t \in Task : overtaken[t] = FALSE =>
    \A f \in todo[t] : f /= edited[t] => copy[t][f] = config[f]

Inv == ControlType /\ OneWriter /\ BufferType /\ Room /\ ConfigType /\ Fresh

\* The invariant includes the types.
LEMMA InvTypes == Inv => TypeOK
  BY DEF Inv, ControlType, BufferType, ConfigType, TypeOK, Character

(***************************************************************************)
(* Lemmas about the buffer and the configuration                           *)
(***************************************************************************)
\* The beginning of a sequence.
LEMMA PrefixProperties ==
  ASSUME NEW s \in Seq(Character), NEW n \in Nat
  PROVE  /\ Prefix(s, n) \in Seq(Character)
         /\ Len(Prefix(s, n)) = IF n < Len(s) THEN n ELSE Len(s)
         /\ \A i \in 1..Len(Prefix(s, n)) : Prefix(s, n)[i] = s[i]
  <1> DEFINE m == IF n < Len(s) THEN n ELSE Len(s)
  <1>1. m \in Nat /\ m <= Len(s) /\ \A i \in 1..m : s[i] \in Character
    BY LenProperties, ElementOfSeq
  <1> HIDE DEF m
  <1>2. /\ SubSeq(s, 1, m) \in Seq(Character) /\ Len(SubSeq(s, 1, m)) = m
        /\ \A i \in 1..m : SubSeq(s, 1, m)[i] = s[i]
    BY <1>1, SubSeqProperties
  <1> QED
    BY <1>2 DEF m, Prefix

\* The characters of a message.
LEMMA MessageText ==
  ASSUME NEW number \in Nat, NEW n \in Nat
  PROVE  /\ Stream!Text(number, n) \in Seq(Character)
         /\ Len(Stream!Text(number, n)) = n
         /\ \A i \in 1..n : Stream!Text(number, n)[i] = <<number, n - i>>
  <1>1. Stream!Text(number, n) \in [1..n -> Character]
    BY DEF Stream!Text, Character
  <1>2. Stream!Text(number, n) \in Seq(Character)
    BY <1>1, SeqDef
  <1>3. Len(Stream!Text(number, n)) = n
    BY <1>1, <1>2, LenProperties
  <1>4. \A i \in 1..n : Stream!Text(number, n)[i] = <<number, n - i>>
    BY Zenon DEF Stream!Text
  <1> QED
    BY <1>2, <1>3, <1>4

\* A message appended at a place follows what was before that place, cut to m
\* characters, all of its number; nothing else is in the buffer then.
Appended(end, m, b) ==
  /\ b \in Seq(Character) /\ Len(b) = end + m /\ end + m <= Size
  /\ \A i \in 1..end : b[i] = buff[i]
  /\ \A i \in end + 1..end + m : b[i][1] = logged + 1

\* How much of a message of n characters fits.
Fitting(end, n) == IF end + n <= Size THEN n ELSE Size - end

LEMMA AppendedIs ==
  ASSUME NEW end \in 0..Len(buff), NEW n \in Nat, BufferType
  PROVE  Fitting(end, n) \in 0..n /\ Appended(end, Fitting(end, n), AppendAt(end, n))
  <1>0. PICK m : m = Fitting(end, n)
    OBVIOUS
  <1>1. /\ buff \in Seq(Character) /\ Len(buff) \in Nat /\ end \in Nat /\ end <= Len(buff)
        /\ Size \in Nat /\ end <= Size /\ logged + 1 \in Nat
    BY SizeAssumption, LenProperties DEF BufferType
  <1>2. m \in 0..n /\ m <= Size - end
    BY <1>0, <1>1 DEF Fitting
  <1>3. PICK p : p = Prefix(buff, end)
    OBVIOUS
  <1>4. p \in Seq(Character) /\ Len(p) = end /\ \A i \in 1..end : p[i] = buff[i]
    <2>1. /\ p \in Seq(Character) /\ Len(p) = IF end < Len(buff) THEN end ELSE Len(buff)
          /\ \A i \in 1..Len(p) : p[i] = buff[i]
      BY <1>1, <1>3, PrefixProperties
    <2> QED
      BY <1>1, <2>1
  <1>5. PICK x : x = Stream!Text(logged + 1, n)
    OBVIOUS
  <1>6. /\ x \in Seq(Character) /\ Len(x) = n
        /\ \A i \in 1..n : x[i][1] = logged + 1
    <2>1. x \in Seq(Character) /\ Len(x) = n
      BY <1>1, <1>5, MessageText
    <2>2. \A i \in 1..n : x[i] = <<logged + 1, n - i>>
      BY <1>1, <1>5, MessageText, Zenon
    <2>3. \A i \in 1..n : x[i][1] = logged + 1
      BY ONLY <2>2
    <2> QED
      BY <2>1, <2>3
  <1>7. PICK c : c = p \o x
    OBVIOUS
  <1>8. /\ c \in Seq(Character) /\ Len(c) = end + n
        /\ \A i \in 1..end + n : c[i] = IF i <= end THEN p[i] ELSE x[i - end]
    BY <1>4, <1>6, <1>7, ConcatProperties
  <1>9. PICK b : b = Prefix(c, Size)
    OBVIOUS
  <1>10. /\ b \in Seq(Character) /\ Len(b) = IF Size < end + n THEN Size ELSE end + n
         /\ \A i \in 1..Len(b) : b[i] = c[i]
    BY <1>1, <1>8, <1>9, PrefixProperties
  <1>11. Len(b) = end + m
    BY <1>0, <1>1, <1>10 DEF Fitting
  <1>12. \A i \in 1..end : b[i] = buff[i]
    BY <1>1, <1>2, <1>4, <1>8, <1>10, <1>11
  <1>13. ASSUME NEW i \in end + 1..end + m PROVE b[i][1] = logged + 1
    <2>1. i \in 1..end + m /\ i \in 1..end + n /\ ~(i <= end) /\ i - end \in 1..n
      BY <1>1, <1>2
    <2>2. b[i] = c[i] /\ c[i] = x[i - end]
      BY <1>8, <1>10, <1>11, <2>1
    <2> QED
      BY <1>6, <2>1, <2>2
  <1>14. end + m <= Size
    BY <1>1, <1>2
  <1>15. Appended(end, m, b)
    BY <1>10, <1>11, <1>12, <1>13, <1>14 DEF Appended
  <1>16. b = AppendAt(end, n)
    BY <1>3, <1>5, <1>7, <1>9 DEF AppendAt
  <1> QED
    BY <1>0, <1>2, <1>15, <1>16

\* A message that is not empty leaves its number behind, if there is room.
LEMMA AppendedMessage ==
  ASSUME NEW end \in 0..Len(buff), NEW n \in Nat, NEW b, BufferType, n > 0,
         b = AppendAt(end, n)
  PROVE  /\ b \in Seq(Character)
         /\ Len(b) = IF end + n <= Size THEN end + n ELSE Size
         /\ \A i \in 1..end : b[i] = buff[i]
         /\ end < Size => b[end + 1][1] = logged + 1
  <1>1. Len(buff) \in Nat /\ end \in Nat /\ end <= Size /\ Size \in Nat
    BY SizeAssumption, LenProperties DEF BufferType
  <1>2. PICK m : m = Fitting(end, n)
    OBVIOUS
  <1>3. m \in 0..n /\ Appended(end, m, b)
    BY <1>2, AppendedIs
  <1>4. /\ b \in Seq(Character) /\ Len(b) = end + m /\ \A i \in 1..end : b[i] = buff[i]
        /\ \A i \in end + 1..end + m : b[i][1] = logged + 1
    BY <1>3 DEF Appended
  <1>5. Len(b) = IF end + n <= Size THEN end + n ELSE Size
    BY <1>1, <1>2, <1>4 DEF Fitting
  <1>6. ASSUME end < Size PROVE b[end + 1][1] = logged + 1
    <2>1. end + 1 \in end + 1..end + m
      BY <1>1, <1>2, <1>6 DEF Fitting
    <2> QED
      BY <1>4, <2>1
  <1> QED
    BY <1>4, <1>5, <1>6

\* A message has at least its end of line.
LEMMA MessageLenType ==
  ASSUME NEW n \in Bodies \union {0}
  PROVE  MessageLen(n) \in Nat /\ MessageLen(n) > 0
  BY BodiesAssumption DEF MessageLen, HeaderLen, EolLen

\* Assigning a field leaves the others, and the configuration well formed.
LEMMA ConfigFields ==
  ASSUME NEW c \in Config, NEW g \in Field, NEW v
  PROVE  \A f \in Field \ {g} : [c EXCEPT ![g] = v][f] = c[f]
  <1>1. DOMAIN c = Field
    BY DEF Config, Field
  <1> QED
    BY <1>1

\* A configuration with one field of another is a configuration.
LEMMA ConfigAssign ==
  ASSUME NEW c \in Config, NEW d \in Config, NEW g \in Field
  PROVE  [c EXCEPT ![g] = d[g]] \in Config
  BY DEF Config, Field

\* The configuration Logger starts with is one.
LEMMA DefaultType == DefaultConfig \in Config
  BY LevelAssumption DEF Config, DefaultConfig

(***************************************************************************)
(* Who is where: a task is in the region exactly while it has the mutex.   *)
(***************************************************************************)
LEMMA ControlStep ==
  ASSUME ControlType, OneWriter, [Next]_vars
  PROVE  (ControlType /\ OneWriter)'
  <1> USE TaskAssumption DEF ControlType, OneWriter, Region, Goto
  <1>1. ASSUME NEW t \in Task, Enabled(t) \/ LevelCheck(t)
        PROVE  (ControlType /\ OneWriter)'
    BY <1>1 DEF Enabled, LevelCheck
  <1>2. ASSUME NEW t \in Task, Lock(t) \/ flush_buffer(t)
        PROVE  (ControlType /\ OneWriter)'
    BY <1>2 DEF Lock, flush_buffer, Acquire
  <1>3. ASSUME NEW t \in Task, Open(t) \/ Close(t) \/ Check(t)
        PROVE  (ControlType /\ OneWriter)'
    BY <1>3 DEF Open, Close, Check
  <1>4. ASSUME NEW t \in Task, Write(t) \/ clear_buffer_unsafe(t) \/ FlushEnabled(t)
        PROVE  (ControlType /\ OneWriter)'
    BY <1>4 DEF Write, clear_buffer_unsafe, FlushEnabled
  <1>5. ASSUME NEW t \in Task, Unlock(t) PROVE (ControlType /\ OneWriter)'
    BY <1>5 DEF Unlock
  <1>6. ASSUME NEW t \in Task, NEW field, NEW value, NEW assigned,
               Begin(t, field, value, assigned)
        PROVE  (ControlType /\ OneWriter)'
    BY <1>6 DEF Begin
  <1>7. ASSUME NEW t \in Task, set_config(t) PROVE (ControlType /\ OneWriter)'
    BY <1>7 DEF set_config
  <1>8. CASE InterruptLogs
    BY <1>8 DEF InterruptLogs
  <1>9. CASE UNCHANGED vars
    BY <1>9 DEF vars
  <1> QED
    BY <1>1, <1>2, <1>3, <1>4, <1>5, <1>6, <1>7, <1>8, <1>9
    DEF Next, log, configure, enable, set_level, cmd_log, log_prefix_cmd

(***************************************************************************)
(* The buffer.                                                             *)
(***************************************************************************)
\* Two tasks in the region are the same task.
LEMMA OneInRegion ==
  ASSUME OneWriter, NEW t \in Task, NEW u \in Task, pc[t] \in Region, pc[u] \in Region
  PROVE  t = u
  BY DEF OneWriter

\* Every step keeps the buffer within its size, with room after a check.
LEMMA BufferStep ==
  ASSUME Inv, [Next]_vars
  PROVE  (BufferType /\ Room)'
  <1> USE SizeAssumption DEF Inv
  <1>1. ASSUME NEW t \in Task,
               Enabled(t) \/ Lock(t) \/ flush_buffer(t) \/ Unlock(t) \/ set_config(t)
        PROVE  (BufferType /\ Room)'
    <2>1. UNCHANGED <<body, at, bufferVars>>
      BY <1>1 DEF Enabled, Lock, flush_buffer, Acquire, Unlock, set_config
    <2>2. \A u \in Task : (pc[u] \in Midway <=> pc'[u] \in Midway)
      BY <1>1 DEF ControlType, Midway, Enabled, Lock, flush_buffer, Acquire, Unlock,
         set_config, Goto
    <2>3. \A u \in Task : (pc'[u] = "close" <=> pc[u] = "close")
      BY <1>1 DEF ControlType, Enabled, Lock, flush_buffer, Acquire, Unlock, set_config,
         Goto
    <2> QED
      BY <2>1, <2>2, <2>3 DEF bufferVars, BufferType, Room, NoBurst
  <1>2. ASSUME NEW t \in Task, NEW field, NEW value, NEW assigned,
               Begin(t, field, value, assigned)
        PROVE  (BufferType /\ Room)'
    <2>1. UNCHANGED <<body, at, bufferVars>>
      BY <1>2 DEF Begin
    <2>2. \A u \in Task : (pc[u] \in Midway <=> pc'[u] \in Midway)
      BY <1>2 DEF ControlType, Midway, Begin, Goto
    <2>3. \A u \in Task : (pc'[u] = "close" <=> pc[u] = "close")
      BY <1>2 DEF ControlType, Begin, Goto
    <2> QED
      BY <2>1, <2>2, <2>3 DEF bufferVars, BufferType, Room, NoBurst
  <1>3. ASSUME NEW t \in Task, LevelCheck(t) PROVE (BufferType /\ Room)'
    <2>1. UNCHANGED <<at, bufferVars>> /\ body' \in [Task -> Bodies \union {0}]
      BY <1>3 DEF LevelCheck, BufferType
    <2>2. \A u \in Task : pc[u] \in Midway <=> pc'[u] \in Midway
      BY <1>3 DEF ControlType, Midway, LevelCheck, Goto
    <2>3. \A u \in Task : (pc'[u] = "close" <=> pc[u] = "close")
      BY <1>3 DEF ControlType, LevelCheck, Goto
    <2> QED
      BY <2>1, <2>2, <2>3 DEF bufferVars, BufferType, Room, NoBurst
  <1>4. ASSUME NEW t \in Task, Open(t) PROVE (BufferType /\ Room)'
    <2>1. \A u \in Task : pc[u] \notin Midway
      BY <1>4, OneInRegion DEF Open, Midway, Region
    <2>2. at' = [at EXCEPT ![t] = Len(buff)] /\ pc' = [pc EXCEPT ![t] = "close"]
          /\ UNCHANGED <<body, bufferVars>>
      BY <1>4 DEF Open, Goto
    <2>3. Len(buff) \in 0..Size
      BY LenProperties DEF BufferType
    <2>4. BufferType'
      BY <2>2, <2>3 DEF BufferType, bufferVars
    <2>5. Room'
      BY <2>1, <2>2, <2>3 DEF Room, NoBurst, bufferVars, ControlType, BufferType, Midway
    <2> QED
      BY <2>4, <2>5
  <1>5. ASSUME NEW t \in Task, Close(t) PROVE (BufferType /\ Room)'
    <2>1. pc[t] = "close" /\ at[t] \in 0..Len(buff) /\ body[t] \in Bodies \union {0}
      BY <1>5, LenProperties DEF Close, BufferType, Room
    <2>2. MessageLen(body[t]) \in Nat /\ MessageLen(body[t]) > 0
      BY <2>1, MessageLenType
    <2>3. buff' \in Seq(Character) /\ Len(buff') <= Size
      <3>1. buff' = AppendAt(at[t], MessageLen(body[t]))
        BY <1>5 DEF Close
      <3> HIDE DEF Inv
      <3>2. BufferType
        BY DEF Inv
      <3>3. /\ buff' \in Seq(Character)
            /\ Len(buff') = IF at[t] + MessageLen(body[t]) <= Size
                           THEN at[t] + MessageLen(body[t]) ELSE Size
        BY <2>1, <2>2, <3>1, <3>2, AppendedMessage
      <3> QED
        BY <3>3
    <2>4. BufferType'
      BY <1>5, <2>3 DEF Close, BufferType
    <2>5. \A u \in Task : pc'[u] /= "close"
      BY <1>5, OneInRegion DEF Close, Goto, Region, ControlType
    <2>6. pc'[t] \in Midway
      BY <1>5 DEF Close, Goto, ControlType, Midway
    <2> QED
      BY <2>4, <2>5, <2>6 DEF Room
  <1>6. ASSUME NEW t \in Task, Check(t) \/ FlushEnabled(t) PROVE (BufferType /\ Room)'
    <2>1. UNCHANGED <<body, at, bufferVars>>
      BY <1>6 DEF Check, FlushEnabled
    <2>2. \A u \in Task : pc'[u] /= "close"
      BY <1>6, OneInRegion DEF Check, FlushEnabled, Goto, Region, ControlType
    <2>3. \A u \in Task \ {t} : pc[u] \notin Midway
      BY <1>6, OneInRegion DEF Check, FlushEnabled, Region, Midway
    <2>4. pc'[t] = "write" \/ (NoBurst(Len(buff)) => Len(buff) <= Threshold)
      <3>1. CASE Check(t)
        <4>1. Len(buff) > Threshold \/ Len(buff) <= Threshold
          BY LenProperties DEF BufferType
        <4> QED
          BY <3>1, <4>1 DEF Check, Goto, ControlType
      <3>2. CASE FlushEnabled(t)
        BY <2>3, <3>2 DEF FlushEnabled, Room, Midway
      <3> QED
        BY <1>6, <3>1, <3>2
    <2>5. "write" \in Midway
      BY DEF Midway
    <2> QED
      BY <2>1, <2>2, <2>4, <2>5 DEF Room, NoBurst, BufferType, bufferVars
  <1>7. ASSUME NEW t \in Task, Write(t) PROVE (BufferType /\ Room)'
    <2>1. out' \in Seq(Character)
      BY <1>7, ConcatProperties DEF Write, BufferType
    <2>2. BufferType'
      BY <1>7, <2>1 DEF Write, BufferType
    <2>3. \A u \in Task : pc'[u] /= "close"
      BY <1>7, OneInRegion DEF Write, Goto, Region, ControlType
    <2>4. pc'[t] \in Midway
      BY <1>7 DEF Write, Goto, ControlType, Midway
    <2> QED
      BY <2>2, <2>3, <2>4 DEF Room
  <1>8. ASSUME NEW t \in Task, clear_buffer_unsafe(t) PROVE (BufferType /\ Room)'
    <2>1. buff' = <<>> /\ Len(buff') = 0 /\ buff' \in Seq(Character)
      BY <1>8 DEF clear_buffer_unsafe
    <2>2. BufferType'
      BY <1>8, <2>1 DEF clear_buffer_unsafe, BufferType
    <2>3. \A u \in Task : pc'[u] /= "close"
      BY <1>8, OneInRegion DEF clear_buffer_unsafe, Goto, Region, ControlType
    <2> QED
      BY <2>1, <2>2, <2>3 DEF Room
  <1>9. CASE InterruptLogs
    <2>1. PICK n \in Bodies : buff' = AppendAt(Len(buff), MessageLen(n))
      BY <1>9 DEF InterruptLogs
    <2>2. /\ MessageLen(n) \in Nat /\ MessageLen(n) > 0
          /\ Len(buff) \in Nat /\ Len(buff) \in 0..Len(buff)
      BY MessageLenType, LenProperties DEF BufferType
    <2>3. /\ buff' \in Seq(Character)
          /\ Len(buff') = IF Len(buff) + MessageLen(n) <= Size
                         THEN Len(buff) + MessageLen(n) ELSE Size
          /\ \A i \in 1..Len(buff) : buff'[i] = buff[i]
          /\ Len(buff) < Size => buff'[Len(buff) + 1][1] = logged + 1
      BY <2>1, <2>2, AppendedMessage
    <2>4. /\ Len(buff') <= Size /\ Len(buff) <= Len(buff')
          /\ (Len(buff) < Size => Len(buff) < Len(buff'))
      BY <2>2, <2>3 DEF BufferType
    <2>5. logged' = logged + 1 /\ burst' = burst \union {logged + 1} /\ UNCHANGED <<pc, at>>
      BY <1>9 DEF InterruptLogs
    <2>6. BufferType'
      BY <1>9, <2>3, <2>4, <2>5 DEF InterruptLogs, BufferType
    <2>7. \A m \in 0..Len(buff) : NoBurst(m)' => NoBurst(m)
      BY <2>2, <2>3, <2>5 DEF NoBurst
    <2>8. ASSUME \A t \in Task : pc'[t] \notin Midway, NoBurst(Len(buff))'
          PROVE  Len(buff') <= Threshold
      <3>1. Len(buff) <= Threshold
        BY <2>2, <2>4, <2>5, <2>7, <2>8 DEF Room, NoBurst
      <3>2. Len(buff) + 1 \in 1..Len(buff')
        BY <2>2, <2>3, <2>4, <3>1
      <3>3. buff'[Len(buff) + 1][1] \in burst'
        BY <2>2, <2>3, <2>5, <3>1
      <3> QED
        BY <2>8, <3>2, <3>3 DEF NoBurst
    <2>9. ASSUME NEW t \in Task, pc'[t] = "close"
          PROVE  at'[t] <= Len(buff') /\ (NoBurst(at[t])' => at'[t] <= Threshold)
      BY <2>2, <2>3, <2>4, <2>5, <2>7, <2>9 DEF Room, BufferType
    <2> QED
      BY <2>6, <2>8, <2>9 DEF Room
  <1>10. CASE UNCHANGED vars
    BY <1>10 DEF vars, bufferVars, BufferType, Room, NoBurst
  <1> QED
    BY <1>1, <1>2, <1>3, <1>4, <1>5, <1>6, <1>7, <1>8, <1>9, <1>10
    DEF Next, log, configure, enable, set_level, cmd_log, log_prefix_cmd

(***************************************************************************)
(* The configuration.                                                      *)
(***************************************************************************)
\* What the settings write is a configuration.
LEMMA ConfigEdits ==
  ASSUME NEW c \in Config
  PROVE  /\ \A on \in BOOLEAN : [c EXCEPT !["enabled_run_time"] = on] \in Config
         /\ \A on \in BOOLEAN : [c EXCEPT !["print_header_enabled"] = on] \in Config
         /\ \A level \in Level : [c EXCEPT !["log_level"] = level] \in Config
  BY DEF Config

\* A setting begins with a copy that differs in its own field only.
LEMMA BeginStep ==
  ASSUME ConfigType, Fresh, NEW t \in Task, NEW field \in Field, NEW value,
         NEW assigned \in SUBSET Field, [config EXCEPT ![field] = value] \in Config,
         Begin(t, field, value, assigned)
  PROVE  (ConfigType /\ Fresh)'
  <1>1. ConfigType'
    BY DEF ConfigType, Begin
  <1>2. ASSUME NEW u \in Task, overtaken'[u] = FALSE, NEW f \in todo'[u], f /= edited'[u]
        PROVE  copy'[u][f] = config'[f]
    <2>1. CASE u = t
      <3>1. edited'[t] = field /\ f \in Field \ {field}
        BY <1>2, <2>1 DEF ConfigType, Begin
      <3>2. copy'[t] = [config EXCEPT ![field] = value] /\ config' = config
        BY DEF ConfigType, Begin
      <3> QED
        BY <2>1, <3>1, <3>2, ConfigFields DEF ConfigType
    <2>2. CASE u /= t
      <3>1. /\ copy'[u] = copy[u] /\ todo'[u] = todo[u] /\ edited'[u] = edited[u]
            /\ overtaken'[u] = overtaken[u] /\ config' = config
        BY <2>2 DEF ConfigType, Begin
      <3> QED
        BY <1>2, <3>1 DEF Fresh
    <2> QED
      BY <2>1, <2>2
  <1> QED
    BY <1>1, <1>2 DEF Fresh

\* An assignment overtakes every other setting in progress.
LEMMA SetConfigStep ==
  ASSUME ConfigType, Fresh, NEW t \in Task, set_config(t)
  PROVE  (ConfigType /\ Fresh)'
  <1>1. PICK f \in todo[t] : /\ config' = [config EXCEPT ![f] = copy[t][f]]
                            /\ todo' = [todo EXCEPT ![t] = @ \ {f}]
    BY DEF set_config
  <1>2. f \in Field /\ todo' \in [Task -> SUBSET Field] /\ todo'[t] = todo[t] \ {f}
    BY <1>1 DEF ConfigType
  <1>3. config' \in Config
    BY <1>1, <1>2, ConfigAssign DEF ConfigType
  <1>4. \/ UNCHANGED <<copy, edited>>
        \/ /\ todo'[t] = {}
           /\ copy' = [copy EXCEPT ![t] = DefaultConfig]
           /\ edited' = [edited EXCEPT ![t] = "log_level"]
    BY DEF set_config
  <1>5. copy' \in [Task -> Config] /\ edited' \in [Task -> Field]
    BY <1>4, DefaultType DEF ConfigType, Field
  <1>6. overtaken' = [u \in Task |-> todo'[u] /= {} /\ (overtaken[u] \/ u /= t)]
    BY DEF set_config
  <1>7. ConfigType'
    BY <1>2, <1>3, <1>5, <1>6 DEF ConfigType, set_config
  <1>8. ASSUME NEW u \in Task, overtaken'[u] = FALSE, NEW g \in todo'[u], g /= edited'[u]
        PROVE  copy'[u][g] = config'[g]
    <2>1. u = t /\ overtaken[t] = FALSE
      BY <1>6, <1>8 DEF ConfigType
    <2>2. todo'[t] /= {} /\ UNCHANGED <<copy, edited>>
      BY <1>4, <1>8, <2>1
    <2>3. copy[t][g] = config[g]
      BY <1>2, <1>8, <2>1, <2>2 DEF Fresh
    <2>4. config'[g] = config[g]
      BY <1>1, <1>2, <1>8, <2>1, ConfigFields DEF ConfigType
    <2> QED
      BY <2>1, <2>2, <2>3, <2>4
  <1> QED
    BY <1>7, <1>8 DEF Fresh

\* Every step keeps the configuration and the copies well formed.
LEMMA ConfigStep ==
  ASSUME ConfigType, Fresh, [Next]_vars
  PROVE  (ConfigType /\ Fresh)'
  <1>1. CASE UNCHANGED configVars
    BY <1>1 DEF configVars, ConfigType, Fresh
  <1>2. ASSUME NEW t \in Task, enable(t) PROVE (ConfigType /\ Fresh)'
    BY <1>2, ConfigEdits, BeginStep DEF enable, Field, ConfigType
  <1>3. ASSUME NEW t \in Task, set_level(t) PROVE (ConfigType /\ Fresh)'
    BY <1>3, ConfigEdits, BeginStep DEF set_level, Field, ConfigType
  <1>4. ASSUME NEW t \in Task, cmd_log(t) PROVE (ConfigType /\ Fresh)'
    BY <1>4, ConfigEdits, BeginStep DEF cmd_log, Field, ConfigType
  <1>5. ASSUME NEW t \in Task, log_prefix_cmd(t) PROVE (ConfigType /\ Fresh)'
    BY <1>5, ConfigEdits, BeginStep DEF log_prefix_cmd, Field, ConfigType
  <1>6. ASSUME NEW t \in Task, set_config(t) PROVE (ConfigType /\ Fresh)'
    BY <1>6, SetConfigStep
  <1>7. ASSUME NEW t \in Task, log(t) \/ flush_buffer(t) \/ FlushEnabled(t)
        PROVE  UNCHANGED configVars
    BY <1>7 DEF log, flush_buffer, FlushEnabled, Enabled, LevelCheck, Lock, Acquire, Open,
         Close, Check, Write, clear_buffer_unsafe, Unlock, configVars
  <1>8. InterruptLogs => UNCHANGED configVars
    BY DEF InterruptLogs
  <1>9. UNCHANGED vars => UNCHANGED configVars
    BY DEF vars
  <1> QED
    BY <1>1, <1>2, <1>3, <1>4, <1>5, <1>6, <1>7, <1>8, <1>9 DEF Next, configure

(***************************************************************************)
(* The theorems                                                            *)
(***************************************************************************)
LEMMA InitInv == Init => Inv
  <1> SUFFICES ASSUME Init PROVE Inv
    OBVIOUS
  <1>1. ControlType /\ OneWriter
    BY TaskAssumption DEF Init, ControlType, OneWriter, Region
  <1>2. buff = <<>> /\ Len(buff) = 0 /\ buff \in Seq(Character) /\ out \in Seq(Character)
    BY DEF Init
  <1>3. BufferType
    BY <1>2, SizeAssumption DEF Init, BufferType
  <1>4. Room
    BY <1>2, SizeAssumption DEF Init, Room
  <1>5. ConfigType /\ Fresh
    BY DefaultType DEF Init, ConfigType, Fresh, Field
  <1> QED
    BY <1>1, <1>3, <1>4, <1>5 DEF Inv

\* Every step keeps the invariant.
LEMMA NextInv == Inv /\ [Next]_vars => Inv'
  BY ControlStep, BufferStep, ConfigStep DEF Inv

\* The invariant always holds.
LEMMA Invariance == Spec => []Inv
  BY InitInv, NextInv, PTL DEF Spec

\* One task at a time works on the log buffer, and the buffer never holds more
\* than its size: the mutex of Logger is held from opening to flushing.
THEOREM LoggerSafety == Spec => [](TypeOK /\ OneWriter)
  <1>1. Inv => TypeOK /\ OneWriter
    BY InvTypes DEF Inv
  <1> QED
    BY <1>1, Invariance, PTL

\* A setting that nothing overtook leaves the fields it is not about.
LEMMA SettingStep ==
  Inv /\ [Next]_vars =>
    [\A f \in Field : config'[f] /= config[f] =>
       \E t \in Task : set_config(t) /\ (f = edited[t] \/ overtaken[t])]_vars
  <1> SUFFICES ASSUME Inv, Next, NEW f \in Field, config'[f] /= config[f]
               PROVE  \E t \in Task : set_config(t) /\ (f = edited[t] \/ overtaken[t])
    OBVIOUS
  <1>1. PICK t \in Task : set_config(t)
    BY DEF Next, log, configure, flush_buffer, FlushEnabled, Enabled, LevelCheck, Lock,
       Acquire, Open, Close, Check, Write, clear_buffer_unsafe, Unlock, InterruptLogs, configVars,
       enable, set_level, cmd_log, log_prefix_cmd, Begin
  <1>2. PICK g \in todo[t] : config' = [config EXCEPT ![g] = copy[t][g]]
    BY <1>1 DEF set_config
  <1>3. g \in Field /\ config \in Config
    BY DEF Inv, ConfigType
  <1>4. f = g
    BY <1>2, <1>3, ConfigFields
  <1>5. config'[f] = copy[t][f]
    BY <1>2, <1>3, <1>4 DEF Config, Field
  <1>6. overtaken[t] = FALSE => f = edited[t]
    BY <1>4, <1>5 DEF Inv, Fresh
  <1>7. overtaken[t] \in BOOLEAN
    BY DEF Inv, ConfigType
  <1> QED
    BY <1>1, <1>6, <1>7

\* Settings are lost or undone only when two of them overlap: enable(), the log
\* commands and set_level() write back what they read unless another assigned
\* the configuration meanwhile.
THEOREM SettingsKept == Spec => SettingKept
  BY Invariance, SettingStep, PTL DEF Spec, SettingKept

\* No message is longer than the longest, if there is one.
LEMMA LongestIsLongest ==
  ASSUME \E m \in Bodies \union {0} : \A n \in Bodies \union {0} : m >= n,
         NEW n \in Bodies \union {0}
  PROVE  MessageLen(n) <= LongestMessage /\ LongestMessage \in Nat
  <1>1. PICK m : m = Max(Bodies \union {0})
    OBVIOUS
  <1>2. m \in Bodies \union {0} /\ m >= n
    BY <1>1 DEF Max
  <1> QED
    BY <1>1, <1>2, BodiesAssumption DEF MessageLen, LongestMessage, HeaderLen, EolLen

\* A message that finds only text of tasks before it fits whole.
LEMMA CutStep ==
  ASSUME \E m \in Bodies \union {0} : \A n \in Bodies \union {0} : m >= n,
         Inv, NEW t \in Task, Close(t), Threshold + LongestMessage <= Size,
         \A i \in 1..at[t] : buff[i][1] \notin burst
  PROVE  Len(buff') = at[t] + MessageLen(body[t])
  <1>1. pc[t] = "close" /\ buff' = AppendAt(at[t], MessageLen(body[t]))
    BY DEF Close
  <1>2. at[t] \in 0..Len(buff) /\ at[t] <= Threshold /\ body[t] \in Bodies \union {0}
    BY <1>1, LenProperties DEF Inv, Room, NoBurst, BufferType
  <1>3. MessageLen(body[t]) \in Nat /\ MessageLen(body[t]) > 0
    BY <1>2, MessageLenType
  <1>4. BufferType
    BY DEF Inv
  <1>5. Len(buff') = IF at[t] + MessageLen(body[t]) <= Size
                   THEN at[t] + MessageLen(body[t]) ELSE Size
    <2>1. ASSUME NEW e \in 0..Len(buff), NEW n \in Nat, n > 0, NEW b, b = AppendAt(e, n)
          PROVE  Len(b) = IF e + n <= Size THEN e + n ELSE Size
      BY <1>4, <2>1, AppendedMessage
    <2> QED
      BY <1>1, <1>2, <1>3, <2>1
  <1>6. MessageLen(body[t]) <= LongestMessage /\ LongestMessage \in Nat
    BY <1>2, LongestIsLongest
  <1>7. at[t] + MessageLen(body[t]) <= Size
    BY <1>2, <1>3, <1>6, SizeAssumption
  <1> QED
    BY <1>5, <1>7

\* With room for the longest message above the flush threshold, only the text
\* of interrupts can make a message of a task be cut; the lengths of messages
\* are taken to be bounded.
THEOREM CutsComeFromBursts ==
  ASSUME \E m \in Bodies \union {0} : \A n \in Bodies \union {0} : m >= n
  PROVE  Spec => CutOnlyByBurst
  <1>1. Inv /\ [Next]_vars =>
          [\A t \in Task :
             Close(t) /\ Threshold + LongestMessage <= Size
             /\ (\A i \in 1..at[t] : buff[i][1] \notin burst)
             => Len(buff') = at[t] + MessageLen(body[t])]_vars
    BY CutStep
  <1> QED
    BY <1>1, Invariance, PTL DEF Spec, CutOnlyByBurst

(***************************************************************************)
(* The stream.  The buffer stands for the text that is to be delivered,    *)
(* but for what the task that has it open, or has written it, is about to  *)
(* wipe.                                                                   *)
(***************************************************************************)
\* The messages are numbered as they are logged.
Numbered == \A i \in 1..Len(buff) : buff[i][1] <= logged

\* A doomed character is in the buffer only while a task is about to wipe it,
\* and only behind the place where that task appends.
Wiping == {"close", "clear"}
DoomedLast ==
  /\ (\A t \in Task : pc[t] \notin Wiping) => Lasting(Len(buff))
  /\ \A t \in Task : pc[t] = "close" =>
       Lasting(at[t]) /\ \A i \in at[t] + 1..Len(buff) : buff[i][1] \in doomed

StreamInv == Inv /\ Numbered /\ DoomedLast

\* Seen as a text, such a buffer is what there is room for of the old one up to
\* that place, and the message.
LEMMA AppendedText ==
  ASSUME NEW end \in 0..Len(buff), NEW n, BufferType
  PROVE  AppendAt(end, n)
           = Stream!Kept(SubSeq(buff, 1, end) \o Stream!Text(logged + 1, n))
  <1>1. Len(buff) \in Nat /\ end \in Nat /\ end <= Len(buff)
    BY LenProperties DEF BufferType
  <1>2. Prefix(buff, end) = SubSeq(buff, 1, end)
    BY <1>1 DEF Prefix
  <1>3. \A s : Prefix(s, Size) = Stream!Kept(s)
    BY DEF Prefix, Stream!Kept
  <1> QED
    BY <1>2, <1>3 DEF AppendAt

\* The longest beginning of the buffer that nothing is to wipe.
LEMMA LongestOfPrefixes ==
  ASSUME NEW len \in Nat, NEW n \in 0..len, NEW S, S \subseteq 0..len, n \in S,
         \A k \in S : k <= n
  PROVE  Max(S) = n
  <1>1. n \in S /\ \A k \in S : n >= k
    OBVIOUS
  <1>0. \A k \in S : k \in Nat
    OBVIOUS
  <1>2. Max(S) \in S /\ \A k \in S : Max(S) >= k
    BY <1>1 DEF Max
  <1>3. Max(S) \in Nat /\ Max(S) <= n /\ n <= Max(S)
    BY <1>0, <1>1, <1>2
  <1> QED
    BY <1>3

LEMMA UnwrittenIs ==
  ASSUME BufferType, \A t \in Task : pc[t] /= "clear", NEW n \in 0..Len(buff), Lasting(n),
         \A i \in n + 1..Len(buff) : buff[i][1] \in doomed
  PROVE  Unwritten = SubSeq(buff, 1, n)
  <1> DEFINE S == {k \in 0..Len(buff) : Lasting(k)}
  <1>1. Len(buff) \in Nat
    BY LenProperties DEF BufferType
  <1>2. ASSUME NEW k \in S PROVE k <= n
    <2>1. k \in Nat /\ n \in Nat /\ k <= Len(buff) /\ \A i \in 1..k : buff[i][1] \notin doomed
      BY <1>1 DEF Lasting
    <2>2. SUFFICES ASSUME n < k PROVE FALSE
      BY <2>1
    <2>3. n + 1 \in 1..k /\ n + 1 \in n + 1..Len(buff)
      BY <1>1, <2>1, <2>2
    <2> QED
      BY <2>1, <2>3
  <1>3. n \in S /\ S \subseteq 0..Len(buff)
    OBVIOUS
  <1> HIDE DEF S
  <1>4. Max(S) = n
    BY <1>1, <1>2, <1>3, LongestOfPrefixes
  <1> QED
    BY <1>4 DEF Unwritten, S

LEMMA UnwrittenAtRest ==
  StreamInv /\ (\A t \in Task : pc[t] \notin Wiping) => Unwritten = buff
  <1> SUFFICES ASSUME StreamInv, \A t \in Task : pc[t] \notin Wiping PROVE Unwritten = buff
    OBVIOUS
  <1>1. BufferType /\ Lasting(Len(buff)) /\ \A t \in Task : pc[t] /= "clear"
    BY DEF StreamInv, Inv, DoomedLast, Wiping
  <1>2. Len(buff) \in 0..Len(buff) /\ Len(buff) + 1..Len(buff) = {} /\ buff \in Seq(Character)
    BY <1>1, LenProperties DEF BufferType
  <1>3. Unwritten = SubSeq(buff, 1, Len(buff))
    BY <1>1, <1>2, UnwrittenIs
  <1> QED
    BY <1>2, <1>3, SubSeqFull

LEMMA UnwrittenAtClose ==
  ASSUME NEW t \in Task
  PROVE  StreamInv /\ pc[t] = "close" => Unwritten = SubSeq(buff, 1, at[t])
  <1> SUFFICES ASSUME StreamInv, pc[t] = "close" PROVE Unwritten = SubSeq(buff, 1, at[t])
    OBVIOUS
  <1>1. BufferType /\ OneWriter /\ Room /\ DoomedLast
    BY DEF StreamInv, Inv
  <1>2. at[t] \in 0..Len(buff)
    BY <1>1, LenProperties DEF BufferType, Room
  <1>3. \A u \in Task : pc[u] /= "clear"
    BY <1>1, OneInRegion DEF Region
  <1>4. Lasting(at[t]) /\ \A i \in at[t] + 1..Len(buff) : buff[i][1] \in doomed
    BY <1>1 DEF DoomedLast
  <1> QED
    BY <1>1, <1>2, <1>3, <1>4, UnwrittenIs

LEMMA UnwrittenAtClear == (\E t \in Task : pc[t] = "clear") => Unwritten = <<>>
  BY DEF Unwritten

LEMMA UnwrittenAtRestNext ==
  (StreamInv /\ (\A t \in Task : pc[t] \notin Wiping) => Unwritten = buff)'
  BY UnwrittenAtRest, PTL

LEMMA UnwrittenAtCloseNext ==
  ASSUME NEW t \in Task
  PROVE  (StreamInv /\ pc[t] = "close" => Unwritten = SubSeq(buff, 1, at[t]))'
  BY UnwrittenAtClose, PTL

LEMMA UnwrittenAtClearNext == ((\E t \in Task : pc[t] = "clear") => Unwritten = <<>>)'
  BY UnwrittenAtClear, PTL

\* The stream is not concerned with steps that leave the buffer, and those who
\* are about to wipe it, as they are.
LEMMA SameUnwritten ==
  ASSUME UNCHANGED <<buff, doomed, at>>,
         \A u \in Task : (pc'[u] = "clear" <=> pc[u] = "clear")
  PROVE  Unwritten' = Unwritten
  BY DEF Unwritten, Lasting

LEMMA SameDoomed ==
  ASSUME Numbered, DoomedLast, UNCHANGED <<buff, doomed, at, logged>>,
         \A u \in Task : /\ pc'[u] = "close" <=> pc[u] = "close"
                         /\ pc'[u] = "clear" <=> pc[u] = "clear"
  PROVE  (Numbered /\ DoomedLast)'
  BY DEF Numbered, DoomedLast, Wiping, Lasting

\* Most steps of a task are no concern of the stream.
Aside(t) ==
  \/ Enabled(t) \/ LevelCheck(t) \/ Lock(t) \/ Check(t) \/ Unlock(t)
  \/ flush_buffer(t) \/ FlushEnabled(t) \/ set_config(t)
  \/ \E field, value, assigned : Begin(t, field, value, assigned)

LEMMA AsideSteps ==
  ASSUME ControlType, NEW t \in Task, Aside(t)
  PROVE  /\ UNCHANGED <<at, buff, out, logged, doomed>>
         /\ \A u \in Task : /\ pc'[u] = "close" <=> pc[u] = "close"
                            /\ pc'[u] = "clear" <=> pc[u] = "clear"
  <1> USE DEF ControlType, Goto, bufferVars, configVars
  <1>1. CASE Enabled(t) \/ LevelCheck(t)
    BY <1>1 DEF Enabled, LevelCheck
  <1>2. CASE Lock(t) \/ flush_buffer(t) \/ Unlock(t)
    BY <1>2 DEF Lock, flush_buffer, Acquire, Unlock
  <1>3. CASE Check(t) \/ FlushEnabled(t)
    BY <1>3 DEF Check, FlushEnabled
  <1>4. CASE set_config(t)
    BY <1>4 DEF set_config
  <1>5. CASE \E field, value, assigned : Begin(t, field, value, assigned)
    BY <1>5 DEF Begin
  <1> QED
    BY <1>1, <1>2, <1>3, <1>4, <1>5 DEF Aside

LEMMA NextSteps ==
  ASSUME Next
  PROVE  \/ InterruptLogs
         \/ \E t \in Task : \/ Aside(t) \/ Open(t) \/ Close(t) \/ Write(t)
                            \/ clear_buffer_unsafe(t)
  BY DEF Next, log, configure, enable, set_level, cmd_log, log_prefix_cmd, Aside

\* What an appended message leaves behind: its characters have its number.
LEMMA NumberedAppend ==
  ASSUME BufferType, Numbered, NEW end \in 0..Len(buff), NEW m \in Nat,
         Appended(end, m, buff'), logged' = logged + 1
  PROVE  /\ Numbered'
         /\ \A i \in end + 1..Len(buff') : buff'[i][1] = logged + 1
         /\ \A i \in 1..end : buff'[i] = buff[i] /\ buff[i][1] /= logged + 1
  <1>1. /\ Len(buff) \in Nat /\ end \in Nat /\ end <= Len(buff) /\ logged \in Nat
        /\ Len(buff') = end + m
    BY LenProperties DEF BufferType, Appended
  <1>2. ASSUME NEW i \in end + 1..Len(buff') PROVE buff'[i][1] = logged + 1
    BY <1>1 DEF Appended
  <1>3. ASSUME NEW i \in 1..end
        PROVE  buff'[i] = buff[i] /\ buff[i][1] /= logged + 1 /\ buff'[i][1] <= logged + 1
    <2>1. i \in 1..Len(buff)
      BY <1>1
    <2>2. buff[i][1] \in Nat
      BY <2>1, ElementOfSeq DEF BufferType, Character
    <2>3. buff[i][1] <= logged /\ buff'[i] = buff[i]
      BY <2>1 DEF Numbered, Appended
    <2> QED
      BY <1>1, <2>2, <2>3
  <1>4. ASSUME NEW i \in 1..Len(buff') PROVE buff'[i][1] <= logged + 1
    <2>1. i \in 1..end \/ i \in end + 1..Len(buff')
      BY <1>1
    <2> QED
      BY <1>1, <1>2, <1>3, <2>1
  <1> QED
    BY <1>2, <1>3, <1>4 DEF Numbered

\* Every step keeps the doomed text behind what is to be delivered.
LEMMA StreamInvStep ==
  ASSUME StreamInv, [Next]_vars
  PROVE  (Numbered /\ DoomedLast)'
  <1>0. /\ Inv /\ ControlType /\ OneWriter /\ BufferType /\ Room
        /\ Numbered /\ DoomedLast
    BY DEF StreamInv, Inv
  <1>1. ASSUME NEW t \in Task, Aside(t) PROVE (Numbered /\ DoomedLast)'
    BY <1>0, <1>1, AsideSteps, SameDoomed
  <1>2. ASSUME NEW t \in Task, Open(t) PROVE (Numbered /\ DoomedLast)'
    <2>1. \A u \in Task : pc[u] \notin Wiping
      BY <1>0, <1>2, OneInRegion DEF Open, Wiping, Region
    <2>2. Lasting(Len(buff)) /\ Len(buff) \in Nat
      BY <1>0, <2>1, LenProperties DEF DoomedLast, BufferType
    <2>3. /\ at' = [at EXCEPT ![t] = Len(buff)] /\ pc' = [pc EXCEPT ![t] = "close"]
          /\ UNCHANGED <<buff, doomed, logged>>
      BY <1>2 DEF Open, Goto, bufferVars
    <2>4. pc'[t] = "close" /\ at'[t] = Len(buff) /\ \A u \in Task \ {t} : pc'[u] /= "close"
      BY <1>0, <2>1, <2>3 DEF ControlType, BufferType, Wiping
    <2>5. Len(buff) + 1..Len(buff) = {}
      BY <2>2
    <2> QED
      BY <1>0, <2>2, <2>3, <2>4, <2>5 DEF Numbered, DoomedLast, Wiping, Lasting
  <1>3. ASSUME NEW t \in Task, Close(t) PROVE (Numbered /\ DoomedLast)'
    <2>1. pc[t] = "close" /\ at[t] \in 0..Len(buff) /\ body[t] \in Bodies \union {0}
      BY <1>0, <1>3, LenProperties DEF Close, BufferType, Room
    <2>2. PICK m \in Nat : Appended(at[t], m, buff')
      <3>1. PICK k : k = MessageLen(body[t])
        OBVIOUS
      <3>2. k \in Nat /\ buff' = AppendAt(at[t], k)
        BY <1>3, <2>1, <3>1, MessageLenType DEF Close
      <3> QED
        BY <1>0, <2>1, <3>2, AppendedIs
    <2>3. logged' = logged + 1 /\ doomed' = doomed /\ logged \in Nat /\ doomed \subseteq 1..logged
      BY <1>0, <1>3 DEF Close, BufferType
    <2>4. /\ Numbered'
          /\ \A i \in at[t] + 1..Len(buff') : buff'[i][1] = logged + 1
          /\ \A i \in 1..at[t] : buff'[i] = buff[i]
      BY <1>0, <2>1, <2>2, <2>3, NumberedAppend
    <2>5. Lasting(at[t])
      BY <1>0, <2>1 DEF DoomedLast
    <2>6. ASSUME NEW i \in 1..Len(buff') PROVE buff'[i][1] \notin doomed'
      <3>1. Len(buff') = at[t] + m /\ at[t] \in Nat
        BY <2>1, <2>2 DEF Appended
      <3>2. i \in 1..at[t] \/ i \in at[t] + 1..Len(buff')
        BY <3>1
      <3>3. logged + 1 \notin doomed
        BY <2>3
      <3> QED
        BY <2>3, <2>4, <2>5, <3>2, <3>3 DEF Lasting
    <2>7. \A u \in Task : pc'[u] /= "close"
      BY <1>0, <1>3, OneInRegion DEF Close, Goto, Region, ControlType
    <2> QED
      BY <2>4, <2>6, <2>7 DEF DoomedLast, Lasting
  <1>4. ASSUME NEW t \in Task, Write(t) PROVE (Numbered /\ DoomedLast)'
    <2>1. \A u \in Task : pc'[u] /= "close"
      BY <1>0, <1>4, OneInRegion DEF Write, Goto, Region, ControlType
    <2>2. pc'[t] = "clear" /\ UNCHANGED <<buff, logged>>
      BY <1>0, <1>4 DEF Write, Goto, ControlType
    <2> QED
      BY <1>0, <2>1, <2>2 DEF Numbered, DoomedLast, Wiping
  <1>5. ASSUME NEW t \in Task, clear_buffer_unsafe(t) PROVE (Numbered /\ DoomedLast)'
    <2>1. \A u \in Task : pc'[u] /= "close"
      BY <1>0, <1>5, OneInRegion DEF clear_buffer_unsafe, Goto, Region, ControlType
    <2>2. Len(buff') = 0
      BY <1>5 DEF clear_buffer_unsafe
    <2> QED
      BY <2>1, <2>2 DEF Numbered, DoomedLast, Lasting
  <1>6. CASE InterruptLogs
    <2>1. PICK n \in Bodies : buff' = AppendAt(Len(buff), MessageLen(n))
      BY <1>6 DEF InterruptLogs
    <2>2. Len(buff) \in Nat /\ Len(buff) \in 0..Len(buff) /\ MessageLen(n) \in Nat
      BY <1>0, LenProperties, MessageLenType DEF BufferType
    <2>3. PICK m \in Nat : Appended(Len(buff), m, buff')
      <3>1. PICK k : k = MessageLen(n)
        OBVIOUS
      <3>2. k \in Nat /\ buff' = AppendAt(Len(buff), k)
        BY <2>1, <2>2, <3>1
      <3>3. PICK m : m \in 0..k /\ Appended(Len(buff), m, AppendAt(Len(buff), k))
        BY <1>0, <2>2, <3>2, AppendedIs
      <3>4. m \in Nat /\ Appended(Len(buff), m, buff')
        BY <3>2, <3>3
      <3> QED
        BY <3>4
    <2>4. /\ logged' = logged + 1 /\ UNCHANGED <<pc, at>>
          /\ doomed' = IF Exposed THEN doomed \union {logged + 1} ELSE doomed
      BY <1>6 DEF InterruptLogs
    <2>5. /\ Numbered'
          /\ \A i \in Len(buff) + 1..Len(buff') : buff'[i][1] = logged + 1
          /\ \A i \in 1..Len(buff) : buff'[i] = buff[i] /\ buff[i][1] /= logged + 1
      BY <1>0, <2>2, <2>3, <2>4, NumberedAppend
    <2>6. ASSUME NEW i \in 1..Len(buff') PROVE i \in 1..Len(buff) \/ i \in Len(buff) + 1..Len(buff')
      BY <2>2
    <2>7. logged \in Nat /\ logged + 1 \notin doomed
      BY <1>0 DEF BufferType
    <2>8. ASSUME \A t \in Task : pc'[t] \notin Wiping PROVE Lasting(Len(buff))'
      <3>1. ~Exposed /\ Lasting(Len(buff))
        BY <1>0, <2>4, <2>8 DEF Exposed, Wiping, DoomedLast
      <3> QED
        BY <2>4, <2>5, <2>6, <2>7, <3>1 DEF Lasting
    <2>9. ASSUME NEW t \in Task, pc'[t] = "close"
          PROVE  Lasting(at[t])' /\ \A i \in at'[t] + 1..Len(buff') : buff'[i][1] \in doomed'
      <3>1. Exposed /\ Lasting(at[t]) /\ \A i \in at[t] + 1..Len(buff) : buff[i][1] \in doomed
        BY <1>0, <2>4, <2>9 DEF Exposed, DoomedLast
      <3>2. /\ at[t] \in Nat /\ at[t] <= Len(buff) /\ at'[t] = at[t]
            /\ doomed' = doomed \union {logged + 1}
        BY <1>0, <2>4, <2>9, <3>1 DEF Room, BufferType
      <3>3. ASSUME NEW i \in 1..at[t] PROVE buff'[i][1] \notin doomed'
        <4>1. i \in 1..Len(buff)
          BY <2>2, <3>2
        <4> QED
          BY <2>5, <3>1, <3>2, <4>1 DEF Lasting
      <3>4. ASSUME NEW i \in at[t] + 1..Len(buff') PROVE buff'[i][1] \in doomed'
        <4>1. (i \in at[t] + 1..Len(buff) /\ i \in 1..Len(buff)) \/ i \in Len(buff) + 1..Len(buff')
          BY <2>2, <3>2
        <4> QED
          BY <2>5, <3>1, <3>2, <4>1
      <3> QED
        BY <3>2, <3>3, <3>4 DEF Lasting
    <2> QED
      BY <2>5, <2>8, <2>9 DEF DoomedLast
  <1>7. CASE UNCHANGED vars
    BY <1>0, <1>7 DEF vars, bufferVars, Numbered, DoomedLast, Lasting
  <1> QED
    BY <1>1, <1>2, <1>3, <1>4, <1>5, <1>6, <1>7, NextSteps

\* A message that a task closes on the buffer, and one of an interrupt that finds
\* no task about to wipe, enter the stream.
LEMMA LogStep ==
  ASSUME \E m \in Bodies \union {0} : \A n \in Bodies \union {0} : m >= n,
         StreamInv, NEW end \in 0..Len(buff), NEW n \in Bodies \union {0},
         Unwritten = SubSeq(buff, 1, end), Unwritten' = buff', ~Exposed',
         buff' = AppendAt(end, MessageLen(n)), logged' = logged + 1, out' = out
  PROVE  Stream!Log
  <1>1. BufferType
    BY DEF StreamInv, Inv
  <1>2. PICK k : k = MessageLen(n)
    OBVIOUS
  <1>3. k \in 1..LongestMessage
    BY <1>2, MessageLenType, LongestIsLongest
  <1>4. AppendAt(end, k) = Stream!Kept(SubSeq(buff, 1, end) \o Stream!Text(logged + 1, k))
    BY <1>1, AppendedText
  <1>5. Unwritten' = Stream!Kept(Unwritten \o Stream!Text(logged', k))
    BY <1>2, <1>4
  <1> QED
    BY <1>3, <1>5 DEF Stream!Log

\* Every step of the logger is one of the stream.
LEMMA StreamStep ==
  ASSUME \E m \in Bodies \union {0} : \A n \in Bodies \union {0} : m >= n,
         StreamInv, StreamInv', [Next]_vars
  PROVE  [Stream!StreamNext]_<<out, Unwritten, logged, Exposed>>
  <1>0. /\ Inv /\ ControlType /\ OneWriter /\ BufferType /\ Room
        /\ Numbered /\ DoomedLast
    BY DEF StreamInv, Inv
  <1>1. ASSUME NEW t \in Task, Aside(t) 
        PROVE  UNCHANGED <<out, Unwritten, logged, Exposed>>
    <2>1. /\ UNCHANGED <<at, buff, out, logged, doomed>>
          /\ \A u \in Task : /\ pc'[u] = "close" <=> pc[u] = "close"
                             /\ pc'[u] = "clear" <=> pc[u] = "clear"
      BY <1>0, <1>1, AsideSteps
    <2>2. Exposed' = Exposed
      BY <2>1 DEF Exposed
    <2> QED
      BY <2>1, <2>2, SameUnwritten
  <1>2. ASSUME NEW t \in Task, Open(t) PROVE Stream!TurnWindow
    <2>1. \A u \in Task : pc[u] \notin Wiping
      BY <1>0, <1>2, OneInRegion DEF Open, Wiping, Region
    <2>2. Unwritten = buff
      BY <2>1, UnwrittenAtRest
    <2>3. pc'[t] = "close" /\ at'[t] = Len(buff) /\ UNCHANGED <<buff, out, logged>>
      BY <1>0, <1>2 DEF Open, Goto, ControlType, BufferType, bufferVars
    <2>4. StreamInv' /\ pc'[t] = "close" => Unwritten' = SubSeq(buff', 1, at'[t])
      BY UnwrittenAtCloseNext
    <2>5. SubSeq(buff, 1, Len(buff)) = buff
      BY <1>0, SubSeqFull DEF BufferType
    <2>6. Exposed' = ~Exposed
      BY <2>1, <2>3 DEF Exposed, Wiping
    <2> QED
      BY <2>2, <2>3, <2>4, <2>5, <2>6 DEF Stream!TurnWindow
  <1>3. ASSUME NEW t \in Task, Close(t) PROVE Stream!Log
    <2>1. pc[t] = "close" /\ at[t] \in 0..Len(buff) /\ body[t] \in Bodies \union {0}
      BY <1>0, <1>3, LenProperties DEF Close, BufferType, Room
    <2>2. Unwritten = SubSeq(buff, 1, at[t])
      BY <2>1, UnwrittenAtClose
    <2>3. \A u \in Task : pc'[u] \notin Wiping
      BY <1>0, <1>3, OneInRegion DEF Close, Goto, Region, ControlType, Wiping
    <2>4. StreamInv' /\ (\A u \in Task : pc[u] \notin Wiping)' => Unwritten' = buff'
      BY UnwrittenAtRestNext
    <2>5. /\ buff' = AppendAt(at[t], MessageLen(body[t]))
          /\ logged' = logged + 1 /\ out' = out
      BY <1>3 DEF Close
    <2>6. ~Exposed'
      BY <2>3 DEF Exposed, Wiping
    <2> QED
      BY <2>1, <2>2, <2>3, <2>4, <2>5, <2>6, LogStep
  <1>4. ASSUME NEW t \in Task, Write(t) PROVE Stream!Flush
    <2>1. \A u \in Task : pc[u] \notin Wiping
      BY <1>0, <1>4, OneInRegion DEF Write, Wiping, Region
    <2>2. Unwritten = buff
      BY <2>1, UnwrittenAtRest
    <2>3. pc'[t] = "clear" /\ out' = out \o buff /\ logged' = logged
      BY <1>0, <1>4 DEF Write, Goto, ControlType
    <2>4. (\E u \in Task : pc[u] = "clear")' => Unwritten' = <<>>
      BY UnwrittenAtClearNext
    <2>5. ~Exposed /\ Exposed'
      BY <2>1, <2>3 DEF Exposed, Wiping
    <2> QED
      BY <2>2, <2>3, <2>4, <2>5 DEF Stream!Flush
  <1>5. ASSUME NEW t \in Task, clear_buffer_unsafe(t)
        PROVE  Stream!TurnWindow
    <2>1. \A u \in Task : pc'[u] \notin Wiping
      BY <1>0, <1>5, OneInRegion DEF clear_buffer_unsafe, Goto, Region, ControlType, Wiping
    <2>2. StreamInv' /\ (\A u \in Task : pc[u] \notin Wiping)' => Unwritten' = buff'
      BY UnwrittenAtRestNext
    <2>3. buff' = <<>> /\ pc[t] = "clear" /\ UNCHANGED <<out, logged>>
      BY <1>5 DEF clear_buffer_unsafe
    <2>4. Exposed' = ~Exposed
      BY <2>1, <2>3 DEF Exposed, Wiping
    <2> QED
      BY <2>1, <2>2, <2>3, <2>4, UnwrittenAtClear DEF Stream!TurnWindow
  <1>6. CASE InterruptLogs
    <2>1. PICK n \in Bodies : buff' = AppendAt(Len(buff), MessageLen(n))
      BY <1>6 DEF InterruptLogs
    <2>2. Len(buff) \in Nat /\ Len(buff) \in 0..Len(buff) /\ MessageLen(n) \in Nat
      BY <1>0, LenProperties, MessageLenType DEF BufferType
    <2>3. logged' = logged + 1 /\ UNCHANGED <<pc, at, out>>
      BY <1>6 DEF InterruptLogs
    <2>3a. Exposed' = Exposed
      BY <2>3 DEF Exposed
    <2>4. CASE \A t \in Task : pc[t] \notin Wiping
      <3>1. StreamInv' /\ (\A u \in Task : pc[u] \notin Wiping)' => Unwritten' = buff'
        BY UnwrittenAtRestNext
      <3>2. Unwritten = buff /\ Unwritten' = buff'
        BY <2>3, <2>4, <3>1, UnwrittenAtRest
      <3>3. Unwritten = SubSeq(buff, 1, Len(buff))
        BY <1>0, <3>2, SubSeqFull DEF BufferType
      <3>4. ~Exposed'
        BY <2>4, <2>3a DEF Exposed, Wiping
      <3>5. n \in Bodies \union {0}
        OBVIOUS
      <3>6. /\ Unwritten' = buff' /\ logged' = logged + 1 /\ out' = out
            /\ buff' = AppendAt(Len(buff), MessageLen(n))
        BY <2>1, <2>3, <3>2
      <3>7. Stream!Log
        BY <2>2, <3>3, <3>4, <3>5, <3>6, LogStep
      <3> QED
        BY <3>7 DEF Stream!StreamNext
    <2>5. ASSUME NEW t \in Task, pc[t] = "close" PROVE Stream!Lose
      <3>1. Unwritten = SubSeq(buff, 1, at[t])
        BY <2>5, UnwrittenAtClose
      <3>2. StreamInv' /\ pc'[t] = "close" => Unwritten' = SubSeq(buff', 1, at'[t])
        BY UnwrittenAtCloseNext
      <3>3. at[t] \in Nat /\ at[t] <= Len(buff) /\ at'[t] = at[t]
        BY <1>0, <2>3, <2>5 DEF Room, BufferType
      <3>4. \A i \in 1..at[t] : buff'[i] = buff[i] /\ buff[i] \in Character
        <4>1. PICK k : k = MessageLen(n)
          OBVIOUS
        <4>2. PICK m \in 0..k : Appended(Len(buff), m, AppendAt(Len(buff), k))
          BY <1>0, <2>2, <4>1, AppendedIs
        <4>3. \A i \in 1..Len(buff) : buff'[i] = buff[i] /\ buff[i] \in Character
          BY <1>0, <2>1, <4>1, <4>2, ElementOfSeq DEF Appended, BufferType
        <4> QED
          BY <2>2, <3>3, <4>3
      <3>5. /\ SubSeq(buff, 1, at[t]) \in Seq(Character) /\ Len(SubSeq(buff, 1, at[t])) = at[t]
            /\ \A i \in 1..at[t] : SubSeq(buff, 1, at[t])[i] = buff[i]
        BY <3>3, <3>4, SubSeqProperties
      <3>6. /\ SubSeq(buff', 1, at[t]) \in Seq(Character)
            /\ Len(SubSeq(buff', 1, at[t])) = at[t]
            /\ \A i \in 1..at[t] : SubSeq(buff', 1, at[t])[i] = buff'[i]
        BY <3>3, <3>4, SubSeqProperties
      <3>7. SubSeq(buff', 1, at[t]) = SubSeq(buff, 1, at[t])
        BY <3>4, <3>5, <3>6, SeqEqual
      <3> QED
        BY <2>3, <2>5, <2>3a, <3>1, <3>2, <3>3, <3>7 DEF Stream!Lose, Exposed
    <2>6. ASSUME NEW t \in Task, pc[t] = "clear" PROVE Stream!Lose
      <3>1. (\E u \in Task : pc[u] = "clear")' => Unwritten' = <<>>
        BY UnwrittenAtClearNext
      <3>2. Unwritten = <<>> /\ Unwritten' = <<>>
        BY <2>3, <2>6, <3>1, UnwrittenAtClear
      <3> QED
        BY <2>3, <2>6, <2>3a, <3>2 DEF Stream!Lose, Exposed
    <2> QED
      BY <2>4, <2>5, <2>6 DEF Wiping, Stream!StreamNext
  <1>7. CASE UNCHANGED vars
    <2>1. UNCHANGED <<pc, at, buff, out, logged, doomed>>
      BY <1>7 DEF vars, bufferVars
    <2>2. Exposed' = Exposed
      BY <2>1 DEF Exposed
    <2> QED
      BY <2>1, <2>2, SameUnwritten
  <1> QED
    BY <1>1, <1>2, <1>3, <1>4, <1>5, <1>6, <1>7, NextSteps DEF Stream!StreamNext

\* For any tasks, levels, sizes and bounded lengths: the messages of tasks, and of
\* the interrupts that find no task about to wipe the buffer, are appended once
\* and in order, whole or up to where the buffer is full, and what is appended
\* reaches the file in order and without gaps (log_unsafe, flush_buffer_unsafe,
\* logger.cpp).
THEOREM LoggerImplementsStream ==
  ASSUME \E m \in Bodies \union {0} : \A n \in Bodies \union {0} : m >= n
  PROVE  Spec => RefinesLogStream
  <1>1. Init => StreamInv /\ Stream!StreamInit
    <2> SUFFICES ASSUME Init PROVE StreamInv /\ Stream!StreamInit
      OBVIOUS
    <2>1. /\ Inv /\ buff = <<>> /\ Len(buff) = 0 /\ out = <<>> /\ logged = 0
          /\ \A t \in Task : pc[t] \notin Wiping
      BY InitInv DEF Init, Wiping
    <2>2. StreamInv
      BY <2>1 DEF StreamInv, Numbered, DoomedLast, Lasting, Wiping
    <2>3. Unwritten = <<>>
      BY <2>1, <2>2, UnwrittenAtRest
    <2>4. Exposed = FALSE
      BY <2>1 DEF Exposed, Wiping
    <2> QED
      BY <2>1, <2>2, <2>3, <2>4 DEF Stream!StreamInit
  <1>2. StreamInv /\ [Next]_vars => StreamInv'
    BY NextInv, StreamInvStep DEF StreamInv
  <1>3. StreamInv /\ StreamInv' /\ [Next]_vars =>
          [Stream!StreamNext]_<<out, Unwritten, logged, Exposed>>
    BY StreamStep
  <1> QED
    BY <1>1, <1>2, <1>3, PTL DEF Spec, RefinesLogStream, Stream!StreamSpec, Stream!streamVars
=============================================================================
