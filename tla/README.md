# A formal model of `ln`

`ln` is a library for FreeRTOS applications: circular buffers, drivers that turn
asynchronous transfers into blocking calls, a command-line shell with editing and
history, a logger, and the C library's file calls on littlefs. This directory holds
TLA+ modules translated from its source, TLC configurations that check them on small
instances, and theorems that TLAPS proves for every value of their constants.

`PROJECT.json` lists, in machine-readable form, every component, every run with its
properties, the source lines behind every definition (`map`), the hazards the
properties are aimed at, what the checks found, and the theorems.

    tlc -config ring_buffer.cfg MCRingBufferView.tla    # one run
    tlapm RingBufferView_proofs.tla                     # one proof module

## 1. Inventory

| Component | State | Operations | Where it is hard |
|---|---|---|---|
| `RingBufferView<T>`, `RingBuffer<T, N>` (`core/RingBuffer.hpp`) | `storage`, `head`, `tail`, `count` | `push(element)`, `push(span)` in modes normal and overwrite, `pop`, `clear`, `operator[]`, iterators | three fields updated one by one, full and empty share `head == tail`, spans split in two chunks after the head has moved, `size_t` wrap, empty storage |
| `ReadStream`, `WriteStream`, `Stream<rw>`, `Initializable` (`drivers/EventDrivenStream.hpp`, `Initializable.hpp`) | `initialized`; per direction a mutex and a binary semaphore | `init`, `deinit`, `read`, `write`, completion callbacks | tasks, interrupts and driver threads; a transfer outlives the call that timed out; a blocking drain under the mutex; `initialized` is read without a lock |
| `EventDrivenSpi` (`drivers/EventDrivenSpi.*`) | a mutex, a semaphore per channel, the driver's busy flags | `read`, `write`, `write_async`, `write_await`, `read_write`, four callbacks | a wait may be ended by another transfer's signal; busy is read long before the start; transfers left behind by asynchronous and timed-out calls |
| `QueueWriter` (`drivers/QueueWriter.hpp`) | a FreeRTOS queue | `write_in`, the task that drains it | all of it is the kernel's |
| `shell::Input` | `line_buf`, `cursor_idx`, `chars_used` | `insert`, `delete_char`, `backspace_char`, steps, `clear` | in-place `memmove` with computed lengths; a full line |
| `shell::History` | a character ring, `recall_pos` | `add_line`, `get_current_recall_line`, `recall_previous`, `recall_next` | searches for newlines in a ring that overwrites its oldest line |
| `shell::CLI` | `escape_state`, the input, the history, `previously_called_from_history`, what the terminal shows | `put_char` and all it reaches, `execute_line` | the escape recogniser; incremental redraw; the interplay of recall, edit and execute |
| `RepeatCommandThread` (`shell/cmds/core/repeat.cpp`) | the command line, a count | a thread that calls `CLI::execute_line` | runs beside the task that feeds the same CLI, without a lock |
| `Cmd`, `CLI::find_cmd`, `CLI::execute`, `StaticForwardList` | a forest of static lists | registration, lookup of the longest path | static construction order, the base list and nested lists |
| `ArgParser`, `Arg` | token and argument arrays | `tokenize`, `validate_arg_composition`, number parsing | quotes, limits on counts, optional arguments |
| `logger::Logger`, `Module`, the log commands | message buffer, configuration | `log`, `flush_buffer`, `set_config`, `enable`, `set_level` | tasks and interrupts append to one buffer; flush and clear are two steps; configuration is changed by read-modify-write |
| `syscalls::littlefs` | a table of open files | `open`, `close`, `read`, `write`, ... | allocation without a lock; a close that fails |
| `File`, `stream.hpp`, small commands, `shell.py`, build files | none of their own | | pure I/O |

How they interact. `History` keeps its lines in a `RingBufferView<char>` and addresses
it by iterators. `CLI` owns an `Input` and a `History`, calls them for each key and
redraws the terminal row from what they return. `repeat` calls back into the `CLI` from
a thread of its own, and a command may do so from the same task. The drivers take a
FreeRTOS mutex and semaphore, call a low-level driver through virtual functions (`ll_...`),
and are called back by it from an interrupt or a thread. The logger writes to a `File`, and
its commands are shell commands. The file calls sit under the C library.

What makes each component correct:

- ring buffer: it is a bounded queue; it never touches memory outside its storage;
- streams: one call per direction at a time; every return path unlocks; a call succeeds
  for its own transfer only; no call with a finite time-out keeps the lock for ever;
- SPI: as above, and nothing is started on a channel that is busy;
- input: the buffer is a text with a cursor, whatever the bytes behind the line are;
- history: it is a list of lines, oldest dropped first, with a position for the arrows;
- CLI: the terminal shows the line the next key edits; a recall shows a whole entry; an
  executed line is remembered; a key outside a sequence is not taken for part of one;
- commands: each is linked once into its own list; a line's words are those that were
  written; the command with the longest path is run; help shows the whole tree;
- logger: no message is lost or mixed while the buffer has room; no setting is lost;
- file table: two open files never share a descriptor, and a slot is not lost.

## 2. Modules

| Module | Models | Built on |
|---|---|---|
| `BoundedFifo` | abstract: a queue of at most `Capacity` elements | |
| `RingBufferView` | `RingBufferView<T>`, slot by slot | implements `BoundedFifo` |
| `EventDrivenStream` | both directions and `Initializable`, tasks, driver | |
| `EventDrivenSpi` | the five bus operations, tasks, driver | |
| `LineEdit` | abstract: a text with a cursor | |
| `Input` | `shell::Input`, byte by byte | implements `LineEdit` |
| `HistoryList` | abstract: a list of lines with a position | |
| `HistoryRing` | the fields of `shell::History` over a queue of characters, and what its functions compute | rests on `BoundedFifo` |
| `History` | `shell::History`, called in any order | extends `HistoryRing`; implements `HistoryList` |
| `Cli` | `shell::CLI::put_char()` with a terminal | extends `HistoryRing`; composes it with `LineEdit` (implemented by `Input`) |
| `Tokens` | `ArgParser` as operators, and the writing of words as a line | |
| `Commands` | `Cmd`, its lists, `find_cmd()`, `execute()`, the rest of `execute_line()`, `help` | extends `Tokens` |
| `LogStream` | abstract: one stream of messages, delivered in order; whole, cut by a full buffer, or lost in a window | |
| `Logger` | `logger::Logger`, `Module::log()`, the log commands; tasks and interrupts | implements `LogStream` |
| `FileTable` | `syscalls::littlefs` and its table; tasks | |
| `MC...` | constants for TLC | each extends one module above |
| `..._proofs` | theorems | each extends one module above, `Cli_proofs` both `Cli` and `History` |

Conventions. Variables and definitions keep the names of the source. Operations of
single-threaded classes are one step each. Operations that tasks run side by side have a
program counter `pc` per task and one step for each access to state that another task, an
interrupt or the driver can change; callbacks and interrupts run between any two of them.

A definition called `Mutant...` is a plausible bug in the definition that follows it (a
dropped guard, an off-by-one, a missing reset). It is no part of the model: it is there to
be put in that definition's place and to see that the property it is listed with
under `mutants` is then violated.

The variable `call` of the modules that implement an abstract one records the last call
and its arguments, and has the same name in the abstract module. Without it, a buffer that
stored a wrong element would still implement the queue: the abstract step could choose
that element as its input.

History variables record what a property needs to know about the past, and no guard
reads one: `outcome` (SPI), `late` (stream), `burst`, `doomed`, `edited`, `overtaken`
(logger), `asked`, `raced`, `leaked`, `freed` (file table), `early` (commands).

### Ring buffer

`head`, `tail`, `count` and `storage` are the fields. `Push`, `PushSpan`, `Pop`, `Clear` and
`Assign` are the operations; `PushSpan` follows the code's order, drop from the head, compute
the contiguous space, copy the first chunk, copy the rest to slot 0, advance the tail.
`count` is taken modulo `SizeMod` = 2^w. Each element that is written or read, and each of the two chunks of a
span, is tested to lie in the storage (`Within`); one that does not, or a remainder by a
zero capacity, sets `ub` and leaves the other fields open. The elements a user sees, `Contents`,
are the queue of `BoundedFifo`.

### Streams

A call is `lock`, `check` (`initialized`), `give`, `drain`, `start`, `await`, `unlock`. `give` and
`drain` are the two semaphore calls that empty it before a transfer is started. The driver
holds at most one transfer per direction (`hw`): a task's, or an abandoned one once its call has
returned. It ends at any moment or never, may be refused at the start, may be dropped by
`deinit()` (`AbortsOnDeinit`), and its callback comes at once (interrupt) or later
(`pending`, thread). One task at a time calls `init()` and `deinit()`, at any moment; both are two
steps, the driver first and the flag after it.

### SPI

A call is `lock`, then per channel `ready`/`take`/`recheck` (the readiness loop), `start`, `await` per
channel, `unlock`; `write_await` goes `lock`, `check`, `await`. The channel a step is about is `ch`.
`expired` is the Timeout object of the call, shared by all its waits. The driver runs a set of
transfers (`inflight`) which end in any order, normally or not; all four callbacks give
`write_semaphore`, as the code does.

### Input, History, Cli

`Input` keeps `line_buf` byte by byte and models each `memmove` with its length, a byte read
past the buffer being arbitrary. `HistoryRing` takes the ring as a queue of characters (which
the ring buffer implements) and an iterator as an index into it; the reverse and forward
searches are `LineBegin` and `LineEnd`. `History` calls its functions in any order, `Cli` as the
keys demand. `Cli` works on the text and cursor that
`Input` implements: one action per branch of `put_char()` and `handle_escape()`, with
the characters each edit prints applied to a terminal row, one after the other. `Char` is any set of
characters without those that the recogniser, the prompt's loop or the terminal treat in a way of their own. `escape_state` has no
initialiser in the code, so it starts as any enumerator. The keys a session may receive
are one of `Keyboards`, so that one run visits editing and browsing without their product.

### Commands

`head` and `next` are the pointers of the intrusive lists; a command is itself the list of its
children. `Construct` is `Cmd::Cmd()`, in any order, as for static objects of different files: it resets the
members, which empties the command's own list, and pushes the command to the front of the list of its
parent or of the configuration. Once all commands are constructed, `execute_line` is one step:
`tokenize` over the characters of the line, `find_cmd`, `execute`, and, for the help command, the
recursion of `print_short_help` and `print_long_help`; its results stand until `Prompt`. The depths of
help are those of the code: relative in the call at the top level (depth 0), to which `resolve_cmd_depth` is added,
and absolute below it; each line that help shows records its command and how many parents' names were printed before
it. `help` without arguments reads `args.back()` of an empty span, the word before: its own name. A line
is given as the words that were written (`Tokens!Written`), so the tokenizer is held to the
writing of words and not to another tokenizer.

### Logger

A call of `log()` in a task is `Enabled` (the unlocked read of `enabled_run_time`), `LevelCheck`, `Lock`,
`Open` and `Close` of the memory file, `Check` of the threshold, `Write` and
`clear_buffer_unsafe`, `Unlock`. The message is in the buffer only when the handle is closed, and where the
handle appends was settled when it was opened; that is how `fmemopen()` in mode `a+` is used here.
`InterruptLogs` is the whole call in an interrupt: no lock, no flush. A setting is `Begin` (read the
configuration into `copy` and edit one field) and one `set_config` step per field, in any order. A
character is the number of its message and its place in it, so that a lost, repeated or swapped piece of any
message shows in `out`.

### File table

The table is `active`; `file` is what littlefs has for the slot. `open` checks the file system and
the flags; `ScanFree`, `ScanTaken`, `ScanFails` and `Claim` are the scan of `alloc()`, a step per slot,
and taking the one found; `lfs_file_open` works or fails. Every call on a descriptor begins with
`Lookup`. `lfs_file_close` closes the file even when it reports an error. `held` is what the C library
keeps: the descriptors `open()` returned, without those `close()` was called on.

## 3. Runs

Passing runs:

| Run | Instance | Distinct states | Shows |
|---|---|---|---|
| `ring_buffer` | 2 values, 4 slots, spans of 0 to 4, both modes | 10254 | fields typed and coherent, no access outside, implements `BoundedFifo` |
| `stream_timed` | 2 tasks, both directions, finite time-outs, `deinit()` may drop transfers | 177480 | locks kept and returned, drain never blocks, an early wake-up is a late callback |
| `spi_timed` | 2 tasks, `read_write`, `write`, `write_async`, `write_await`, time-outs, failures | 352264 | nothing is started on a busy channel, a quiet start is honest, the bus is given back |
| `input` | 2 characters, a buffer of 4 | 2448 | no write outside and no read but of the byte just after, implements `LineEdit` |
| `history` | all lines of 1 to 3 letters over 2, a ring of 7 | 5278 | entries framed, implements `HistoryList` |
| `cli` | three keyboards (all editing keys; browsing both ways; up from inside the line), lines of 3, a ring of 4, any first `escape_state` | 309112 | the terminal shows the line; recalls show whole entries; executed lines are kept |
| `commands` | 6 commands in 3 levels, 3 lists, every order of construction, all lines of up to 3 words of 9 kinds and some of 4 | 21676 | lists whole, words as written, longest path found, help shows the tree |
| `logger` | 2 tasks and an interrupt, a buffer of 5 with threshold 2, messages of 2 or 3 characters, 3 messages and 2 settings | 437233 | one writer, implements `LogStream`, a task's cuts come from bursts, settings lost only by overlap |
| `file_table` | 2 tasks, 2 slots, three sets of flags, littlefs may refuse anything | 803662 | descriptors unique, slots accounted for, littlefs files usable |

Runs that show a disagreement of the code with its own documentation (section 5):
`ring_buffer_overlong`, `spi_read_hangs`, `cli_finished_state`.

Why the bounds are enough to be interesting. Four slots hold every position of `head`
against `tail` with both chunks of a span longer than one, and spans as long as the
buffer overwrite all of it. Two tasks are one in the guarded region and one at the mutex,
which is all the drivers distinguish (the third would be a second one at the mutex), and
the tasks call again and again, so a transfer left behind meets several later calls. A history
of 7 holds a line of three and one of two, or three single letters, with their newlines,
and a new line overwrites nothing, part of an entry or several, at every offset. Lines of
3 in a ring of 4 let the CLI overwrite the entry it is browsing, and a line of 3 has a cursor
at the base, inside, and at the end of a full and of a partial line. Six commands
have a child and a grandchild, a name in two lists, one command with two names, a group without a function,
and a child that has the name of another command; with three arguments at most, lines of four words overflow the
buffer. A log buffer of 5 holds two messages of two, is passed by two of three, and the threshold is crossed by a
first message or by a second; three messages are one in the handle of each task and one of an interrupt, or two of an
interrupt around one of a task. Two settings are the smallest overlap. Two slots are one that a task passes in its
scan and one that it takes, and a table that two tasks fill.

Only `Logger` has unbounded counters: `MaxLog` bounds the messages, whose numbers keep them apart, and `MaxSet`
the settings. Every other run visits all reachable states of its instance.

Symmetry is used in `logger` and `file_table`, which check no liveness; the tasks are
interchangeable there, as no definition names one or orders them.

Inputs that the code does not distinguish are merged: two values where contents only need to differ; one
ignored key (`BEL`) and a plain letter for all characters with no meaning; the calls `read`
and `lseek` of a file, which differ only in the littlefs function they forward to.

`ring_buffer_overlong` and `spi_read_hangs` turn deadlock checking off: the first stops after
undefined behaviour, in the second both tasks end up waiting for ever, which is the
finding. In every other run a step is always possible.

What the properties are after:

- `RefinesFifo`, `RefinesLineEdit`, `RefinesHistoryList`: the detailed module, with the mapping
  given in its last lines, behaves as the abstract one, return values included.
- `RefinesLogStream`: what is in the file and in the buffer is one stream of messages, each appended once and in order,
  whole or up to where the buffer is full, a task's message or an interrupt's; which messages may be cut is the
  subject of `CutOnlyByBurst`. `LogStream` loses a message in one action only, `Lose`, inside a window: while a task has the
  buffer open, or has written it and not cleared it (section 5, `doomed`). A character says how many of
  its message's follow it, so a message that is cut anywhere but at a full buffer is no step of `LogStream`.
- `LockHeld`, `OneWriter`: the mutex has a holder exactly while that call is between lock and
  unlock, on all return paths.
- `DrainNeverBlocks`: `semaphore.take(portMAX_DELAY)` of the drain finds the semaphore given.
- `EarlySignalIsLate`: what the drain achieves: a signal that is not the call's own comes from a transfer
  abandoned earlier, and came after the drain. The comment of the code says more; that is `NoStaleSignal`, which is
  proved when no call times out.
- `ReadyAtStart`: at the start every channel of the operation is free, though busy was read
  steps before.
- `QuietStartIsHonest`: what `write()` guarantees: if nothing was signalled or running when it started its
  transfer, it does not succeed before the transfer ends.
- `LockReleased` (both drivers): a holder of the mutex lets go.
- `ScreenInSync`, `RecallShowsEntry`, `EnteredLineKept`: section 1. `ScreenInSync` leaves
  out a recall with the cursor inside the line, where `clear_input()` erases the wrong columns.
- `CutOnlyByBurst`: if the longest message fits above the threshold, a message of a task is cut only when there is text
  of an interrupt before it: the flush after each message makes the room the next one needs.
- `SettingKept`: a setting changes a field that it is not about only if another setting overlapped it, which happens
  as no lock is held between reading the configuration and assigning it.
- `DescriptorsUnique`, `SlotsAccounted`, `LfsFilesUsable`: as long as no two tasks have found one slot free together
  (`raced`), no two have the same slot, every taken slot has an owner or was lost to a failed close, and littlefs
  is asked to open only closed files and to use only open ones, in a mode that was asked for.
- `HeldReachesLfs`: as long as not `raced`, a descriptor that `open()` returned is not refused by the table, but
  for `write()` on 0.
- `FullWhenRefused`: `open()` reports a full table only when it is full or a slot was freed behind the scan.
- `ListsWhole`: whatever the order of construction, a command is linked once, in its own list, unless it was
  constructed before its parent.
- `WordsAsWritten`, `LongestPathFound`, `HelpShowsTree`: the pure algorithms against reference definitions that
  share nothing with them: the writing of words, the set of all paths that fit, the tree of
  commands cut at the depth that was asked for, counted from the command whose help is shown.

### Fairness

`LockReleased` assumes weak fairness of each task's steps inside the guarded region: the
FreeRTOS scheduler runs a ready task. In `EventDrivenStream` this includes the expiry of a finite time-out,
in `EventDrivenSpi` that is the fair step `Expire`. No fairness is assumed of acquiring the mutex,
of calling, or of the hardware: a transfer may never end.

`spi_read_hangs` needs the opposite: its specification also makes transfers end and callbacks
run, so that the only reason left for the wait to last is that nothing gives the semaphore.

`Logger` and `FileTable` have no liveness property. Every call there is a straight line of steps that
always can be taken but for one mutex, so that it ends would say no more than the scheduler's fairness does.

## 4. Proofs

All eight proof modules argue by an inductive invariant: `Init => Inv`, every action
preserves `Inv` (one lemma per action), `Inv` implies the property, and the last step of
each theorem combines the three with `PTL`. Action properties follow from `Inv` and one step.

| Theorem | Statement | Assumes, beyond the module's ASSUMEs |
|---|---|---|
| `RingBufferSafety` | `TypeOK`, `StaysInStorage`, `Coherent` always hold | `Capacity > 0`, `MaxSpan <= Capacity` |
| `RingBufferImplementsFifo` | `RefinesFifo`: `RingBufferView` implements `BoundedFifo` | `MaxSpan > 0`, `MaxSpan <= Capacity` |
| `StreamSafety` | `TypeOK`, `LockHeld`, `DrainNeverBlocks`, `EarlySignalIsLate` always hold | |
| `UntimedSignalIsFresh` | `NoStaleSignal` always holds | no call times out (`~CanTimeOut`) |
| `SpiSafety` | `TypeOK`, `LockHeld`, `ReadyAtStart` always hold | |
| `SpiQuietStart` | `QuietStartIsHonest` | |
| `HistorySafety` | `HistoryTypeOK`, `RecallFramed` always hold | |
| `HistoryImplementsList` | `RefinesHistoryList`: `History` implements `HistoryList` | |
| `CliTypes` | `TypeOK` of `Cli` always holds | |
| `ScreenShowsLine` | `ScreenInSync` | |
| `RecallsShowEntries` | `RecallShowsEntry` | |
| `LinesAreKept` | `EnteredLineKept` | |
| `CommandLists` | `ListsWhole` always holds | |
| `LinesRead` | `WordsAsWritten` always holds | |
| `LongestPathRuns` | `LongestPathFound` always holds | `Forest`, `NamesClear` |
| `HelpIsTree` | `HelpShowsTree` always holds | `Forest`, `NamesClear`, `HelpClear` |
| `CommandTypes` | `TypeOK` always holds | |
| `InputSafety` | `TypeOK`, `NoOverrun` always hold | |
| `InputRefinesLineEdit` | `RefinesLineEdit`: `Input` implements `LineEdit` | |
| `LoggerSafety` | `TypeOK`, `OneWriter` always hold | |
| `SettingsKept` | `SettingKept` | |
| `CutsComeFromBursts` | `CutOnlyByBurst` | the messages have a longest |
| `LoggerImplementsStream` | `RefinesLogStream`: `Logger` implements `LogStream` | the messages have a longest |
| `FileTableSafety` | `TypeOK`, `DescriptorsUnique`, `SlotsAccounted` always hold | |
| `LfsFilesSafety` | `LfsFilesUsable` always holds | every set of flags is empty or names `O_WRONLY` or `O_RDWR` |
| `HeldReachesLittlefs` | `HeldReachesLfs` | |
| `RefusedOnlyWhenFull` | `FullWhenRefused` | |

- Ring buffer. `TypeOK /\ StaysInStorage /\ Coherent` is inductive. The work is in
  arithmetic modulo `Capacity` (lemmas on `advance`) and in showing that both copies of a span end
  inside the storage. Neither assumption can be dropped: with spans of any
  length the conclusion is false (`ring_buffer_overlong`), and an empty storage takes a remainder by zero.
- Ring buffer, as a queue. The invariant says where each element stands (`Wrap`). A push is
  described by three facts: how many elements it drops (`Drops`), that the new ones stand behind the old ones
  (`Stored`) and that the old ones it does not drop were not overwritten (`Kept`); `ChunksStored` shows that
  the two copies of a span do that, `PushedContents` that the queue is then the newest `Capacity` elements of
  the concatenation. For `operator[]`, no two indices of elements name one slot. Undefined steps are out, as
  `Inv'` holds. `MaxSpan > 0` only says that the queue's `push` takes at least single elements.
- Stream. `EarlySignalIsLate` is not inductive: one must know that a transfer in the driver
  belongs to the call waiting for it (`Owned`), that it is not at the same time running and
  over (`OwnedOnce`), and that between the drain and the start only an abandoned transfer signals
  (`FreshAtStart`). When nothing times out there is no abandoned transfer, unless `deinit()`
  drops it, in which case it signals nothing; that gives `UntimedSignalIsFresh`.
- SPI. `ReadyAtStart` needs what the readiness loops have seen so far
  (`FirstStillReady`: while `read_write` looks at the second channel, the first has stayed free,
  as only the holder of the mutex starts transfers). `QuietStartIsHonest` needs `QuietFlight`: the
  transfer started in quiet is the only one, and no signal is given before it ends; and
  `ReadsUnsignalled`: nothing gives `read_semaphore`.
- Input. The invariant is `TypeOK /\ NoOverrun` with the ranges written out. For the refinement, lemmas say what the
  abstract edits are character by character (`Removed`, `Inserted`) and that each
  `memmove` produces those characters (`DeleteText`, `BackspaceText`, `InsertText`); then every
  step of `Input` is one of `LineEdit` (`EditorStep`).
- History. The recalls find their lines by searching the ring for newlines, and `Entries`, the list they are held to, is
  defined by recursion over the characters. The invariant avoids both: there are places `pos[0] < ... < pos[n]`,
  the ends of the ring and its newlines, no two next to each other except at the front, that cut the ring into
  lines (`Cuts`), and `recall_pos` is one of them. `Searches` says that the two searches go from one place to the next;
  `EntriesAre` that `Entries` is what lies between the places; `CutsEnter`, `CutsForget` and `EntriesForget` what a
  new line and the loss of the oldest `d` characters do to them, the loss of part of a line among it. `HistorySafety`
  is that invariant; for `HistoryImplementsList` every operation is shown to be the list's (`RecallStep`, `AddStep`).
  The module's assumptions are the code's: a line is not empty, has no newline, and fits the ring
  (longer lines are the ring's case of section 5).
- Command line, the screen. Every handler prints some backspaces, then characters, then backspaces (`Strokes`), so the row
  afterwards is the row before with those characters laid over it (`PrintStrokes`, `Over`). If they are the new text
  from where it differs from the old one, with blanks for what is gone, the row shows the new text (`Repaint`). One
  lemma per handler shows that its characters are that (`InsertFollows`, `DeleteFollows`, `BackspaceFollows`,
  `MoveFollows`, `ReplacedText`), from what the edits do to the text (`Inserted`, `Removed`). For `TypeOK` no more than `Good`
  is true of every state: a recall with the cursor inside the line leaves the terminal's cursor left of where it should be, so
  the invariant says that it is never right of it. `ScreenInSync` is then about each single step: in step before, in step after.
- Command line, the history. `CliInv` adds that the ring is cut into lines (`Placed`, as above) and that each of them fits
  the input (`LinesFit`), cut off ones included: a recalled entry is shown whole only because of it. A recall
  finds an entry or nothing (`RecallFound`), and an executed line is either the entry found or the last one afterwards
  (`AddGood`, `AddedIsEntry`: its newline and the one before it are next to each other in the list of places).
  The assumption that a full line fits the ring (`CapAssumption`) is what keeps `push_overwrite()` within its
  domain (section 5); a `CLI` without a history buffer is outside of it.
- Commands. `LinkInv` says that from the head of each list the pointers run through its commands, once each, and
  end (`Linked`); a constructor puts one in front and empties its own list (`ConstructLinks`), and the walk of the iterators is
  that sequence (`ChainIs`): `CommandLists`. For `LinesRead` the scanner's state after each word is said in
  full (`Ended`, or `Opened` when the next word may follow without a blank); `WordRead` is the step from one word to
  the next, with `RunConcat` (reading two texts is reading one after the other) below it. `LongestPathRuns`: the path of a
  command is the only one up to a root (`PathIs`, `PathExists`), the descent through the children
  visits the commands whose path the words name (`ReachedIs`, `MatchDown`), at most one of each
  depth (`MatchOne`), so it ends at the deepest (`DescendIs`); the first list with a hit is the one of least rank. `HelpIsTree`: a
  text of commands is ordered when each is there once and no child before its parent (`Ordered`); the recursion of
  `print_short_help` yields the ordered text of what is below a command (`Tree`, `TreeGrows`), as the texts of
  siblings have nothing in common (`FlattenOrdered`, `GroveIs`). What the code shows is that text with
  each command's depth beside it (`Mark`, `Shows`): the depth the recursion counts from `resolve_cmd_depth` on is that
  of the command's path (`DepthIs`, `KidDepth`, `HelpLinesIs`), below a command as below a root. The last word of the line
  is `--all` only where it is one of the words left for help (`LastWord`), so the read before an empty span is harmless.
  `Forest` says that no command is below itself; `NamesClear` that none answers to the empty word and no two
  of one list share a name; `HelpClear` that no list is configured twice and `--all` is the name of no command.
  The commands of the repository satisfy all three, and `MCCommands` has TLC evaluate them for its instance.
  `CommandTypes` needs none of them: a descent is as long as the line at most (`TrailExists`, `DescendTyped`) and the
  recursion of help as deep as its depth (`HelpLinesTyped`), so both end at commands, below themselves or not.
  The other theorems cannot do without: without `Forest` a path has no beginning, without `NamesClear` the first of two namesakes hides the other's
  children, without `HelpClear` a list configured twice is shown twice.
- Logger. `Inv` adds to `TypeOK` and `OneWriter` that between two flushes the buffer is within the threshold unless it
  holds text of an interrupt (`Room`), and that a setting which nothing overtook has yet to assign only what is
  configured already, but for its own field (`Fresh`). `CutsComeFromBursts` is `Room` with what an append leaves
  (`AppendedIs`, `AppendedMessage`); `SettingsKept` is `Fresh`.
- Logger, as a stream. `StreamInv` adds that messages are numbered as they come (`Numbered`) and that a doomed
  character is in the buffer only while a task is about to wipe it, behind the place where that task
  appends (`DoomedLast`). So what is left of the buffer when the doomed text is taken out (`Unwritten`) is unchanged by a burst
  that will be lost, grows at its end by what there is room for of any other message (`AppendedText`), and goes to the file whole.
- File table. `Inv` adds what keeps the slots apart: a slot about to be claimed is free and one
  task's (`ClaimsApart`), a slot a task has is active and nobody else's (`SlotsApart`), every active
  slot has an owner or is leaked (`NoneLost`), and a littlefs file is open exactly while its descriptor
  is held or about to be closed (`FilesMatch`); these four under `~raced`. `ScannedTaken`, without that
  condition, gives `FullWhenRefused`. The assumption of `LfsFilesSafety` excludes
  `O_RDONLY` with another flag, for which the conclusion is false (section 5).

Recursion without induction. The library's induction rules take a predicate as a parameter, which the
provers cannot be given. Where a definition is recursive (the entries of a ring, the walk of a list, the path and
the help of a command, the scanner, a concatenation of many texts), its function is
shown to exist, being written down in closed form or taken as the longest of its finite beginnings, and to be the
only solution of its equation: otherwise there would be a least argument at which two solutions differ (`LeastNat`, `SameFunction`,
from the well-foundedness of `<` on the naturals). A claim about every argument is proved by its least
counterexample in the same way.

Only model-checked: liveness (`LockReleased`, `ReadReturns`), which needs fairness and
ENABLED, out of the prover's reach. Every other property of a passing run is a theorem.

## 5. What the checks found

Three runs show the code doing other than its documentation says:

1. `push(span, PushMode::overwrite)` with a span longer than the buffer copies its second chunk whole
   to the start of the storage, and past its end once that chunk exceeds the capacity
   (`RingBuffer.hpp:187`, run `ring_buffer_overlong`).
2. `EventDrivenSpi`'s callbacks all give `write_semaphore`; `read()` and
   `read_write()` wait on `read_semaphore`, which nothing gives (`EventDrivenSpi.cpp:160`, run
   `spi_read_hangs`).
3. After an arrow or home key `escape_state` stays `finished`, which the recogniser treats as an open
   sequence; the next typed `[`, `3`, `~`, `H`, `A`...`D` is swallowed and a backspace deletes to the right
   (`CLI.cpp:224`, run `cli_finished_state`).

The passing properties are as strong as the code lets them be. What limits them is behaviour
a caller should know of:

4. `read()` of a stream empties the semaphore before it starts, but the transfer of a call that
   timed out may still signal afterwards; the next call then returns true without its data
   (`EventDrivenStream.hpp:55`). To see it, check `NoStaleSignal` with the constants of `stream_timed`.
5. `EventDrivenSpi::write()` does not empty its semaphore: after an asynchronous write whose signal nobody took, a
   synchronous one returns true while its transfer still runs (`EventDrivenSpi.cpp:79`). This is what "quiet"
   excludes in `QuietStartIsHonest`.
6. An interrupt that logs while a task has the buffer open loses its message, as the task's is written over it
   (`logger.cpp:123`); one that logs between the write of the buffer and its clearing loses it to
   the clearing (`logger.cpp:73`). These are the messages in `doomed`.
7. Two settings that overlap can undo each other (`cmds.cpp:23`): `overtaken` in `SettingKept`.
8. Two tasks that open a file at the same time can get one descriptor (`littlefs.cpp:28`): `raced`.
9. `lfs_file_close()` closes a file even when it reports an error; its slot is then never freed (`littlefs.cpp:132`):
   `leaked`.
10. The first file opened has descriptor 0, which `write()` refuses as the standard input (`littlefs.cpp:159`).
11. `O_RDONLY` is 0 and is recognised only when there is no other flag: with `O_CREAT`, say, the file is
    opened in no mode (`littlefs.cpp:98`).
12. A command that is constructed before its parent, in another file, disappears when the parent is constructed
    (`Cmd.cpp:25`): `early` in `ListsWhole`.
13. A recall with the cursor inside the line erases the wrong columns (`CLI.cpp:375`): the condition in `ScreenInSync`.
14. A `CLI` made without a history buffer, the default (`CLI.hpp:53`), takes a remainder by zero when the first line is executed;
    one whose history is shorter than its input runs into item 1: `CapAssumption` of `Cli`.
15. A backspace in a full line moves the text after the cursor with a byte too many: it reads one byte past the buffer
    (`Input.cpp:63`), which lands behind the line and is never shown. `NoOverrun` allows this read, and no write.

The repository's own list of things to do says "Shell backspace does not work" (`README.md:40`), without saying when. Items 3 and
15 are what was found about backspaces; otherwise the text, the cursor and the screen after one are as they should be
(`RefinesLineEdit`, `ScreenInSync`).

## 6. What is not modelled

- `RepeatCommandThread`: a second task that calls `execute_line()` of the CLI that another task feeds, without a lock.
  Two overlapping calls are a data race at almost every statement of `CLI`, `Input` and `History`; a
  composition would say no more than that anything may then happen. It is listed under the hazards.
- `QueueWriter`: a FreeRTOS queue and one task that drains it; no other file uses it.
- `ArgParser::get_positional()` is one bounds check; `Arg`'s numbers are the C++ library's; `is_alpha()`, `is_flag()` and
  `is_option()` have no caller.
- What commands other than `help` and the log commands print and return: `Commands` leaves the result open. A command
  that calls back into the CLI is left out with `repeat`.
- `set_lfs()` is called once and with a file system; the code would take another one later, or none, with
  files open on the first.
- Arguments whose role is not positional: no command has one (`RolesAssumption`). `validate_arg_composition()` would
  read past the words for one.
- Null entries of `cmd_lists`; the wording and layout of help, `print_args()` among it.
- The text of output, colours, prompts longer than two columns, the width of the terminal: the row is as long as
  the longest line. Of the logger's configuration, colour and end of line: the command for the
  first is the same macro as that for the prefix, and neither guards anything.
- Interrupts that interrupt one another inside `log()`, a mutex that cannot be taken, an output file that fails, the
  formatting of hex dumps.
- The copy constructor of `RingBuffer` (implicit, and used nowhere).
- Priorities: any ready task may run. Time: a finite time-out expires at any moment; the 10 ms slices of the SPI readiness loops
  are a wait that may end empty.
- `File`, `stream.hpp`, small commands, `shell.py`, build files: no state machine of their
  own (`PROJECT.json` gives the reason for each).
- Low-level drivers, littlefs, `fmemopen()` and FreeRTOS are external, modelled from how this code uses them.

## 7. Plan

Done: the ring buffer and its queue; the stream and SPI drivers; input, history and the CLI over them; command
lists, lookup, execution and tokenizer; the logger; the file table; the proofs of section 4.

What is left:

- `repeat` composed with the CLI at the granularity of `put_char()` and `execute_line()`, if calls were
  serialised by a lock.
