------------------------------ MODULE Commands ------------------------------
(***************************************************************************)
(* The shell's commands: static objects that link themselves into lists    *)
(* when they are constructed (Cmd.cpp, StaticForwardList.hpp), and the     *)
(* execution of a line, which finds a command by the words of its path,    *)
(* checks its arguments and calls its function (CLI.cpp).  The help        *)
(* command, which walks the same lists, is modelled whole; what another    *)
(* command does is left open.                                              *)
(*                                                                         *)
(* A word of a line is a sequence of characters, a command's name the set  *)
(* of the words it answers to ("help,?").  A line of help is the command   *)
(* it is about and the number of parents whose names precede it.           *)
(***************************************************************************)
EXTENDS Tokens

CONSTANTS
  Cmd,        \* the commands
  cmd_help,   \* one of them
  cmd_lists,  \* config.cmd_lists: a sequence of lists
  CfgOf,      \* per command, its Cfg: parent_cmd, cmd_list, name, args (their
              \* roles), fn (whether it has a function)
  Lines,      \* the lines that are executed, each a sequence of written words
  All         \* the word --all

\* The characters of the lines, but for the quotes and blanks between the words.
Letter ==
  UNION {UNION {{words[i].text[k] : k \in DOMAIN words[i].text} : i \in DOMAIN words} :
           words \in Lines}
WrittenWord == [text : Seq(Letter), quote : Quotes \union {None}, gap : BOOLEAN]

Lists == {cmd_lists[i] : i \in DOMAIN cmd_lists} \union Cmd
Parent(c) == CfgOf[c].parent_cmd
ListOf(c) == IF Parent(c) /= None THEN Parent(c) ELSE CfgOf[c].cmd_list

ASSUME CmdAssumption == IsFiniteSet(Cmd) /\ cmd_help \in Cmd /\ None \notin Cmd
\* A list is no command, and no command is its own parent.
ASSUME ListsAssumption == cmd_lists \in Seq(Lists \ Cmd)
ASSUME ParentAssumption ==
  \A c \in Cmd : IF Parent(c) = None THEN ListOf(c) \in Lists \ Cmd ELSE Parent(c) \in Cmd \ {c}
\* As those of the repository are, so that their check never reads past them.
ASSUME RolesAssumption ==
  \A c \in Cmd : \A i \in DOMAIN CfgOf[c].args : CfgOf[c].args[i] = Positional
ASSUME LinesAssumption == \A words \in Lines : words \in Seq(WrittenWord) /\ Legible(words)

VARIABLES
  constructed,  \* the commands whose constructor has run
  head,         \* per list, its first command; a command's children are a list
  next,         \* per command, StaticForwardListNode::next
  early,        \* history: commands constructed before their parent
  busy,         \* a line has been executed and its results stand
  typed,        \* the words written in that line
  closed,       \* whether the line's last quote is closed
  args,         \* the words tokenize() found, or Failed
  found,        \* what find_cmd() returned: a command, or None, and the rest
  called,       \* the command whose function was called, or None
  shown,        \* the lines help printed: a command, after how many parents
  last_err,     \* CLI::last_err
  ret           \* what execute_line() returned

lineVars == <<busy, typed, closed, args, found, called, shown, last_err, ret>>
vars == <<constructed, head, next, early, lineVars>>

(***************************************************************************)
(* Construction.  A definition named Mutant... is not part of the model:   *)
(* it is a plausible bug in the definition after it, kept to show that the *)
(* properties notice it.                                                   *)
(***************************************************************************)
MutantPushDropsRest(list, c) ==
  /\ head' = [head EXCEPT ![c] = None, ![list] = c]
  /\ next' = [next EXCEPT ![c] = None]
\* The members of a new command are empty; then it goes to the front of its list.
push_front(list, c) ==
  /\ head' = [head EXCEPT ![c] = None, ![list] = c]
  /\ next' = [next EXCEPT ![c] = head[list]]

\* Cmd::Cmd(), in any order: that of objects in different files is unspecified.
Construct(c) ==
  /\ c \notin constructed
  /\ constructed' = constructed \union {c}
  /\ push_front(ListOf(c), c)
  /\ early' = IF Parent(c) \in Cmd \ constructed THEN early \union {c} ELSE early
  /\ UNCHANGED lineVars

(***************************************************************************)
(* Lookup                                                                  *)
(***************************************************************************)
\* The list from its first command on, as the iterators walk it.
Chain(list) ==
  LET node[n \in 1..Cardinality(Cmd)] ==
        IF n = 1 THEN head[list] ELSE IF node[n - 1] = None THEN None ELSE next[node[n - 1]]
  IN  [n \in 1..Cardinality({m \in DOMAIN node : node[m] /= None}) |-> node[n]]

matches_any_token(word, c) == word \in CfgOf[c].name

\* find_cmd_by_name() and find_child_cmd_by_name().
FindIn(list, word) ==
  LET hit == SelectInSeq(Chain(list), LAMBDA c : matches_any_token(word, c))
  IN  IF hit = 0 THEN None ELSE Chain(list)[hit]

\* From a command of a list, down its children as long as a word names one.
Descend(c, words) ==
  LET path[i \in DOMAIN words] ==
        IF i = 1 THEN c
        ELSE IF path[i - 1] = None THEN None ELSE FindIn(path[i - 1], words[i])
      depth == CHOOSE i \in DOMAIN words :
                 path[i] /= None /\ \A j \in i + 1..Len(words) : path[j] = None
  IN  [cmd |-> path[depth], rest |-> SubSeq(words, depth + 1, Len(words))]

NotFound == [cmd |-> None, rest |-> <<>>]

MutantFindInLast(words) ==
  LET hit == SelectLastInSeq(cmd_lists, LAMBDA l : FindIn(l, words[1]) /= None)
  IN  IF words = <<>> \/ words[1] = <<>> \/ hit = 0 THEN NotFound
      ELSE Descend(FindIn(cmd_lists[hit], words[1]), words)
find_cmd(words) ==
  LET hit == SelectInSeq(cmd_lists, LAMBDA l : FindIn(l, words[1]) /= None)
  IN  IF words = <<>> \/ words[1] = <<>> \/ hit = 0 THEN NotFound
      ELSE Descend(FindIn(cmd_lists[hit], words[1]), words)

(***************************************************************************)
(* The help command.                                                       *)
(***************************************************************************)
depth_of_all == 7

\* c, its parent, that one's parent, and so on, then None.
Ancestry(c) ==
  LET up[n \in 1..Cardinality(Cmd)] ==
        IF n = 1 THEN c ELSE IF up[n - 1] = None THEN None ELSE Parent(up[n - 1])
  IN  up

resolve_cmd_depth(c) == Cardinality({n \in 2..Cardinality(Cmd) : Ancestry(c)[n] /= None})

HelpLine == [cmd : Cmd, depth : Nat]

\* The calls of print_short_help() below the top level, their depths absolute: the
\* command's line and, short of max_depth, its children one deeper.  n counts the
\* levels that are left.
HelpLines(c, max_depth, depth) ==
  LET levels == IF depth < max_depth THEN max_depth - depth ELSE 0
      help[n \in 0..levels] ==
        [x \in Cmd |->
           LET line == [cmd |-> x, depth |-> (depth + levels) - n]
               kids == Chain(x)
           IN  IF n = 0 THEN <<line>>
               ELSE <<line>> \o FlattenSeq([i \in DOMAIN kids |-> help[n - 1][kids[i]]])]
  IN  help[levels][c]

\* Depth 0 is the top-level call, whose depths are relative to the command.
print_short_help(c, max_depth, depth) ==
  LET curr_cmd_depth == IF depth = 0 THEN resolve_cmd_depth(c) ELSE 0
  IN  HelpLines(c, max_depth + curr_cmd_depth, depth + curr_cmd_depth)

MutantLongHelpRelative(c, max_depth, depth) ==
  LET kids == Chain(c)
  IN  print_short_help(c, 0, 0) \o
        (IF depth >= max_depth THEN <<>>
         ELSE FlattenSeq([i \in DOMAIN kids |-> print_short_help(kids[i], max_depth, depth + 1)]))
print_long_help(c, max_depth, depth) ==
  LET curr_cmd_depth == IF depth = 0 THEN resolve_cmd_depth(c) ELSE 0
      top == max_depth + curr_cmd_depth
      here == depth + curr_cmd_depth
      kids == Chain(c)
  IN  print_short_help(c, 0, 0) \o
        (IF here >= top THEN <<>>
         ELSE FlattenSeq([i \in DOMAIN kids |-> print_short_help(kids[i], top, here + 1)]))

Overview(max_depth) ==
  LET roots == FlattenSeq([i \in DOMAIN cmd_lists |-> Chain(cmd_lists[i])])
  IN  FlattenSeq([i \in DOMAIN roots |-> print_short_help(roots[i], max_depth, 0)])

\* rest is where words end; when it is empty, args.back() is the word before it.
Help(words, rest) ==
  LET all == words[Len(words)] = All
      target == find_cmd(rest).cmd
  IN  IF Len(rest) = (IF all THEN 1 ELSE 0)
      THEN [shown |-> Overview(IF all THEN depth_of_all ELSE 0), err |-> "ok"]
      ELSE IF target /= None
      THEN [shown |-> print_long_help(target, IF all THEN depth_of_all ELSE 1, 0), err |-> "ok"]
      ELSE [shown |-> <<>>, err |-> "unknownCmd"]

(***************************************************************************)
(* Execution                                                               *)
(***************************************************************************)
\* execute(), of a command that was found by the words.
Execute(words, f) ==
  IF ~CfgOf[f.cmd].fn THEN called' = None /\ shown' = <<>> /\ last_err' = "unexpected"
  ELSE IF ~validate_arg_composition(CfgOf[f.cmd].args, f.rest)
  THEN called' = None /\ shown' = <<>> /\ last_err' = "badArg"
  ELSE /\ called' = f.cmd
       /\ IF f.cmd = cmd_help
          THEN LET help == Help(words, f.rest) IN shown' = help.shown /\ last_err' = help.err
          ELSE shown' = <<>> /\ last_err' \in {"ok", "badArg", "fail"}

\* execute_line(), but for the history, which is in the module Cli.
execute_line(words, complete) ==
  /\ constructed = Cmd
  /\ busy' = TRUE /\ typed' = words /\ closed' = complete
  /\ args' = tokenize(IF complete THEN Line(words) ELSE Line(words) \o <<"'">>)
  /\ found' = IF args' = Failed THEN NotFound ELSE find_cmd(args')
  /\ ret' = (args' /= Failed /\ (args' = <<>> \/ found'.cmd /= None))
  /\ IF found'.cmd /= None THEN Execute(args', found')
     ELSE /\ called' = None /\ shown' = <<>>
          /\ last_err' = IF args' = Failed THEN "badArg"
                         ELSE IF args' = <<>> THEN "ok" ELSE "unknownCmd"
  /\ UNCHANGED <<constructed, head, next, early>>

\* input.clear() and the next prompt.
Prompt ==
  /\ busy /\ busy' = FALSE
  /\ typed' = <<>> /\ closed' = TRUE /\ args' = <<>> /\ found' = NotFound
  /\ called' = None /\ shown' = <<>> /\ last_err' = "ok" /\ ret' = FALSE
  /\ UNCHANGED <<constructed, head, next, early>>

Init ==
  /\ constructed = {} /\ early = {}
  /\ head = [l \in Lists |-> None] /\ next = [c \in Cmd |-> None]
  /\ busy = FALSE /\ typed = <<>> /\ closed = TRUE /\ args = <<>> /\ found = NotFound
  /\ called = None /\ shown = <<>> /\ last_err = "ok" /\ ret = FALSE

Next ==
  \/ \E c \in Cmd : Construct(c)
  \/ ~busy /\ \E words \in Lines, complete \in BOOLEAN : execute_line(words, complete)
  \/ Prompt

Spec == Init /\ [][Next]_vars

(***************************************************************************)
(* Properties                                                              *)
(***************************************************************************)
Err == {"ok", "fail", "badArg", "unknownCmd", "unexpected"}

TypeOK ==
  /\ constructed \subseteq Cmd /\ early \subseteq constructed
  /\ head \in [Lists -> Cmd \union {None}] /\ next \in [Cmd -> Cmd \union {None}]
  /\ busy \in BOOLEAN /\ closed \in BOOLEAN /\ ret \in BOOLEAN /\ last_err \in Err
  /\ args = Failed \/ Len(args) <= ArgsMax
  /\ {found.cmd, called} \subseteq Cmd \union {None} /\ Len(found.rest) <= ArgsMax
  /\ \A i \in DOMAIN shown : shown[i] \in HelpLine

\* Whatever the order of construction, each command is linked once, in its own
\* list, except one whose parent is constructed after it: that wipes it out.
ListsWhole ==
  \A list \in Lists, c \in Cmd :
    Cardinality({i \in DOMAIN Chain(list) : Chain(list)[i] = c}) =
      IF c \in constructed /\ list = ListOf(c) /\ ~(c \in early /\ Parent(c) \in constructed)
      THEN 1 ELSE 0

\* From the command without a parent down to c.
Path(c) ==
  LET up == Ancestry(c)
      depth == Cardinality({n \in DOMAIN up : up[n] /= None})
  IN  [i \in 1..depth |-> up[depth + 1 - i]]

Depth(c) == Len(Path(c))
Registered == {c \in Cmd : \A i \in 1..Depth(c) : Path(c)[i] \notin early}

\* What the commands are assumed to be where a property is proved for all of
\* them: no command is below itself, none answers to the empty word, and none
\* shares a name with another of its list.
Forest ==
  \E level \in [Cmd -> 1..Cardinality(Cmd)] :
    \A c \in Cmd : Parent(c) \in Cmd => level[Parent(c)] < level[c]
NamesClear ==
  /\ \A c \in Cmd : <<>> \notin CfgOf[c].name
  /\ \A c, d \in Cmd :
       c /= d /\ ListOf(c) = ListOf(d) => CfgOf[c].name \intersect CfgOf[d].name = {}

\* And where help is proved to show them: no list is configured twice, and --all
\* is the name of no command.
HelpClear ==
  /\ \A i, j \in DOMAIN cmd_lists : cmd_lists[i] = cmd_lists[j] => i = j
  /\ \A c \in Cmd : All \notin CfgOf[c].name

\* Whether the words begin with a name of each command on c's path.
Names(c, words) ==
  Depth(c) <= Len(words) /\ \A i \in 1..Depth(c) : words[i] \in CfgOf[Path(c)[i]].name
\* The place of c's list in the configuration.
Rank(c) == Min({i \in DOMAIN cmd_lists : cmd_lists[i] = ListOf(Path(c)[1])})

LongestPath(words, f) ==
  LET fits == {c \in Registered : Names(c, words)}
  IN  /\ f.cmd = None <=> fits = {}
      /\ f.cmd /= None =>
           /\ f.cmd \in fits
           /\ SubSeq(words, 1, Depth(f.cmd)) \o f.rest = words
           /\ \A c \in fits : Rank(f.cmd) < Rank(c) \/
                             (Rank(f.cmd) = Rank(c) /\ Depth(c) <= Depth(f.cmd))

\* The words of a line are those that were written, through quotes, blanks and
\* their absence; an open quote or a word too many is refused.
WordsAsWritten ==
  busy => args = IF closed /\ Len(typed) <= ArgsMax THEN Texts(typed) ELSE Failed

\* A line runs the command with the longest path of names that begins it, of
\* the first list that has any, and passes it the words that are left.
LongestPathFound == busy /\ args /= Failed => LongestPath(args, found)

\* Help shows each command below the one asked for, to the depth asked for, once,
\* after its parent, and each after the names of all its parents and no more than
\* those; without words it shows the commands of all lists, whatever word comes
\* before, and only a command that there is not is an error.
HelpShowsTree ==
  busy /\ called = cmd_help =>
    LET rest == found.rest
        all == rest /= <<>> /\ rest[Len(rest)] = All
        asked == Len(rest) > IF all THEN 1 ELSE 0
        target == find_cmd(rest).cmd
        depth == IF all THEN depth_of_all ELSE IF target = None THEN 0 ELSE 1
        below(c) == IF target = None THEN Depth(c) - 1 <= depth
                    ELSE \E i \in 1..Depth(c) : Path(c)[i] = target /\ Depth(c) - i <= depth
    IN  IF asked /\ target = None THEN last_err = "unknownCmd" /\ shown = <<>>
        ELSE /\ last_err = "ok"
             /\ {shown[i].cmd : i \in DOMAIN shown} = {c \in Registered : below(c)}
             /\ \A i \in DOMAIN shown : shown[i].depth = Depth(shown[i].cmd) - 1
             /\ \A i, j \in DOMAIN shown :
                  /\ shown[i].cmd = shown[j].cmd => i = j
                  /\ shown[i].cmd = Parent(shown[j].cmd) => i < j
=============================================================================
