CONSTANTS
  Cmd <- MCCmd
  cmd_help = "help"
  cmd_lists <- MCLists
  CfgOf <- MCCfgOf
  Lines <- MCLines
  All <- MCAll
  ArgsMax = 3
SPECIFICATION Spec
INVARIANTS TypeOK ListsWhole WordsAsWritten LongestPathFound HelpShowsTree
