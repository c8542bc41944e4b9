\* Two lists that are reloaded and changed by other calls.
CONSTANTS
  Char = {"a", "b", "A", "B", ".", "*", "[", " ", "#"}
  Domain <- Names
  Argument <- Arguments
  BlockFiles <- BlockLines
  WhiteFiles <- WhiteLines
  NoFile = NoFile
SPECIFICATION Spec
INVARIANTS VerdictIsRight ReloadIsComplete ReloadWindow
PROPERTY ImplementsNameLists
