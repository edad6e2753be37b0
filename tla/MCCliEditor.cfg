SPECIFICATION Spec
CONSTANTS
  HistorySize = 4
  NUL = NUL
  Invitation <- MCInvitation
  Names <- MCNames
  Toggling <- MCToggling
  Letter = {"a", "b", " "}
  Typed = {"a", "b"}
  Blank = " "
  CmdMaxSize = 6
  MaxLineLength = 6
INVARIANTS TypeOK SizesAgree ScreenShowsLine HistoryIsRecent CompletionIsCommon
