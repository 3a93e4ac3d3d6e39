SPECIFICATION ReadingSpec
CHECK_DEADLOCK FALSE
CONSTANTS
  Parts = {"page", "tree", "plan"}
  Homes <- OneRowEach
  CacheBlocks = 2
  Actions = {"append", "delete", "import", "add_group", "rename_group", "delete_group"}
  MaxActs = 2
  MaxTaught = 1
  MaxDialogs = 1
  Entries <- SixWords
  Sounds = {8, 9}
  Letters = {1, 2, 3}
  MaxText = 4
  Messages <- ThreePieces
  Authors <- NobodyOrTeach
  Fixed <- ClosingBlock
  Words <- TwoLetters
  Limits = {4, 99}
  NoLimit = 99
  MaxDigits = 1
INVARIANTS EditorTypeOK  TreeIsFaithful PlansAreFaithful
PROPERTIES TypedIsCommitted
