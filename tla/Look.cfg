SPECIFICATION Spec
CONSTANTS
  NoAnswer = NoAnswer
  None = None
  Sources <- MCSources
  Pages <- MCPages
  Settings <- MCSettings
  Sections <- MCSections
  SectionOf <- MCSectionOf
  Top = "top"
  Lists <- MCLists
  MaxItems = 3
  NoValue = NoValue
  ValuesOf <- MCValuesOf
  Default <- MCDefault
  Texts <- MCTexts
  Occurs <- MCOccurs
  Lowered <- MCLowered
  MaxChanges = 1
  Size <- MCSize
INVARIANTS
  LookTypeOK
  ListIsTheTree
  PictureMatchesList
  
  BoxesAreBorders
CHECK_DEADLOCK FALSE
