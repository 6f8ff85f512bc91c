SPECIFICATION Spec
CONSTANTS
  Characters <- AllCharacters
  Helps <- AllHelps
  LabelLists <- AllLists
  MaxLength = 3
INVARIANTS
  TypeOK
  LabelsReadBack
  HelpReadsBack
CHECK_DEADLOCK FALSE
