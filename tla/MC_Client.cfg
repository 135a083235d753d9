SPECIFICATION ClientSpec
CONSTANTS
  Programs <- MCPrograms
  Flags <- MCFlags
  Rules <- MCRules
  Flaws <- MCFlaws
INVARIANTS
  UsesExist
  NothingOverwritten
  NothingOutlivesDisplay
PROPERTIES
  ChildrenFirst
CHECK_DEADLOCK FALSE
