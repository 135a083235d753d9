INIT ClientInit
NEXT Stay
CONSTANTS
  Programs <- MCPrograms
  Flags <- MCFlags
  Rules <- MCRules
  Flaws <- MCFlaws
INVARIANTS
  Reviewed
