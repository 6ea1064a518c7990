CONSTANTS
  MaxInteger = 99
  MaxOrder = 20
  Units <- MCUnits
  Spellings <- MCSpellings
  Texts <- MCTexts
SPECIFICATION Spec
INVARIANTS TypeOK LongestWords RoundTrip NothingSkipped
PROPERTIES EveryTurnAdvances
CHECK_DEADLOCK FALSE
