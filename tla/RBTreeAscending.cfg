SPECIFICATION TreeSpec
CONSTANTS
  Key <- MCKey
  Capacity = 10
  Ascending = TRUE
INVARIANTS NoElementIsLost AcceptedAreFound PrintsInOrder IsRedBlack StackNeverUnderflows
