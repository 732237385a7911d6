SPECIFICATION TreeSpec
CONSTANTS
  Key <- SmallKey
  Capacity = 5
  Ascending = FALSE
INVARIANT AcceptedAreFound
CHECK_DEADLOCK FALSE
