\* All pairs with up to 100 matches: 29/50, 29/100, 57/100 and 58/100 are the
\* ones among them that the floating point arithmetic gets wrong.
CONSTANTS
  MaxMatches = 100
  Corrections = {0, 29}
SPECIFICATION TallySpec
INVARIANT
  PercentageWithinOne
PROPERTY
  ResultsPushTheRightWay
