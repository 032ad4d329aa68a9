CONSTANTS
 MaxLegs = 7
 MaxBars = 3
SPECIFICATION Spec
INVARIANT PriceTwinsMirror HarmonicsStaySilent NoSideFavoured
CHECK_DEADLOCK FALSE
