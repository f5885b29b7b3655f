SPECIFICATION FairRemovalSpec
CONSTANTS
  MaxMischief = 2
PROPERTIES
  RemnantNeverDestroyed
CHECK_DEADLOCK FALSE
