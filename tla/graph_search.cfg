SPECIFICATION FairSpec
CONSTANTS
  Sizes = {2, 3, 4, 5}
  Circular = {2, 3, 4}
  MaxClasses = 3
INVARIANTS PathsSimple EachPathOnce BandsBounded
PROPERTY SearchReturns
