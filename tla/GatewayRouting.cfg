\* Three masters: a default one may stand anywhere among two others, which
\* have three ranges in all, two of them perhaps at one.  Unit ids 1 and 2 are
\* legal, 0 and 3 are not, 4 does not fit.
SPECIFICATION FairSpec
CONSTANTS
  UnitMod = 4
  UnitIdMin = 1
  UnitIdMax = 2
  MaxMasters = 3
  MaxRanges = 2
  MaxTotal = 3
INVARIANTS
  TypeOK
  DefaultIsFirst
  RouteAsConfigured
  SetInBounds
PROPERTY StartupEnds
\* The gateway serves, or has refused its configuration.
CHECK_DEADLOCK FALSE
