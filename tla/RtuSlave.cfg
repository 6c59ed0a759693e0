\* Four requests and as many ids: the ids wrap, and up to three late answers
\* compete for the latest request.
SPECIFICATION FairSpec
CONSTANTS
  MaxRequests = 4
  TidMod = 4
INVARIANT TypeOK
PROPERTIES
  LineDrained
  ImplementsSession
\* The line's master stops after its last request.
CHECK_DEADLOCK FALSE
