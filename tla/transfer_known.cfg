SPECIFICATION CareSpec
CONSTANTS
 MaxKeys = 2
 MaxRequests = 1
 MaxClicksCare = 0
 MaxCareFaults = 1
CHECK_DEADLOCK FALSE
INVARIANTS LinksNeedOwnership
