CONSTANTS
  Objects = {o1, o2}
  Top = 0
  Period = 1
  MaxEvents = 1
  MaxRequests = 3
  NoObject = NoObject
SPECIFICATION FairSpec
PROPERTIES RoundsEnd RequestsServed
