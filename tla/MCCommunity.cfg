SPECIFICATION Spec
CONSTANTS
  Students = {"s1", "s2"}
  Courses = {"c"}
  Sessions = {"p1", "p2"}
  OldLikes <- MCOldLikes
  OldComments <- MCOldComments
  FirstId = 3
  MaxOperations = 3
  None = None
INVARIANTS
  TypeOK
  CountsMatchRows
  NotifiedOfFacts
  PublishedNotLost
PROPERTIES
  ReadStaysRead
CHECK_DEADLOCK FALSE
