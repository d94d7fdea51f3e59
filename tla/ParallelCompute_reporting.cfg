CONSTANTS
  DataSize = 5
  ThreadsAsked = 3
  Reporting = TRUE
SPECIFICATION Spec
INVARIANTS
  QuietAfterReturn
  NoExceptionLost
PROPERTIES
  NoElementWrittenTwice
  ImplementsForkJoin
  CallEnds
