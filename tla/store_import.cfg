SPECIFICATION Spec
CONSTANTS
  old = old
  counter = counter
  ticket = ticket
  running = running
  paused = paused
  None = None
  Keys = {old, counter, ticket}
  LocalKeys = {ticket}
  PurgedKeys = {ticket}
  JobKeys = {old}
  Values = {running, paused}
  Written = {running}
  Paused <- OnePause
  Legacy <- JobAndTicket
  Readers = {r1}
  Listers = {l1, l2}
  MaxTime = 1
INVARIANTS
  TypeOK
  ListAgreesWithGet
PROPERTIES
  ImplementsKeyValue
  ReadIsCurrent
