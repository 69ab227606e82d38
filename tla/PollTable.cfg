SPECIFICATION EitherServer
CONSTANTS
  Connections = {a, b}
  Listener = Listener
  Gone = Gone
  Null = Null
  Faults = TRUE
INVARIANTS TypeOK TableOK RecvDoesNotBlock TableStaysSmall
PROPERTIES DataIsRead HangUpIsReaped BacklogIsAccepted
\* the loop ends when poll or accept fails
CHECK_DEADLOCK FALSE
