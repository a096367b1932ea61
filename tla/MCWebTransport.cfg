SPECIFICATION Spec
CONSTANTS
  Base = 21
  EventBit = 10
  IdWidth = 1
  PortWidth = 2
  LengthWidth = 1
  BacklogWidth = 2
  DefaultBacklog = 3
  PrefixWidth = 2
  MaxFrame = 28
  Requests <- MCRequests
  Events <- MCEvents
  OtherFrames <- MCOtherFrames
  MaxMessages = 2
INVARIANT TypeOK
PROPERTIES
  RequestsArriveInOrder
  EventsArriveInOrder
  RequestsTaken
  EventsHandled
  EndIsSeen
CHECK_DEADLOCK FALSE
