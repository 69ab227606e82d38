SPECIFICATION Spec
CONSTANTS
  Sessions <- Peers
  MaxCuts = 3
  Addr = {1, 2, 3, 4}
  Values = {1, 2}
  Priorities = {0, 1, 2}
  MaxPushes = 6
  Keys = {1, 2, 3, 5, 7}
  Width = 4
  Letters = {97, 98}
  MaxTokens = 3
  MaxKey = 3
INVARIANTS MadeAsSent OnceUnlessCut ListIsQueue FrontIsLeast NumbersUnique ListedIffMatched
\* what peers send, and the calls of the heap, end
CHECK_DEADLOCK FALSE
