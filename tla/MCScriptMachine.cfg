CONSTANTS
  door = door
  guard = guard
  alarm = alarm
  Scripts = {door, guard, alarm}
  NoScript = NoScript
  Results = {minus_one}
  InitialResult = minus_one
  NoResult = NoResult
  Registrations <- MCRegistrations
  MaxDepth = 3
SPECIFICATION Spec
INVARIANTS TypeOK StacksMatch
PROPERTIES HandlersServed BypassScoped
CHECK_DEADLOCK FALSE
