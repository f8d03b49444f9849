CONSTANTS
  Events = {e1}
  Scripts = {s1, s2, s3}
  NoScript = NoScript
  MaxCount = 2
  MaxDepth = 2
SPECIFICATION Spec
INVARIANTS TypeOK SlotsPacked
PROPERTIES ImplementsRegistry EveryScriptServed BypassHonoured
CHECK_DEADLOCK FALSE
