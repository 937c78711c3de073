SPECIFICATION Spec
CONSTANTS
  s1 = s1
  s2 = s2
  None = None
  NGens = 2
  NIntents = 2
  Key = {k1}
  Attr = {a1}
  Scope = {s1, s2}
  Shape <- Mixed
  Op = {o1}
INVARIANTS IntentAppliedOnce
PROPERTIES ManifestHonoured RetirementIsJustified ImplementsFleetHistory
CHECK_DEADLOCK FALSE
