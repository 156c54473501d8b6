SPECIFICATION Spec
CONSTANTS
  s1 = s1
  s2 = s2
  Sessions = {s1}
  Owner = owner
  OwnerKinds = {"AutoDj"}
  Envs = {{"reload"}}
  None = None
PROPERTY StopEndsTask
