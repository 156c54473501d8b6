SPECIFICATION SafetySpec
CONSTANTS
  s1 = s1
  s2 = s2
  Sessions = {s1, s2}
  Owner = owner
  OwnerKinds = {"AutoDj"}
  Envs = {{}}
  None = None
PROPERTY PreemptsOwnerOnly
