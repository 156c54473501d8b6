SPECIFICATION SafetySpec
CONSTANTS
  s1 = s1
  s2 = s2
  Sessions = {s1}
  Owner = owner
  OwnerKinds = {"Relay"}
  Envs = {{}}
  None = None
INVARIANT ClaimInstalledToken
