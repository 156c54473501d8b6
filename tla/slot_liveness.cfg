SPECIFICATION Spec
CONSTANTS
  s1 = s1
  s2 = s2
  Sessions = {s1}
  Owner = owner
  OwnerKinds = {"AutoDj", "Relay"}
  Envs = {{}, {"bad_password", "bad_codec", "kick", "slow_release", "reload"}}
  None = None
PROPERTIES
  OwnerNotStranded
  HandshakeTerminates
  DisconnectWakesOwner
  StopEndsFreeTask
