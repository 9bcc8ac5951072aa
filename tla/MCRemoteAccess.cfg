SPECIFICATION MCSpec
CONSTANTS
  AuthThreads = {c1, c2}
  Devices = {d1, d2}
  DeviceNames = {laptop}
  MaxPairs = 3
  NoDevice = nodevice
  Focus = {"server", "tasks", "faults"}
  MaxFaults = 2
SYMMETRY Symmetry
INVARIANTS
  BrokerTypeOK
  OneOwner
  ReplacedOnce
  RevokedStaysOut
  CredentialSurvives
  DeniedIsReal
  RejectedNotResent
  LogoutErases
PROPERTY NoPairForRevoked
CHECK_DEADLOCK FALSE
