SPECIFICATION StartupSpec
CONSTANTS
  None = None
  u1 = u1
  u2 = u2
  blue = blue
  green = green
  Users <- MCUsers
  Instances <- MCInstances
  Deployments <- MCDeployments
  Schemas <- MCSchemas
  PresentedKeys <- MCPresentedKeys
  MaxCrashes = 1
INVARIANTS
  StartupTypeOK
  ReadyWindow
  UsersBeforeReady
  PrincipalIsConfigured
  AcceptedSettingsCompose
PROPERTIES
  OnlyOvertakenStartsFail
  Recovers
CHECK_DEADLOCK FALSE
