SPECIFICATION Spec
CONSTANTS
  MaxGen = 2
  HapticsClient = FALSE
  Menus = {"LoadingMenu"}
  LiveSettings <- FixedSettings
  SessionLinks = {"bluetooth"}
  RoverDriven = FALSE
  BoostpackClears = FALSE
  StartResults = {TRUE}
  WorkerFaults = FALSE
PROPERTIES ReconnectStartsSilent
