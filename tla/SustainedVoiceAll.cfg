SPECIFICATION Spec
CONSTANTS
  MaxGen = 3
  HapticsClient = TRUE
  Menus = {"LoadingMenu"}
  LiveSettings <- SettingsMenu
  SessionLinks = {"wired", "bluetooth"}
  RoverDriven = TRUE
  BoostpackClears = TRUE
  StartResults = {TRUE, FALSE}
  WorkerFaults = TRUE
INVARIANTS TypeOK NoAuthorityWhileBlocked OneTransportHoldsVoice
PROPERTIES NoOrphanLoop
