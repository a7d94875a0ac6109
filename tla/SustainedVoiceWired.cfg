SPECIFICATION LiveSpec
CONSTANTS
  MaxGen = 3
  HapticsClient = FALSE
  Menus = {"LoadingMenu"}
  LiveSettings <- SettingsMenu
  SessionLinks = {"wired"}
  RoverDriven = FALSE
  BoostpackClears = FALSE
  StartResults = {TRUE, FALSE}
  WorkerFaults = FALSE
INVARIANTS DisabledIsSilent NoPhantomAuthority
PROPERTIES EventuallySilent ImplementsLoopAuthority
