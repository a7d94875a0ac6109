CONSTANTS
  Epochs = {1, 2}
  Boosts = {"forward"}
  Shooters = {"wwise"}
  Parts = {"ship", "rumble", "vehicle", "weapon", "jet", "settings", "link"}
  Scenarios = {{"vehicle"}, {"weapon"}, {"jet", "settings"}, {"jet", "ship"},
               {"link", "jet"}, {"rumble"}}
SPECIFICATION Spec
INVARIANTS TypeOK ContextOwnsEffects OrderedIsGranted
PROPERTY LeasesEnd
