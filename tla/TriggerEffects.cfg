SPECIFICATION Spec
CONSTANTS
  Weapons = {"microgun", "eon", "charge", "cutter", "arc", "modded"}
  Scenarios = {{"foot", "settings"}, {"foot", "launch"}, {"ship", "launch"}, {"ship", "settings"}, {"rover", "launch"}, {"rover", "settings"}, {"light", "settings"}}
INVARIANT EffectsAreOwned
PROPERTIES OnlyShotsKick EffectsEnd
