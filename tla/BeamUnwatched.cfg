CONSTANTS
  Epochs = {1}
  Boosts = {}
  Shooters = {}
  Parts = {"weapon"}
  Scenarios = {{"weapon"}}
SPECIFICATION Spec
INVARIANT BeamIsWatched
