SPECIFICATION Spec
CONSTANTS
  Events = {"SpaceshipHud", "Loading", "Fader", "Takeoff", "Data"}
  Concurrent = FALSE
  Prompt = TRUE
  Unconfirmed = FALSE
INVARIANTS FeltIsOwned TakeoffLeavesGround OneThump
