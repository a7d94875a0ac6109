SPECIFICATION Spec
CONSTANTS
  Events = {"SpaceshipHud", "Loading", "Fader"}
  Concurrent = FALSE
  Prompt = TRUE
  Unconfirmed = TRUE
INVARIANT TakeoffLeavesGround
