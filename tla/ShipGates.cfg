CONSTANTS
  Families = {"ballistic", "laser"}
  Objects = {"a"}
  Duplicate = 1
  Skew = 0
  Before = 0
  Forward = 0
  Menus = {"Data", "Pause"}
  MaxTime = 2
SPECIFICATION Spec
INVARIANTS TypeOK GateFollowsGame FirstPostIsGuarded
