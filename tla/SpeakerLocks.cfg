SPECIFICATION Spec
CONSTANTS
  HapticsClient = FALSE
  LinkChanges = TRUE
  SettingsApplied = TRUE
INVARIANTS CirclesOnlyInTeardown CallbackOutsideTransportLocks
CHECK_DEADLOCK FALSE
