SPECIFICATION FairSpec
CONSTANTS
  Ids = {1, 2}
  Menus = {"PauseMenu"}
  MaxSel = 3
  Slots = 1
  RequestCap = 1
  ResultCap = 2
  QueueCap = 3
  MixerCap = 1
  Overlapping = {"menu", "settings", "client"}
INVARIANTS TypeOK Bounded PendingIsCurrent NoMusicInMenu NoMusicWhenDisabled NoMusicAfterEnd NoMusicWithoutClient
PROPERTIES MenuSilences
