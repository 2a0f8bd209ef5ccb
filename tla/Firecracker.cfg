\* Launchers and builders end, and the boots are bounded.
CONSTANTS
  Launchers = {"l1", "l2"}
  Builders = {"b1", "b2"}
  None = "none"
  Images <- MCImages
  Settings <- MCSettings
  MaxBoots = 3
  Parts = {"launcher", "rootfs", "guest"}
SPECIFICATION MCSpec
INVARIANTS
  LauncherCleansUp RestingImageComplete FailureLeavesNothing RunsAreAttested
PROPERTIES
  LoserKeepsOthersTap ToldLauncherEnds
CHECK_DEADLOCK FALSE
