\* An image of the builder, booted once by the launcher.
CONSTANTS
  Launchers = {"l1"}
  Builders = {"b1"}
  None = "none"
  Images <- BuiltImage
  Settings <- PlainSettings
  MaxBoots = 1
  Parts = {"guest"}
SPECIFICATION MCSpec
INVARIANT SealedMarkerAccepted
CHECK_DEADLOCK FALSE
