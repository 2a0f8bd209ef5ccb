CONSTANTS
  Catalog <- MCCatalog
  Samples <- MCSamples
SPECIFICATION CLISpec
INVARIANTS DangerNeedsUnderstanding ExitZeroTrustworthy TargetNeverPartial
