CONSTANTS
  Catalog <- MCCatalog
  Samples <- MCSamples
SPECIFICATION CLISpec
INVARIANT UncleanRunReturnsThree
