\* Two names, so that an adapter that has forgotten a sandbox can make another.
CONSTANTS
  Names = {n1, n2}
  NoName = NoName
  MaxCalls = 5
SPECIFICATION UseFairSpec
INVARIANTS ContainerNeverForgotten FirstDestroyRemovesAll CreateNilMeansRunning
PROPERTIES ForeignContainerKept DeadlinedCallsReturn
