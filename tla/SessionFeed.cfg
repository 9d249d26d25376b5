CONSTANTS
  MaxEvents = 3
  MaxRestarts = 1
  MaxDrops = 1
SPECIFICATION Spec
INVARIANTS FollowerIsCurrent FramesAreInOrder NothingIsStranded
