\* A machine whose cache is coherent with the camera.
CONSTANTS
  NumBuffers = 3
  CommandLines <- MCCommandLines
  DriverFormats <- MCDriverFormats
  Coherent = TRUE
  Frames = 4
SPECIFICATION FairSpec
INVARIANTS EachBufferInOnePlace ShowsTheDequeuedFrame
PROPERTIES ImplementsRing FramesAreTaken
CHECK_DEADLOCK FALSE
