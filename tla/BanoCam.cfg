SPECIFICATION CamFairSpec
CONSTANT FbCount = 2
INVARIANTS
  FramesMapped
PROPERTIES
  ImageCurrent
  CaptureEnds
