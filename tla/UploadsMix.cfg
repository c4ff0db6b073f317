CONSTANTS
  t1 = t1
  t2 = t2
  c1 = c1
  u1 = u1
  u2 = u2
  CAM01 = CAM01
  f1 = f1
  f2 = f2
  d1 = d1
  d2 = d2
  d3 = d3
  d4 = d4
  d5 = d5
  NoThread = NoThread
  Off = Off
  Threads <- TwoThreads
  Cameras <- ThreeCameras
  Default <- CAM01
  Uploads <- Uploaded
  Streams <- TwoStreams
  Keys <- KeysToFour
  Ttl = 0
  Window = 2
  MaxId = 4
  Scopes <- UploadScope
  Frames <- TwoFrames
  Detections <- TwoEach
  Malformed <- Mangled
  BadPlates <- Unreadable
  Unseen <- TwoFrames
  DlqMax = 2
  MaxReplays = 2
SPECIFICATION AnySpec
INVARIANTS
  VoteOfOneCamera
CHECK_DEADLOCK FALSE
