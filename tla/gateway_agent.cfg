SPECIFICATION AgentSpec
CONSTANTS
  s1 = s1
  s2 = s2
  s3 = s3
  cam1 = cam1
  cam2 = cam2
  Sessions = {s1, s2, s3}
  Cameras = {cam1, cam2}
  CameraOf <- TwoCameras
  Clicks = {}
  MaxStreams = 1
  p1 = p1
  r1 = r1
  Snapshots = {p1}
  Recordings = {r1}
  MaxFiles = 2
  MaxStaging = 2
  MaxAttempts = 2
  Watched = {cam1}
  StableFrames = 2
  MaxUpdates = 3
  MaxMonitors = 2
CONSTRAINTS Apart Few
SYMMETRY Symmetry
INVARIANTS PipelinesServed CapturesKept StagingOwned OnlineIsTold
