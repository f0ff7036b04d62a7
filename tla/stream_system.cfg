\* One session with its stop request: every interleaving of the cloud and the
\* gateway, with lost responses, lost acknowledgements and restarts.
SPECIFICATION FairSpec
CONSTANTS
  cam1 = cam1
  Sessions = {s1}
  Clicks = {k1}
  MaxActive = 1
  Cameras = {cam1}
  CameraOf <- OneCamera
  MaxStreams = 1
PROPERTIES CloudSpec LiveEnds CommandsSettle
