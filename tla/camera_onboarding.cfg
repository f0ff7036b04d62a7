\* One session of discovery, two verifications of the device and two submissions of
\* credentials, two requests at a time of each, a plan of one camera; two models
\* in the catalogue, with up to four variants, of which a label lists two.  When the
\* submissions run out, everybody may have to stop.
SPECIFICATION MCSpec
CONSTANTS
  Requests = {h1, h2}
  MaxTries = 1
  Verifications = {v1, v2}
  MaxSubmits = 2
  MaxCameras = 1
  Names = {n1, n2}
  Writings = {w1, w2}
  Hardware = {hardware1}
  MaxMatches = 2
  MaxModels = 2
CHECK_DEADLOCK FALSE
SYMMETRY Symmetry
CONSTRAINTS Apart Told Few Small
VIEW View
INVARIANTS Kept EndIsTold DeviceOnce VerifiedCredential CredentialEnds CamerasCounted LabelIdentifies
