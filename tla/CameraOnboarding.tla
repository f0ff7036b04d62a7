-------------------------- MODULE CameraOnboarding --------------------------
(***************************************************************************)
(* A camera is found, confirmed, tried and registered: CameraDiscovery and *)
(* CameraVerification, which begins with a candidate that was confirmed.   *)
(* What model it is the user may have read from its label (CameraCatalog), *)
(* on which nothing else depends.                                          *)
(***************************************************************************)
EXTENDS Naturals, FiniteSets

CONSTANTS Requests,  \* in progress at the same time, of each part
          MaxTries, Verifications, MaxSubmits, MaxCameras,
          Names, Writings, Hardware, MaxMatches, MaxModels

ASSUME RequestsAssumption == IsFiniteSet(Requests) /\ "NONE" \notin Requests
ASSUME VerificationsAssumption ==
  IsFiniteSet(Verifications) /\ MaxSubmits \in Nat /\ MaxCameras \in Nat
ASSUME TriesAssumption == MaxTries \in Nat \ {0}
\* What is not given is no name.  Of a list of one, nobody could tell what it leaves out.
ASSUME CatalogueAssumption == "NONE" \notin Names /\ MaxMatches \in Nat \ {0, 1}

VARIABLES session, found, expired, received, commands, scanning, waiting, disturbed,
          file, writers, flush, queued, gone, overlapped,
          discoveryWork,         \* work of CameraDiscovery
          verifications, due, cameras, manual, counter, crossed, leaked,
          verificationCommands,  \* commands and work of CameraVerification
          verificationWork,
          manufacturers, brands, models, variants

D == INSTANCE CameraDiscovery WITH Handlers <- Requests, work <- discoveryWork
V == INSTANCE CameraVerification WITH Handlers <- Requests,
       work <- verificationWork, commands <- verificationCommands
C == INSTANCE CameraCatalog

discovery == <<session, found, expired, received, discoveryWork, commands, scanning,
               waiting, disturbed, file, writers, flush, queued, gone, overlapped>>
verification == <<verifications, due, verificationCommands, verificationWork, crossed,
                  cameras, manual, counter, leaked>>
onboarding == <<discovery, verification>>
catalogue == <<manufacturers, brands, models, variants>>

OnboardingInit == D!Init /\ V!Init /\ C!Init

\* Whether or not the session of discovery is due in the meantime.
Confirmed == session = [status |-> "COMPLETED", confirmed |-> TRUE]

Discover == D!Next /\ UNCHANGED verification
BeginVerification(v) == Confirmed /\ V!Start(v) /\ UNCHANGED discovery
Verify == V!Onward /\ UNCHANGED discovery

Onboard == Discover \/ Verify \/ \E v \in Verifications : BeginVerification(v)

OnboardingNext ==
  \/ Onboard /\ UNCHANGED catalogue
  \/ C!CatalogueStep /\ UNCHANGED onboarding

OnboardingSpec == OnboardingInit /\ [][OnboardingNext]_<<onboarding, catalogue>>
-----------------------------------------------------------------------------
(* Properties: those of the parts *)

\* Nothing that the gateway has to tell is lost as long as no two operations of its
\* queue meet.
Kept == D!Queue!Kept

\* The end of the scan closes the session of discovery, unless a report was disturbed.
EndIsTold == D!EndIsTold

\* One device becomes one camera.
DeviceOnce == V!DeviceOnce

\* A camera has credentials that were found right.
VerifiedCredential == V!VerifiedCredential

\* The user's password is kept only as long as the verification needs it.
CredentialEnds == V!CredentialEnds

\* The counter of cameras is exact but for requests that ended early.
CamerasCounted == V!CamerasCounted

\* A label identifies the model it names, if the list is long enough.
LabelIdentifies == C!LabelIdentifies
=============================================================================
