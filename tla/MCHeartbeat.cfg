\* HeartBtInt 2: a window of 3 seconds, ages up to 7.
CONSTANT HeartBtInt = 2
SPECIFICATION FairSpec
INVARIANTS TypeOK HeartbeatPunctual DeadPeerBound
PROPERTIES PatientTimeout SilentPeerDropped
