SPECIFICATION FairMirror
CONSTANT WireBound = 3
INVARIANT ClientAgrees
INVARIANT HoldIsGivenBack
PROPERTY EndsUpLive
