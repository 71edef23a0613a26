--------------------------- MODULE MCMobilePairing --------------------------
\* One phone, three tokens, three starts.
EXTENDS MobilePairing

CONSTANT p1

MCPhones == {p1}
=============================================================================
