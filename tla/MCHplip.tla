------------------------------ MODULE MCHplip -------------------------------
\* Two destinations to hand out, one other host, two owners of hpssd's name and two presses.
EXTENDS Hplip

CONSTANTS this, other

MCUris == 1..2
MCOthers == {other}
=============================================================================
