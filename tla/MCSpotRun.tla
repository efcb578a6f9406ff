----------------------------- MODULE MCSpotRun ------------------------------
EXTENDS SpotRun
=============================================================================
