------------------------------ MODULE MCTimeline ------------------------------
EXTENDS Timeline

CONSTANTS a1, r1, v1, v2, i1, i2
=============================================================================
