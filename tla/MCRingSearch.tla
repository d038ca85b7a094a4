---------------------------- MODULE MCRingSearch ----------------------------
EXTENDS RingSearch
=============================================================================
