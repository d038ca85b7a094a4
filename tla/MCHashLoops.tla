---------------------------- MODULE MCHashLoops ----------------------------
EXTENDS HashLoops
=============================================================================
