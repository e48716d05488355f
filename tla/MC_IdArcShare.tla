---------------------------- MODULE MC_IdArcShare ----------------------------
EXTENDS IdArcShare
=============================================================================
