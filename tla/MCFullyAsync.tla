---------------------------- MODULE MCFullyAsync ----------------------------
EXTENDS FullyAsync
=============================================================================
