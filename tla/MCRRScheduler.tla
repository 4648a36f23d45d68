---------------------------- MODULE MCRRScheduler ----------------------------
EXTENDS RRScheduler
=============================================================================
