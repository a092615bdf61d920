---------------------------- MODULE MCSequencer ----------------------------
EXTENDS Sequencer
=============================================================================
