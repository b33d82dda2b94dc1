------------------------------ MODULE MCTurns -------------------------------
EXTENDS Turns
=============================================================================
