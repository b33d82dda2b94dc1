------------------------------- MODULE MCMcp --------------------------------
EXTENDS Mcp
=============================================================================
