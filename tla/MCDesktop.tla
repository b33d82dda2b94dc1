----------------------------- MODULE MCDesktop ------------------------------
EXTENDS Desktop
=============================================================================
