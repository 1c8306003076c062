------------------------------- MODULE MCLaunch -------------------------------
EXTENDS Launch
=============================================================================
