----------------------------- MODULE MCMgmtQueue -----------------------------
EXTENDS MgmtQueue
=============================================================================
