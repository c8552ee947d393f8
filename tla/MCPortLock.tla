----------------------------- MODULE MCPortLock -----------------------------
EXTENDS PortLock
=============================================================================
