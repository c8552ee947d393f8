------------------------------ MODULE MCSeqGroup ------------------------------
EXTENDS SeqGroup
=============================================================================
