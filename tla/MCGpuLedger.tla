----------------------------- MODULE MCGpuLedger -----------------------------
EXTENDS GpuLedger
=============================================================================
