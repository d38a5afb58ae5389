----------------------------- MODULE MCCoalescing -----------------------------
EXTENDS Coalescing
=============================================================================
