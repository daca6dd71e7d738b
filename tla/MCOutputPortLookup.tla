------------------------- MODULE MCOutputPortLookup -------------------------
EXTENDS OutputPortLookup
=============================================================================
