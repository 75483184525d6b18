--------------------------- MODULE MCOutboundLink ---------------------------
EXTENDS OutboundLink
CONSTANTS i1, i2, d1
=============================================================================
