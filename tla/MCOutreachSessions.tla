------------------------- MODULE MCOutreachSessions -------------------------
EXTENDS OutreachSessions, TLC
=============================================================================
