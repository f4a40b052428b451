----------------------------- MODULE MCConnection -----------------------------
EXTENDS Connection

CONSTANTS c1, c2
================================================================================
