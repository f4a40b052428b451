----------------------------- MODULE MCServerLocks -----------------------------
EXTENDS ServerLocks

CONSTANTS parser, send_out, c1, h1
================================================================================
