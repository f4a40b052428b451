------------------------------ MODULE MCNTClient ------------------------------
EXTENDS NTClient

CONSTANTS h1, h2, x, y, i1, i2

MCCoverAll == [s \in SubUIDs |-> Names]
================================================================================
