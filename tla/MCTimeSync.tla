------------------------------- MODULE MCTimeSync -------------------------------
EXTENDS TimeSync
================================================================================
