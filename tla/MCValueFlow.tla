------------------------------ MODULE MCValueFlow ------------------------------
EXTENDS ValueFlow

CONSTANTS parser, handle, s1, s2

\* Each option is asked for by one of them, and by one is not.
MCOptions == { [all |-> TRUE,  topics_only |-> FALSE, short |-> FALSE],
               [all |-> FALSE, topics_only |-> FALSE, short |-> TRUE],
               [all |-> FALSE, topics_only |-> TRUE,  short |-> FALSE] }
================================================================================
