---------------------------- MODULE MCRegistryRaces ----------------------------
EXTENDS RegistryRaces, TLC

CONSTANTS parser, h1, h2, server, c1, c2, t, prefix

MCMatches == [p \in Patterns |-> Names]
MCSymmetry == Permutations(Clients) \cup Permutations(Handles)
================================================================================
