------------------------------ MODULE MCNTServer ------------------------------
EXTENDS NTServerDocs, SequencesExt

CONSTANTS t, a, u, v, w, exact, prefix

\* "a", and "a@1" as <<a, 1>>.
MCAlike == {<<a>>, <<a, 1>>}
MCAlone == {<<a>>}
MCNumbered == [x \in AskedNames \X (1 .. MaxClients) |-> Append(x[1], x[2])]
MCClientNames == MCAlike \cup {Append(n, k) : n \in MCAlike, k \in 1 .. MaxClients}
MCNamesContaining == [n \in AskedNames |-> {m \in ClientNames : IsPrefix(n, m)}]

MCPlain == <<"topic", t>>
MCPublishNames == {MCPlain}
MCMatches == [p \in Patterns |-> IF p = exact THEN {MCPlain} ELSE Names]
NoFlags == {{}}
Retained == {{"retained"}}
ClearRetained == {<<{}, {"retained"}>>}
SetRetained == {<<{"retained"}, {}>>}
================================================================================
