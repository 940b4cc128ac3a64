----------------------------- MODULE MCArchive -----------------------------
EXTENDS Archive

\* "A", "Ab", "Ac", "B", "b", "_"
MCSymbols == {<<65>>, <<65, 98>>, <<65, 99>>, <<66>>, <<98>>, <<95>>}

CONSTANTS kernel, user
MCDllOf == <<kernel, user>>
=============================================================================
