------------------------------ MODULE MCScopes ------------------------------
EXTENDS Scopes

CONSTANTS x, y
=============================================================================
