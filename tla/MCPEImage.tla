----------------------------- MODULE MCPEImage -----------------------------
EXTENDS PEImage

CONSTANTS short, middling, long, kernel, user

MCNameSize == short :> 1 @@ middling :> 4 @@ long :> 4000
MCDllSize == kernel :> 12 @@ user :> 10
=============================================================================
