----------------------------- MODULE MCBuilder -----------------------------
EXTENDS Builder, TLC

CONSTANTS l1, s1, s2, f1

MCLitSize == s1 :> 2 @@ s2 :> 3
=============================================================================
