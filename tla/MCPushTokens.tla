---------------------------- MODULE MCPushTokens ----------------------------
(***************************************************************************)
(* Four tokens in a list of two, so that registrations push tokens out.    *)
(***************************************************************************)
EXTENDS PushTokens, TLC

CONSTANTS t1, t2, t3, t4

MCToken == {t1, t2, t3, t4}

\* No action and no property tells two tokens apart.
TokenSymmetry == Permutations(MCToken)
=============================================================================
