-------------------------- MODULE MCRefreshCooldown --------------------------
(***************************************************************************)
(* Instance for TLC: two callers of one printer and one of another.        *)
(***************************************************************************)
EXTENDS RefreshCooldown, TLC

CONSTANTS c1, c2, c3, s1, s2

MCCallers == {c1, c2, c3}
MCSerials == {s1, s2}
MCSerialOf == (c1 :> s1) @@ (c2 :> s1) @@ (c3 :> s2)
MCPairCallers == {c1, c2}
MCPairSerialOf == (c1 :> s1) @@ (c2 :> s1)
MCSymmetry == Permutations({c1, c2})
=============================================================================
