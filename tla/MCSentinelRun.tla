---------------------------- MODULE MCSentinelRun ----------------------------
(* Small instances of SentinelRun: two scopes with one fingerprint each, or  *)
(* one scope with one or two fingerprints.                                   *)
EXTENDS SentinelRun, TLC

CONSTANTS s1, s2, p1, p2

TwoScopes == (p1 :> s1) @@ (p2 :> s2)
OneScope == (p1 :> s1) @@ (p2 :> s1)
OnePrint == p1 :> s1
=============================================================================
