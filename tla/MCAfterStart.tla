----------------------------- MODULE MCAfterStart -----------------------------
(* Instance of AfterStart for TLC: two containers, one of a custom image, and   *)
(* two profiles, of which the second names the login set of the first.          *)
EXTENDS AfterStart

CONSTANTS b1, b2, q1, q2, g1, g2

Draft(set, secret, plugins) ==
  [there |-> TRUE, set |-> set, secret |-> secret, plugins |-> plugins]

MCDrafts  == {Draft(Unset, 1, {g1}), Draft(Unset, 0, {}), Draft(q1, 0, {g2})}
MCDrafted == {[p \in {q1, q2} |-> IF p = q1 THEN Draft(Unset, 1, {g1}) ELSE Draft(q1, 0, {g1})]}
=============================================================================
