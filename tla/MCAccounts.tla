------------------------------ MODULE MCAccounts ------------------------------
EXTENDS Accounts, TLC

CONSTANTS q1, q2, q3, ann, bob, github, google, home, k1, k2, k3, u1, u2, s1

TwoRequests   == {q1, q2}
AnnAndBob     == {ann, bob}
TwoProviders  == {github, google}
Profiles      == (ann :> Local) @@ (bob :> github)
OneAddress    == {home}
ThreeKeys     == {k1, k2, k3}
TwoUids       == {u1, u2}
OneNonce      == {s1}

AccountSymmetry ==
  Permutations(TwoRequests) \cup Permutations(ThreeKeys) \cup Permutations(TwoUids)
=============================================================================
