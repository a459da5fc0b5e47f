--------------------------- MODULE MCAuthSession ---------------------------
(* AuthSession on a small instance.                                        *)
EXTENDS AuthSession, TLC

CONSTANTS TotpTime, TotpTokens

RequestSymmetry == Permutations(Requests)

\* Behaviours are followed within bounds that get tighter with every TOTP
\* secret, as each brings more codes.
TotpBounds ==
  /\ secrets > 0 => now <= TotpTime /\ issued <= TotpTokens
  /\ secrets > 1 => InFlight <= 1
=============================================================================
