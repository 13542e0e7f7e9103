------------------------------- MODULE MCSecrets -------------------------------
(* Values for the constants of Secrets.                                        *)
EXTENDS Secrets, TLC

CONSTANTS t1, x, y

MCLegacy ==
  [bot_token |-> x, api_key |-> x, client_secret |-> x, password |-> Empty]

MCManual ==
  [bot_token |-> Nothing, api_key |-> x, client_secret |-> Nothing, password |-> x]

(* One tenant of before encryption, installed through Slack or by hand.  *)
MCCells == {[t \in Tenants |-> IF t = t1 THEN r ELSE NoRow] : r \in {MCLegacy, MCManual}}

(* Keys are compared and goroutines are alike.  *)
MCSymmetry == Permutations(Keys) \cup Permutations(Workers)
=============================================================================
