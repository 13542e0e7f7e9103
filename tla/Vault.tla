--------------------------------- MODULE Vault ---------------------------------
(* What keeping secrets promises, as if nothing were ever encrypted: a column  *)
(* holds what somebody supplied for it until a request replaces or forgets it, *)
(* and neither a restart nor a change of key is a step.                        *)
CONSTANTS Tenants, Texts,
          Empty,      \* "", a password that is not needed
          Nothing     \* NULL, or no row

Columns == {"bot_token", "api_key", "client_secret", "password"}

VARIABLES holds,      \* what each tenant's columns say
          supplied    \* history: what was ever supplied for them

Init ==
  /\ holds \in [Tenants -> [Columns -> Texts \cup {Empty, Nothing}]]
  /\ supplied = [t \in Tenants |-> [c \in Columns |-> {holds[t][c]} \ {Nothing}]]

(* Somebody sends new texts for some columns of a tenant.  *)
Supply(t, f) ==
  /\ holds' = [holds EXCEPT ![t] = [c \in Columns |-> IF c \in DOMAIN f THEN f[c] ELSE @[c]]]
  /\ supplied' = [supplied EXCEPT ![t] =
       [c \in Columns |-> IF c \in DOMAIN f THEN @[c] \cup {f[c]} ELSE @[c]]]

(* A request writes the whole tenant row, with the token it had read.  *)
PutBack(t, x) ==
  /\ x \in supplied[t]["bot_token"] \cup {Nothing}
  /\ holds' = [holds EXCEPT ![t] = [c \in Columns |-> IF c = "bot_token" THEN x ELSE @[c]]]
  /\ UNCHANGED supplied

Forget(t) ==
  /\ holds' = [holds EXCEPT ![t] = [c \in Columns |-> Nothing]]
  /\ UNCHANGED supplied

Next ==
  \E t \in Tenants :
    \/ \E C \in SUBSET Columns : \E f \in [C -> Texts \cup {Empty}] : Supply(t, f)
    \/ \E x \in Texts \cup {Empty, Nothing} : PutBack(t, x)
    \/ Forget(t)

Spec == Init /\ [][Next]_<<holds, supplied>>
=============================================================================
