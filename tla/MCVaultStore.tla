---------------------------- MODULE MCVaultStore ----------------------------
(* VaultStore for TLC: one call of each kind. *)
EXTENDS VaultStore, TLC

CONSTANTS c1, c2, c3, c4, pA, pB, s1, s2, v1, v2

Ask(kind, pw, secret, value) ==
  [kind |-> kind, pw |-> pw, secret |-> secret, value |-> value]

\* A vault with one secret: set another and delete it, destroy it all, and
\* initialise with another password.
EveryKind ==
  c1 :> Ask("set", pA, s2, v2) @@ c2 :> Ask("delete", pA, s2, v1)
    @@ c3 :> Ask("destroy", pB, s1, v1) @@ c4 :> Ask("init", pB, s1, v1)
OneSecret == [pw |-> pA, secrets |-> (s1 :> v1 @@ s2 :> "none")]
=============================================================================
