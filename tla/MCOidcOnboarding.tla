-------------------------- MODULE MCOidcOnboarding --------------------------
(* Small instances of OidcOnboarding for TLC. *)
EXTENDS OidcOnboarding, TLC

CONSTANTS p, q, v, e

\* p is a provider with a built-in issuer, q is not.
MCWellKnown == [x \in Provider |-> [f \in Field |->
                    IF x = p /\ f = "issuer_url" THEN e ELSE None]]

\* The environment configures both providers, p only, or none.
Env(ids) == [x \in Provider |-> [f \in Field |-> IF x \in ids THEN e ELSE None]]
MCEnvRegistries == {Env({p, q}), Env({p}), Env({})}

\* A body that sets the settings, and one that clears one and switches off.
MCBodies == {[values |-> [f \in Field |-> v], enabled |-> Keep],
             [values |-> [f \in Field |-> IF f = "client_id" THEN None ELSE Keep],
              enabled |-> FALSE]}

Symmetry == Permutations(Requests)
============================================================================
