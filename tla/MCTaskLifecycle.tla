--------------------------- MODULE MCTaskLifecycle ---------------------------
(***************************************************************************)
(* TaskLifecycle instantiated for TLC.  The identifiers are model values   *)
(* given in the .cfg files; this module only fixes the sets.               *)
(***************************************************************************)
EXTENDS TaskLifecycle, TLC

CONSTANTS t1, t2, r1, r2, tenantA, tenantB, svc1, svc2

MCTasks == {t1, t2}
MCReplicas == {r1, r2}
MCTenants == {tenantA, tenantB}
MCServices == {svc1, svc2}

\* Tasks, replicas, tenants and services are interchangeable in the safety
\* properties: none of the actions or invariants names a particular one.
MCSymmetry == Permutations(MCTasks) \cup Permutations(MCReplicas)
                \cup Permutations(MCTenants) \cup Permutations(MCServices)

=============================================================================
