-------------------------- MODULE MCReconciliation --------------------------
(* Two payments, pages of one or of two, and a job that overlaps itself.    *)
EXTENDS Reconciliation

\* The job is scheduled, or only forced, or the portal is not configured.
MCConfigs == {[enabled |-> TRUE, portal |-> TRUE, limit |-> 1],
              [enabled |-> TRUE, portal |-> TRUE, limit |-> 2],
              [enabled |-> TRUE, portal |-> FALSE, limit |-> 2]}
=============================================================================
