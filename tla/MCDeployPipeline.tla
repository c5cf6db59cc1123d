-------------------------- MODULE MCDeployPipeline --------------------------
(***************************************************************************)
(* Instances of DeployPipeline for TLC.  d1 and d3 publish one version, of *)
(* which d1 has a page and a file that d3 lacks; d2 publishes another.     *)
(***************************************************************************)
EXTENDS DeployPipeline

CONSTANTS d1, d2, d3, v1, v2, n1, n2, p1, p2

MCTarget == [d \in Deploy |-> IF d = d2 THEN v2 ELSE v1]
MCAssets == [d \in Deploy |-> IF d = d1 THEN {n1, n2} ELSE {n1}]
MCDocs == [d \in Deploy |-> IF d = d1 THEN {p1, p2} ELSE {p1}]

=============================================================================
