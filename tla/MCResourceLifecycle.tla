------------------------ MODULE MCResourceLifecycle ------------------------
(* ResourceLifecycle on a small instance. *)
EXTENDS ResourceLifecycle, TLC

AllKinds == {folder, workspace, team, tag, userAttribute, tenant, sourceSwapPolicy,
             deploymentPolicy, workbookEmbed, accountType, schedule, pausedSchedule,
             teamMember, teamAttribute,
             userAttributeAssignment, tenantAttribute, deploymentCapability,
             deploymentPolicyDocument, deploymentPolicyTenant, translation}

ByName == {accountType}

\* One resource of each shape that differs in how it can fail; no imports.
LiveShapes == {folder, userAttribute, team, tag, pausedSchedule,
               teamMember, teamAttribute, translation}
LiveKinds == {[k EXCEPT !.importable = FALSE] : k \in LiveShapes}

Symmetry == Permutations(Ids) \cup Permutations(Values \ {Bare})
=============================================================================
