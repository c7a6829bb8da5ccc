-------------------------- MODULE MCArtifactStore --------------------------
(* ArtifactStore on small instances.                                       *)
EXTENDS ArtifactStore
=============================================================================
