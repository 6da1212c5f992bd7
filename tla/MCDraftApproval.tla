-------------------------- MODULE MCDraftApproval --------------------------
(* Two clients that decide with any role.  No symmetry: the run checks liveness. *)
EXTENDS DraftApproval
=============================================================================
