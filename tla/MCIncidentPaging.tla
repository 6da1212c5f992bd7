-------------------------- MODULE MCIncidentPaging --------------------------
(* Four incidents on two transaction starts, so that ties meet the ends of pages. *)
EXTENDS IncidentPaging

MCIds == 1..4
MCTimes == 1..2
=============================================================================
