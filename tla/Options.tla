------------------------------ MODULE Options ------------------------------
(* Settings of the server that several components read (common/constants.go). *)

CONSTANT BatchUpdateEnabled  \* common.BatchUpdateEnabled: BATCH_UPDATE_ENABLED is "true"
=============================================================================
