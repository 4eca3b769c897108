------------------------------ MODULE MCQueue -------------------------------
(***************************************************************************)
(* Small instances of the queue for TLC.                                   *)
(***************************************************************************)
EXTENDS QueueProperties, TLC

\* The processes are interchangeable.
ProcSymmetry == Permutations(Procs)

\* What the CLI and the MCP tools pass to set_status.
CliStatuses == {"pending", "done", "dropped"}

\* What gRPC SetStatus passes: any status its enum names.
GrpcStatuses == Statuses
=============================================================================
