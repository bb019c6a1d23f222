------------------------------ MODULE MCPeterson ------------------------------
(* Small instances of Peterson for TLC. *)
EXTENDS Peterson

\* The programs of the repository, on one processor and on two, the optimised build of
\* the xchg header among them.
AsBuilt == Entries \X BOOLEAN
==============================================================================
