---------------------------- MODULE MCPagination ----------------------------
(* Pagination on a small instance: three cursors, so that the listing can    *)
(* need more pages than MaxPages, and every cycle and envelope shape occurs. *)
EXTENDS Pagination
=============================================================================
