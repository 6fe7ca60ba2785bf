---------------------------- MODULE MCPagination ----------------------------
(* A table for TLC: unique keys that fill their last page, so that Next can *)
(* run into an empty page.                                                  *)
EXTENDS Pagination

UniqueKeys == <<1, 2, 4, 5, 7, 9>>
=============================================================================
