---------------------------- MODULE MCToolBatch ----------------------------
(* Small instances of ToolBatch. *)
EXTENDS ToolBatch

TwoCalls == <<"a", "b">>
(* Google's adapter names a call after its function: two calls of one tool *)
(* in one response have the same id (google/mod.rs).                       *)
SameIds == <<"fc_sh", "fc_sh">>
=============================================================================
