---------------------------- MODULE MCSchemaGen ----------------------------
(* SchemaGen on a few migrations, edits and runs, for TLC. *)
EXTENDS SchemaGen
=============================================================================
