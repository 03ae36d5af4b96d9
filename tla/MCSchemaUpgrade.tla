---------------------------- MODULE MCSchemaUpgrade ----------------------------
(***************************************************************************)
(* The databases a start may find: none, the first release's, one whose    *)
(* digest column came without its constraints, the previous release's, and *)
(* a current one that lacks the newest triggers.                           *)
(***************************************************************************)
EXTENDS SchemaUpgrade

Fresh == {}
First == {"documents"}
Unguarded == {"documents", "digest", "chunks"}
Previous == (DocumentFeatures \ {"columns", "version size"}) \cup {"chunks"}

MCOldSchemas == {Fresh, First, Unguarded, Previous, Required \ {"history"}}
================================================================================
