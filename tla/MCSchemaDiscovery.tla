-------------------------- MODULE MCSchemaDiscovery --------------------------
(* Two tenants and one fingerprint, one field, two tables, two pending ids. *)
EXTENDS SchemaDiscovery, TLC
Symmetry == Permutations(Tables) \cup Permutations(Ids) \cup Permutations(Tenants)
=============================================================================
