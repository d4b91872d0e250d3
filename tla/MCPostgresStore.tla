--------------------------- MODULE MCPostgresStore ---------------------------
(* PostgresStore for TLC: clients, keys and contents are model values; the *)
(* safety run takes them as interchangeable.                               *)
EXTENDS PostgresStore, TLC

Symmetry == Permutations(Client) \cup Permutations(Key) \cup Permutations(Content)
=============================================================================
