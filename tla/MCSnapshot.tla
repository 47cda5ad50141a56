----------------------------- MODULE MCSnapshot -----------------------------
(***************************************************************************)
(* Instances of Snapshot for TLC: runs on one host, two tables, and a part *)
(* that is dropped and inserted again under them.                          *)
(***************************************************************************)
EXTENDS Snapshot

CONSTANTS h1, h2, t1, t2

TwoTables == [h \in Parts |-> IF h = h1 THEN t1 ELSE t2]
ComesAndGoes == {<<{h2}, {}>>, <<{}, {h2}>>}
=============================================================================
