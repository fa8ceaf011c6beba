---- MODULE MCKveStore ----
(* A small partition for KveStore. *)
EXTENDS KveStore

CONSTANTS k1, k2, k3, short, long

MCEntrySize(k, v) ==
  (IF k = k1 THEN 4 ELSE 5) + (IF v = short THEN 1 ELSE 2)
====
