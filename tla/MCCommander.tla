---------------------------- MODULE MCCommander ----------------------------
(* A stabilizer, the radio's receive task and an external receiver, at the *)
(* priorities of config.h as Zephyr's scheduler reads them: the stabilizer *)
(* (5) is less urgent than the two receivers (2 and 2).                    *)
EXTENDS Commander

CONSTANTS stab, rx, extrx

MCPriority == [t \in Thread |-> CASE t = stab -> 1 [] t = rx -> 2 [] t = extrx -> 3]

MCUrgency == [t \in Thread |-> IF t = stab THEN 1 ELSE 2]

\* The priorities as config.h:61 reads them: higher number, higher priority.
MCDocumentedUrgency == [t \in Thread |-> IF t = stab THEN 5 ELSE 2]
============================================================================
