----------------------------- MODULE LogConfig -----------------------------
(***************************************************************************)
(* What a client of the log sees of its configuration: blocks, each with   *)
(* the variables it asked for, in order.  Log implements it.               *)
(***************************************************************************)
EXTENDS Integers, Sequences, FiniteSets

CONSTANTS
  Id,         \* names of blocks
  Item,       \* what a block may hold: records with the length of a value
  MaxBlocks,  \* LOG_MAX_BLOCKS
  MaxOps,     \* LOG_MAX_OPS
  MaxLength   \* LOG_MAX_LEN

VARIABLES
  config,   \* the items of each block there is
  spoilt    \* nothing is promised any more

configVars == <<config, spoilt>>

\* The bytes, and the number, of the items of a sequence.
Length(items) ==
  LET sum[n \in 0 .. Len(items)] ==
        IF n = 0 THEN 0 ELSE sum[n - 1] + items[n].length
  IN  sum[Len(items)]

Places == {<<i, n>> : i \in DOMAIN config, n \in 1 .. MaxOps}
Used   == Cardinality({p \in Places : p[2] <= Len(config[p[1]])})

ConfigInit ==
  /\ config = [i \in {} |-> <<>>]
  /\ spoilt = FALSE

NewBlock(i) ==
  /\ i \notin DOMAIN config
  /\ Cardinality(DOMAIN config) < MaxBlocks
  /\ config' = [j \in DOMAIN config \cup {i} |-> IF j = i THEN <<>> ELSE config[j]]

AddItem(i, item) ==
  /\ Length(config[i]) + item.length <= MaxLength
  /\ Used < MaxOps
  /\ config' = [config EXCEPT ![i] = Append(@, item)]

\* One block, or all of them.
Forget(gone) == config' = [j \in DOMAIN config \ gone |-> config[j]]

ConfigStep ==
  \/ \E i \in Id : NewBlock(i)
  \/ \E i \in DOMAIN config, item \in Item : AddItem(i, item)
  \/ \E i \in DOMAIN config : Forget({i})
  \/ Forget(DOMAIN config)

\* A reset by the worker in the middle of a request spoils everything.
Spoil == spoilt' = TRUE /\ config' = [i \in {} |-> <<>>]

ConfigNext ==
  \/ ~spoilt /\ ConfigStep /\ UNCHANGED spoilt
  \/ ~spoilt /\ Spoil

ConfigSpec == ConfigInit /\ [][ConfigNext]_configVars
=============================================================================
