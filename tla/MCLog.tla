------------------------------- MODULE MCLog -------------------------------
(* Three variables in two groups; the third has the number that stands for  *)
(* an address in a request of the first version.                            *)
EXTENDS Log

CONSTANTS motor, power

MCToc ==
  <<[kind |-> "start", name |-> "stabilizer"], [kind |-> "variable", name |-> "roll"],
    [kind |-> "stop", name |-> "stop"],
    [kind |-> "start", name |-> "pm"], [kind |-> "variable", name |-> "vbat"],
    [kind |-> "variable", name |-> "state"], [kind |-> "stop", name |-> "stop"]>>

Roll  == [id |-> 0, length |-> 2]
Short == [id |-> 0, length |-> 1]
Other == [id |-> 2, length |-> 1]
Wrong == [id |-> 3, length |-> 1]

\* A variable and one there is not, or an address; what is an address in each
\* version, with settings behind it; and a request that ends before its settings
\* begin.
MCSettingList ==
  {<<Roll, Wrong>>, <<Other, Wrong, Wrong, Roll>>, <<Short, Short, Short, Short>>}
=============================================================================
