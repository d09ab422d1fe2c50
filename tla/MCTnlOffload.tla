----------------------------- MODULE MCTnlOffload ------------------------------
(* Model checking TnlOffload: tunnels with local addresses of their own, and      *)
(* tunnels from one address; every disorder by itself, and the changes of address *)
(* that need a second one.                                                        *)
EXTENDS TnlOffload

OwnAddress == [t \in Tunnels |-> t]
OneAddress == [t \in Tunnels |-> CHOOSE a \in Addresses : TRUE]

OneByOne == {{}} \cup {{d} : d \in Disorders \ {"mac"}}
MacChanges == {{}, {"mac"}}
================================================================================
