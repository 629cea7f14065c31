-------------------------- MODULE MCSessionServer ---------------------------
EXTENDS SessionServer, TLC

CONSTANTS user, admin    \* the two clients, in one tenant

MCClients == {user, admin}
MCTenant == [c \in MCClients |-> "t1"]
MCScope == [c \in MCClients |-> IF c = admin THEN "admin" ELSE "user"]
MCNotBefore == [c \in MCClients |-> 0]
MCNotAfter == [c \in MCClients |-> IF c = admin THEN 0 ELSE 1]

\* Session ids are interchangeable: no action tells them apart.
SidPermutations == Permutations(Sids)
=============================================================================
