----------------------------- MODULE MCGateway -----------------------------
(* Gateway with a tenant that has one slot, and one that has two and no    *)
(* limit on its requests.                                                  *)
EXTENDS Gateway

Narrow == "narrow"
Wide == "wide"
BothTenants == {Narrow, Wide}

OneOwner == {[r \in Request |-> t] : t \in BothTenants}
Requests == [t \in BothTenants |-> IF t = Narrow THEN 2 ELSE NoLimit]
Tokens == [t \in BothTenants |-> 2]
Slots == [t \in BothTenants |-> IF t = Narrow THEN 1 ELSE 2]
TwoLanes == [b \in Replica |-> IF b = 1 THEN "stable" ELSE "canary"]
Prompts == [r \in Request |-> IF r = 2 THEN 2 ELSE 1]
=============================================================================
