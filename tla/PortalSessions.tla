--------------------------- MODULE PortalSessions ---------------------------
(***************************************************************************)
(* What the customer portal promises about who is served.  A browser is    *)
(* served as one customer or as nobody.  It comes to be served by proving  *)
(* something to the portal, and the moment a customer's key (their         *)
(* password) changes or their account is deactivated, nobody is served as  *)
(* that customer until they prove something again.                         *)
(***************************************************************************)
CONSTANTS Addresses, Browsers, Keys, Nobody

VARIABLES served,  \* the customer each browser is served as
          key      \* the key of each customer, Nobody before there is one

vars == <<served, key>>

Dropping(a) == [b \in Browsers |-> IF served[b] = a THEN Nobody ELSE served[b]]

Init ==
  /\ served = [b \in Browsers |-> Nobody]
  /\ key = [a \in Addresses |-> Nobody]

SignIn(b, a) ==
  /\ key[a] # Nobody
  /\ served' = [served EXCEPT ![b] = a]
  /\ UNCHANGED key

Leave(b) ==
  /\ served' = [served EXCEPT ![b] = Nobody]
  /\ UNCHANGED key

\* A first key, or another: whoever was served is not.
TakeKey(a, k) ==
  /\ key[a] # k
  /\ key' = [key EXCEPT ![a] = k]
  /\ served' = Dropping(a)

Deactivate(a) ==
  /\ served' = Dropping(a)
  /\ UNCHANGED key

Next ==
  \/ \E b \in Browsers : Leave(b) \/ \E a \in Addresses : SignIn(b, a)
  \/ \E a \in Addresses : Deactivate(a) \/ \E k \in Keys : TakeKey(a, k)

Spec == Init /\ [][Next]_vars
=============================================================================
