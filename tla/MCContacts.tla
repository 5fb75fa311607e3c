----------------------------- MODULE MCContacts -----------------------------
(* Contacts with three messages: two spellings of one address, the later   *)
(* one personal and recent, and another address.                           *)
EXTENDS Contacts, TLC

CONSTANTS w1, w2
Symmetry == Permutations({w1, w2})

MCMessages == {"m1", "m2", "m3"}
MCKeyOf == [m \in MCMessages |-> IF m = "m3" THEN "cuux" ELSE "foo"]
MCFullOf == [m \in MCMessages |-> IF m = "m1" THEN "foo" ELSE IF m = "m2" THEN "Foo" ELSE "Cuux"]
MCPersonalOf == [m \in MCMessages |-> m = "m2"]
MCDateOf == [m \in MCMessages |-> IF m = "m2" THEN 2 ELSE 1]
MCBefore == {<<"cuux", "foo">>}
=============================================================================
