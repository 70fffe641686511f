-------------------------------- MODULE Places --------------------------------
(***************************************************************************)
(* Sequences that a program filters or adds to, by the places involved.    *)
(***************************************************************************)
EXTENDS Integers, Sequences, FiniteSets

(* The k-th smallest of the places S: it has k - 1 of them before it.      *)
Before(S, i) == {j \in S : j < i}
Nth(S, k) == CHOOSE i \in S : Cardinality(Before(S, i)) = k - 1

(* The elements of s at the places S, in their order. *)
Keep(s, S) == [k \in 1 .. Cardinality(S) |-> s[Nth(S, k)]]

PlacesOf(s, x) == {i \in DOMAIN s : s[i] = x}

(* Element i of a sequence goes to slot 2 i, what is put behind it to the  *)
(* slot after.                                                             *)
Slots(n, P) == {2 * i : i \in 1 .. n} \cup {2 * i + 1 : i \in P}

Spread(s, P, x) == [k \in Slots(Len(s), P) |-> IF k % 2 = 0 THEN s[k \div 2] ELSE x]

(* s with x behind each of the places P; behind place 0 is in front.       *)
Insert(s, P, x) == Keep(Spread(s, P, x), Slots(Len(s), P))

=============================================================================
