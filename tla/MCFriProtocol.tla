---------------------------- MODULE MCFriProtocol ----------------------------
(***************************************************************************)
(* An instance of FriProtocol over the field with 97 elements, in which 5  *)
(* generates everything: a coset of order 16 reduced by 2 and by 4, to the *)
(* last two elements.  One polynomial is below the degree bound 8, the     *)
(* other is x^8 (x - 25) + x: above it, except where it is folded at 25.   *)
(* 37 is in the last coset of the first domain and 25 in an earlier coset  *)
(* of the second.                                                          *)
(***************************************************************************)
EXTENDS FriProtocol

MCCodewordDomain == [order |-> 16, shift |-> 5]
MCLocalizationParameters == <<1, 2>>
MCPolynomials == {<<1, 2, 3, 4, 5, 6, 7, 8>>, <<0, 1, 0, 0, 0, 0, 0, 0, 72, 1>>}
MCChallenges == {25, 37}
=============================================================================
