----------------------------- MODULE MCListSwap -----------------------------
(* Instances of ListSwap for TLC: a name of four labels, one of three and a  *)
(* top-level domain; lists that block it by different suffixes.              *)
EXTENDS ListSwap

A_B_C_D == <<"a", "b", "c", "d">>
B_C_D == <<"b", "c", "d">>
C_D == <<"c", "d">>
D == <<"d">>

MCDomainHash(nm) ==
    CASE nm = C_D -> 2 [] nm = A_B_C_D -> 4 [] nm = D -> 5 [] nm = B_C_D -> 7 [] OTHER -> 0

MCNames == {A_B_C_D, B_C_D, D}
\* By the parent domain, by the name itself, by its top-level domain only.
MCLists == {<<1, 2, 6>>, <<4, 8>>, <<3, 5, 9>>}
=============================================================================
