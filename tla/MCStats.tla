------------------------------- MODULE MCStats -------------------------------
(* Instances of Stats for TLC: three addresses, two of which begin alike, for  *)
(* a table of two rows.                                                        *)
EXTENDS Stats

Node1 == <<"10.0.0.", "1">>
OtherNodes == {<<"10.0.0.", "1", "2">>, <<"10.0.0.", "3">>}
===============================================================================
