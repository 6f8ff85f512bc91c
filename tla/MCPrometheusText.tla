-------------------------- MODULE MCPrometheusText --------------------------
(* All help texts of up to 3 characters with all single label values of up *)
(* to 3 characters and all pairs of up to 1.                               *)
EXTENDS PrometheusText

AllCharacters == {"n", Quote, Backslash, NewLine}

Texts(n) == BoundedSeq(AllCharacters, n)

AllHelps == Texts(3)
AllLists ==
  {<<>>} \cup {<<v>> : v \in Texts(3)} \cup {<<v, w>> : v, w \in Texts(1)}

=============================================================================
