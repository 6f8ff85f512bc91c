--------------------------- MODULE MCAdsProvider ---------------------------
(* Two programs that swap the addresses of two symbols.                    *)
EXTENDS AdsProvider

CONSTANTS a, b, c

AB == {a, b}
ABC == {a, b, c}
OneGroup == <<<<a, b>>>>
TwoGroups == <<<<a, b>>, <<c>>>>
Two == 1..2
One == 1..1

AllExported == [e \in Eras |-> Symbols]
WithoutA == [e \in Eras |-> Symbols \ {a}]
GainsA == [e \in Eras |-> IF e = 1 THEN Symbols \ {a} ELSE Symbols]

(* The first program keeps a before b, the second b before a. *)
Swapped ==
  [e \in Eras |->
     [s \in Symbols |-> IF s = c THEN 3
                        ELSE IF (s = a) = (e = 1) THEN 1 ELSE 2]]

=============================================================================
