------------------------------ MODULE MCFraming ------------------------------
(* Framing with packets of 11 bytes (2 bytes of data in the first, 10 in the *)
(* others) and bodies around the packet boundaries, made of '?', '#' and     *)
(* small numbers.                                                            *)
EXTENDS Framing

Body(n) == [i \in 1..n |-> IF i = 3 THEN 35 ELSE IF i % 4 = 0 THEN 63 ELSE 1 + i]

MCMessages ==
    {[id |-> 17, body |-> Body(n)] : n \in {0, 2, 3, 12, 13}}
       \union {[id |-> 300, body |-> Body(23)]}

ASSUME Bodies == Unambiguous

=============================================================================
