------------------------------- MODULE Board --------------------------------
(***************************************************************************)
(* The cells of a board and which of them are beside each other.           *)
(***************************************************************************)
EXTENDS Integers

CONSTANTS Rows, Cols

ASSUME BoardAssumption == Rows \in Nat \ {0} /\ Cols \in Nat \ {0}

Cell == (1..Rows) \X (1..Cols)

Neighbors == [c \in Cell |->
    {d \in Cell : d # c /\ d[1] - c[1] \in -1..1 /\ d[2] - c[2] \in -1..1}]
=============================================================================
