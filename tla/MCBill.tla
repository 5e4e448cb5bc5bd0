------------------------------- MODULE MCBill -------------------------------
(* Bill for TLC: the structs, and what there is at the start.              *)
EXTENDS Bill

CONSTANTS o1, o2, o3

(* On the shelf a stack of two.                                            *)
Stack2 == [o \in Obj |-> IF o = o1 THEN [NoObj EXCEPT !.where = "shelf", !.quan = 2] ELSE NoObj]
=============================================================================
