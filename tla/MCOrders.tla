------------------------------ MODULE MCOrders ------------------------------
(* Small instances of Orders: one seller and one buyer own every order, so  *)
(* that the fraud rules relate all of them.                                 *)
EXTENDS Orders, TLC

CONSTANTS o1, o2, w1, w2, alice, bob

MCSellerOf == [o \in Order |-> alice]
MCBuyerOf == [o \in Order |-> bob]
MCOrderSymmetry == Permutations(Order)
=============================================================================
