------------------------------- MODULE MCOrders -------------------------------
(* Instances of Orders for TLC.  Each configuration picks a set of orders with *)
(* their items and the operations its users call.                              *)
EXTENDS OrderProperties, TLC

CONSTANTS o1, o2, i1, i2, i3, b1, w1, w2

Workers == Permutations({w1, w2})

\* Two orders of the same box, with a folder of that box in the second.
LoanOrders == (i1 :> o1) @@ (i2 :> o2) @@ (i3 :> o2)
LoanBoxes == (i1 :> b1) @@ (i2 :> b1) @@ (i3 :> b1)

\* Two checkouts of the same box, without the folder.
LoanTypes == (o1 :> "checkout") @@ (o2 :> "checkout")
PairOrders == (i1 :> o1) @@ (i2 :> o2)
PairBoxes == (i1 :> b1) @@ (i2 :> b1)

\* One order with two items: a whole box and a folder of no box.
OneCheckout == (o1 :> "checkout")
OneOrder == (i1 :> o1) @@ (i2 :> o1)
OneBoxed == (i1 :> b1) @@ (i2 :> NoBox)

\* A scan order with two items and one made ready before quotes existed.
ScanTypes == (o1 :> "scan") @@ (o2 :> "scan")
ScanOrders == (i1 :> o1) @@ (i2 :> o1) @@ (i3 :> o2)
ScanBoxes == (i1 :> NoBox) @@ (i2 :> NoBox) @@ (i3 :> NoBox)

\* A box that a client returns, and an order to dispose of the box and a folder.
SettlingTypes == (o1 :> "return_order") @@ (o2 :> "disposal")
===============================================================================
