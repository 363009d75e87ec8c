------------------------------ MODULE MCListings ------------------------------
(***************************************************************************)
(* Seven vehicles, one of them without dealer, at three dealers: two in    *)
(* one state under two names, one of them without coordinates.  Prices are *)
(* missing, 0, equal, or filled in from the second column; one colour is   *)
(* NULL, one has a comma, one has two spellings; a stage has two labels.   *)
(* The second fleet has a vehicle without a row of prices and one that is  *)
(* no longer active.                                                       *)
(***************************************************************************)
EXTENDS Listings

Row(a, n, t, b) == [adv |-> a, nonsp |-> n, total |-> t, base |-> b]
NoRow == Row(NoPrice, NoPrice, NoPrice, NoPrice)

Vehicle(s, colour, dealer, stage, label, row, options, active, trim) ==
  [series |-> s, attr |-> [colour |-> colour, dealer |-> dealer, stage |-> stage], label |-> label,
   price |-> row, priced |-> row # NoRow, options |-> options, active |-> active, trim |-> trim]

Car7 == <<
  Vehicle("s1", "red",       "d1", "a",  "l1", Row(10, NoPrice, 12, NoPrice), {"o1"}, TRUE, "t1"),
  Vehicle("s1", "red,black", "d2", "a",  "l1", Row(10, NoPrice, NoPrice, 10), {},     TRUE, "t1"),
  Vehicle("s1", Null,        "d3", "a",  "l2", Row(NoPrice, 13, 12, NoPrice), {"o1"}, TRUE, "t1"),
  Vehicle("s2", "blue",      "d1", "a",  "l2", Row(0, 9, 15, NoPrice),        {},     TRUE, "t2"),
  Vehicle("s2", "red",       Null, Null, "l1", Row(15, NoPrice, 0, 14),       {"o1"}, FALSE, "t1"),
  Vehicle("s1", "Blue",      "d3", Null, "l1", Row(12, 11, 13, 11),           {},     TRUE, "t1"),
  Vehicle("s1", "red",       "d1", "a",  "l1", NoRow,                         {},     TRUE, "t1") >>

Class2(x) == IF x = "Blue" THEN "blue" ELSE x
Meant2(x) == IF x = "red,black" THEN {"red", "black"} ELSE {Class2(x)}

Dealer3 == [d \in {"d1", "d2", "d3"} |->
  CASE d = "d1" -> [state |-> "CA", miles |-> 5]
    [] d = "d2" -> [state |-> "California", miles |-> NoCoords]
    [] d = "d3" -> [state |-> "Ontario", miles |-> 20]]
Name3 == [d \in {"d1", "d2", "d3"} |-> CASE d = "d1" -> 1 [] d = "d2" -> 2 [] d = "d3" -> 3]
Codes2 == [s \in {"CA", "California", "Ontario"} |-> IF s = "Ontario" THEN NoState ELSE "CA"]
Names1 == [c \in {"CA"} |-> "California"]

Fleets2 == <<{1, 2, 3, 4, 6}, 2 .. 7>>
=============================================================================
