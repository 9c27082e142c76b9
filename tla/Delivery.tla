------------------------------ MODULE Delivery ------------------------------
(***************************************************************************)
(* What the installer promises of packages, wherever they come from and    *)
(* however often pages are gone back to: an order is placed and worked on; *)
(* what is delivered is of the order, and the work comes to rest only when *)
(* the order is complete, but for what the supplier denies, or the user    *)
(* has been told that it is not.  The promise is for an order that can be  *)
(* read: the installer frees the list it works from, and a list that is    *)
(* read again is any list.                                                 *)
(***************************************************************************)
CONSTANT Item

VARIABLES
  wanted,     \* what was ordered last
  delivered,  \* what has been delivered, for this order and earlier ones
  denied,     \* what the supplier would not take an order for, when last asked
  short,      \* the user knows that something is missing
  blind,      \* the work is from an order that cannot be read any more
  phase       \* "choose", "work", "rest" or "over"

delivery == <<wanted, delivered, denied, short, blind, phase>>

Init ==
  /\ wanted = {} /\ delivered = {} /\ denied = {}
  /\ short = FALSE /\ blind = FALSE
  /\ phase = "choose"

\* A new order; what earlier ones have delivered stays.
Order ==
  /\ phase = "choose"
  /\ wanted' \in SUBSET Item
  /\ denied' = {} /\ short' = FALSE /\ blind' = FALSE
  /\ phase' = "work"
  /\ UNCHANGED delivered

\* The supplier is asked for some items, and denies those in no.
Ask ==
  /\ phase = "work"
  /\ \E asked \in SUBSET (IF blind THEN Item ELSE wanted) : \E no \in SUBSET asked :
       denied' = (denied \ asked) \cup no
  /\ UNCHANGED <<wanted, delivered, short, blind, phase>>

\* Some items are delivered, perhaps the last ones, perhaps before a failure.
Deliver ==
  /\ phase = "work"
  /\ \E items \in SUBSET (IF blind THEN Item ELSE wanted) :
       delivered' = delivered \cup items
  /\ phase' \in {"work", "rest", "over"}
  /\ phase' = "rest" /\ ~short => wanted \ denied \subseteq delivered'
  /\ UNCHANGED <<wanted, denied, short, blind>>

\* The user has been asked, and has nothing more to deliver from.
GiveUp ==
  /\ phase = "work"
  /\ short' = TRUE
  /\ phase' = "rest"
  /\ UNCHANGED <<wanted, delivered, denied, blind>>

\* The same order is worked on again, if it can still be read.
Again ==
  /\ phase = "rest"
  /\ blind' \in {blind, TRUE}
  /\ phase' = "work"
  /\ UNCHANGED <<wanted, delivered, denied, short>>

\* The user goes back to choose.
Reconsider ==
  /\ phase = "rest"
  /\ phase' = "choose"
  /\ UNCHANGED <<wanted, delivered, denied, short, blind>>

Abort ==
  /\ phase # "over"
  /\ phase' = "over"
  /\ UNCHANGED <<wanted, delivered, denied, short, blind>>

Next == Order \/ Ask \/ Deliver \/ GiveUp \/ Again \/ Reconsider \/ Abort

Spec == Init /\ [][Next]_delivery
=============================================================================
