---- MODULE MCSubscription ----
(***************************************************************************)
(* Months of four, three, five, four and five days; a trial of two, and a  *)
(* clock that stops in the third month.                                    *)
(***************************************************************************)
EXTENDS Subscription

MCExtensions == {2, 3}
MCTerms == {1, 2}
MCFirstDay == <<1, 5, 8, 13, 17, 22>>

\* What a payment covers never ends before what was already paid for: no step moves the end
\* of it back ("un cobro no puede quitarle dias a nadie").
NoChargeShortens == [][paidTo' >= paidTo]_vars
====
