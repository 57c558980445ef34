---------------------------- MODULE FounderSeats ----------------------------
(***************************************************************************)
(* What the promo service promises, seen from outside: a code has a fixed  *)
(* number of founder seats, and a seat is granted in ONE atomic step, to   *)
(* an intake that has none of that code yet, with the next free number.    *)
(*                                                                         *)
(* promoService.ts does not work like this: it counts, looks for a         *)
(* duplicate and inserts in three separate statements, without a           *)
(* transaction. PromoReservation shows that it nevertheless implements     *)
(* this specification.                                                     *)
(***************************************************************************)
EXTENDS Naturals

CONSTANTS Codes,            \* promo codes
          Intakes,          \* intakes a code is applied to
          MaxRedemptions    \* promoCodes.maxRedemptions of each code

VARIABLE seats    \* the granted seats: [code, intake, founder]

SeatsOf(k) == {s \in seats : s.code = k}

Init == seats = {}

(* Seats 1..n of the code are granted, some remain, the intake has none:   *)
(* it gets seat n + 1.                                                     *)
Grant(k, i) ==
  \E n \in 0 .. (MaxRedemptions[k] - 1) :
    /\ {s.founder : s \in SeatsOf(k)} = 1 .. n
    /\ \A s \in SeatsOf(k) : s.intake # i
    /\ seats' = seats \cup {[code |-> k, intake |-> i, founder |-> n + 1]}

Next == \E k \in Codes, i \in Intakes : Grant(k, i)

Spec == Init /\ [][Next]_seats
=============================================================================
