------------------------------- MODULE RateBucket -------------------------------
(***************************************************************************)
(* The token bucket (struct RateBucket, src/src/budget.rs), as operators   *)
(* on a record b: rate tokens per unit of time, up to capacity.            *)
(*                                                                         *)
(* Left out: fractions of a token, and the rounding of f64.                *)
(***************************************************************************)
EXTENDS Integers, FiniteSetsExt

(* per_second and per_minute.                                              *)
NewBucket(rate, burst, initially_full, now) ==
    LET capacity == IF rate = 0 THEN 0 ELSE Max({burst, 1})
    IN  [rate |-> rate, capacity |-> capacity,
         tokens |-> IF initially_full THEN capacity ELSE 0, last_refill |-> now]

Refill(b, now) ==
    IF now > b.last_refill
    THEN [b EXCEPT !.tokens = Min({@ + (now - b.last_refill) * b.rate, b.capacity}),
                   !.last_refill = now]
    ELSE b

SetRate(b, rate, now) ==
    LET r == Refill(b, now)
    IN  [r EXCEPT !.rate = rate, !.tokens = IF rate = 0 THEN 0 ELSE Min({@, r.capacity})]

Closed(b) == b.rate = 0 \/ b.capacity = 0

(* try_take: how many of max tokens there are, and the bucket without them.*)
Available(b, max, now) == IF Closed(b) THEN 0 ELSE Min({Refill(b, now).tokens, max})

Take(b, max, now) ==
    IF Closed(b) \/ max = 0 THEN b
    ELSE [Refill(b, now) EXCEPT !.tokens = @ - Available(b, max, now)]

(* try_take_one.                                                           *)
HasToken(b, now) == Available(b, 1, now) = 1

TakeOne(b, now) == Take(b, 1, now)

(* try_take_exact: all of count tokens, or none.                           *)
HasExactly(b, count, now) == count = 0 \/ Available(b, count, now) = count

TakeExactly(b, count, now) ==
    IF HasExactly(b, count, now) THEN Take(b, count, now)
    ELSE IF Closed(b) THEN b ELSE Refill(b, now)

Refund(b, count) == [b EXCEPT !.tokens = Min({@ + count, b.capacity})]
===============================================================================
