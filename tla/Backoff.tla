------------------------------ MODULE Backoff -------------------------------
(***************************************************************************)
(* The retry policy that the webhook outbox and the invite feed share      *)
(* (platform/checks/delivery.go): attempts before a row is dead-lettered   *)
(* and the delay before the next one.                                      *)
(***************************************************************************)
EXTENDS Naturals

CONSTANTS MaxDeliveryAttempts, BackoffMin, BackoffMax    \* delays in ticks

ASSUME BackoffAssumption ==
    /\ MaxDeliveryAttempts \in Nat \ {0}
    /\ BackoffMin \in Nat \ {0} /\ BackoffMax \in Nat

\* NextBackoff: base, doubled n - 1 times, up to the cap.
NextBackoff(n, base, max) ==
    LET d == base * 2 ^ (n - 1)
    IN  IF n <= 1 THEN base ELSE IF d >= max THEN max ELSE d

\* A failed attempt of a row, recorded with a clock that was read age ticks
\* ago.  The row keeps its other fields.
Failed(row, age) ==
    LET n    == row.attempt + 1
        next == NextBackoff(n, BackoffMin, BackoffMax)
    IN  [row EXCEPT !.status = IF n >= MaxDeliveryAttempts THEN "dead_letter"
                               ELSE "failed",
                    !.attempt = n,
                    !.wait = IF age >= next THEN 0 ELSE next - age]
=============================================================================
