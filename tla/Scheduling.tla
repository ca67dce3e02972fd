----------------------------- MODULE Scheduling -----------------------------
(***************************************************************************)
(* The pure part of the scheduler: how many calls one tick may dispatch    *)
(* (campaign/scheduling.py) and which rows a LIMIT query hands it          *)
(* (campaign/repository.py).                                               *)
(***************************************************************************)
EXTENDS Integers, FiniteSets

Least(a, b)    == IF a < b THEN a ELSE b
Greatest(a, b) == IF a < b THEN b ELSE a

Unlimited == 1000000

\* Slip: calls_per_hour rounded down, so that a slow campaign gets no tick.
PerTickFloor(callsPerHour, ticksPerHour) == callsPerHour \div ticksPerHour

\* calls_per_hour spread over the ticks of an hour, rounded up, at least 1.
PerTick(callsPerHour, ticksPerHour) ==
    Greatest(1, (callsPerHour + ticksPerHour - 1) \div ticksPerHour)

\* pacing_allowance: the three limits intersected, each absent when its setting
\* is 0, and never negative.
PacingAllowance(callsPerHour, maxConcurrent, ticksPerHour, running, lastHour) ==
    LET rate  == IF callsPerHour > 0
                 THEN Least(PerTick(callsPerHour, ticksPerHour),
                            callsPerHour - lastHour)
                 ELSE Unlimited
        slots == IF maxConcurrent > 0 THEN maxConcurrent - running ELSE Unlimited
    IN  Greatest(0, Least(rate, slots))

\* b is what "ORDER BY created_at LIMIT n" returns of the rows in S, rows being
\* numbered by created_at.
FirstOf(S, n, b) ==
    /\ b \subseteq S
    /\ Cardinality(b) = Least(n, Cardinality(S))
    /\ \A d \in b, e \in S \ b : d < e
=============================================================================
