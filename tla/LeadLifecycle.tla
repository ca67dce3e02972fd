--------------------------- MODULE LeadLifecycle ---------------------------
(***************************************************************************)
(* What the dialing pipeline of a campaign promises for its leads, without *)
(* ticks, requests, callbacks or rows: each lead waits, is claimed, is     *)
(* called once, and is then settled for good or parked for one more        *)
(* attempt of its budget; no more leads than the cap allows are claimed or *)
(* called at once; the campaign closes when every lead is settled.         *)
(***************************************************************************)
EXTENDS Naturals, FiniteSets

CONSTANTS
    Leads,
    Attempts,       \* budget of attempts of a lead
    Cap             \* claimed and called leads at once; 0: any number

VARIABLES
    phase,      \* waiting, claimed, calling, parked or settled, by lead
    attempt,    \* the attempt it is at
    dials,      \* how often it has been called
    open        \* the campaign has not closed

vars == <<phase, attempt, dials, open>>

Init ==
    /\ phase = [l \in Leads |-> "waiting"]
    /\ attempt = [l \in Leads |-> 1]
    /\ dials = [l \in Leads |-> 0]
    /\ open = TRUE

Busy == {l \in Leads : phase[l] \in {"claimed", "calling"}}

Claim(l) ==
    /\ open /\ phase[l] = "waiting"
    /\ Cap > 0 => Cardinality(Busy) < Cap
    /\ phase' = [phase EXCEPT ![l] = "claimed"]
    /\ UNCHANGED <<attempt, dials, open>>

Place(l) ==
    /\ open /\ phase[l] = "claimed"
    /\ phase' = [phase EXCEPT ![l] = "calling"]
    /\ dials' = [dials EXCEPT ![l] = @ + 1]
    /\ UNCHANGED <<attempt, open>>

\* A call ends, or a lead turns out to have no number.
Settle(l) ==
    /\ open /\ phase[l] \in {"calling", "waiting"}
    /\ phase' = [phase EXCEPT ![l] = "settled"]
    /\ UNCHANGED <<attempt, dials, open>>

Park(l) ==
    /\ open /\ phase[l] \in {"calling", "waiting"}
    /\ attempt[l] < Attempts
    /\ phase' = [phase EXCEPT ![l] = "parked"]
    /\ attempt' = [attempt EXCEPT ![l] = @ + 1]
    /\ UNCHANGED <<dials, open>>

Wake(S) ==
    /\ open /\ S # {} /\ \A l \in S : phase[l] = "parked"
    /\ phase' = [l \in Leads |-> IF l \in S THEN "waiting" ELSE phase[l]]
    /\ UNCHANGED <<attempt, dials, open>>

Close ==
    /\ open /\ \A l \in Leads : phase[l] = "settled"
    /\ open' = FALSE
    /\ UNCHANGED <<phase, attempt, dials>>

Next ==
    \/ \E l \in Leads : Claim(l) \/ Place(l) \/ Settle(l) \/ Park(l)
    \/ \E S \in SUBSET Leads : Wake(S)
    \/ Close

Spec == Init /\ [][Next]_vars

\* A lead that may still be called has an attempt left to be called in.
Budget ==
    \A l \in Leads :
        /\ dials[l] <= attempt[l]
        /\ phase[l] \in {"waiting", "claimed", "parked"} => dials[l] < attempt[l]
=============================================================================
