----------------------------- MODULE MCDialing -----------------------------
(* Values for TLC's instances of Dialing.                                      *)
EXTENDS DialingLifecycle, TLC

CONSTANTS c1, c2, c3, c4, t1

FourCalls  == {c1, c2, c3, c4}
TwoCalls   == {c1, c2}
OneTick    == {t1}

AnyOutcome == Outcome
Answered   == {"completed", "no_answer"}
NoFaults   == {}
AllFaults  == FaultKinds
NoLead     == {}
Twilio     == {"twilio"}
LiveKit    == {"livekit_sip"}
BothPaths  == {"twilio", "livekit_sip"}
LastLead   == {NumLeads}
=============================================================================
