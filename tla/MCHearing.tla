----------------------------- MODULE MCHearing -----------------------------
(* Values for TLC's instances of Hearing. *)
EXTENDS Hearing

Agents    == {"tts-agent"}
Caller    == {"caller"}
Anyone    == {Everyone}
Socks     == 1..2
=============================================================================
