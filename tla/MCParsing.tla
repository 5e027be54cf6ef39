----------------------------- MODULE MCParsing -----------------------------
(***************************************************************************)
(* Small instances, for TLC, of the two parsers written by hand: the       *)
(* command line of the protocol (CommandCodec) and the percentage          *)
(* (SampleRate).  A behaviour parses with one of them.                     *)
(***************************************************************************)
EXTENDS CommandCodec, SampleRate

MCDigits == [d \in {"0", "1", "2", "5"} |->
               CASE d = "0" -> 0 [] d = "1" -> 1 [] d = "2" -> 2 [] d = "5" -> 5]

(* amd64 converts a float that does not fit to the smallest integer, arm64 *)
(* to the nearest one.                                                     *)
MCOverflowed == {-(2^(Width - 1)), 2^(Width - 1) - 1}

ParseInit == Init /\ RateInit

ParseNext == \/ text = <<>> /\ pct = Unread /\ Next /\ UNCHANGED rateVars
             \/ line = <<>> /\ RateNext /\ UNCHANGED vars

ParseSpec == ParseInit /\ [][ParseNext]_<<vars, rateVars>>
=============================================================================
