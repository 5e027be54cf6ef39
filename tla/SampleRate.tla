----------------------------- MODULE SampleRate -----------------------------
(***************************************************************************)
(* The sampling percentage: how reeed reads it from its command line       *)
(* (percent.UnmarshalText in cmd/reeed/main.go) and how the daemon uses it *)
(* to decide whether a new message is sampled (prepareMsg in               *)
(* daemon/daemon.go).                                                      *)
(*                                                                         *)
(* A text is a sequence of characters.  A number is a natural in units of  *)
(* 10^-MaxChars; the rounding of floating point is left out, and a float   *)
(* is too large from TooLarge on.  The 64-bit integers of the code have    *)
(* Width bits.  A definition headed "Slip:" is a plausible mistake in the  *)
(* definition that follows; it tests the properties.                       *)
(***************************************************************************)
EXTENDS Integers, SequencesExt

CONSTANTS
  Digits,    (* digit characters -> their values                           *)
  Others,    (* characters besides digits, the dot and the percent sign    *)
  MaxChars,  (* bound: characters of a text                                *)
  TooLarge,  (* bound: the first number that is no float64, near 2^1024    *)
  Width,     (* bits of an integer, 64 in the code                         *)
  Overflowed (* what the build converts a float beyond the integers to     *)

ASSUME SampleAssumption ==
  /\ MaxChars \in Nat /\ Width \in Nat \ {0, 1}
  /\ TooLarge \in Nat /\ TooLarge > 100
  /\ Overflowed \subseteq (-(2^(Width - 1)))..(2^(Width - 1) - 1)

DOT  == "."
SIGN == "%"

ASSUME DigitsAssumption == /\ DOT \notin DOMAIN Digits /\ SIGN \notin DOMAIN Digits
                           /\ \A ch \in DOMAIN Digits : Digits[ch] \in 0..9

Texts == BoundedSeq(DOMAIN Digits \cup Others \cup {DOT, SIGN}, MaxChars)

(* The number with the digits v behind those of n.                         *)
Decimal(n, v) == LET d[i \in 0..Len(v)] ==
                       IF i = 0 THEN n ELSE 10 * d[i - 1] + v[i]
                 IN d[Len(v)]

Tens(k) == Decimal(1, [i \in 1..k |-> 0])
One     == Tens(MaxChars)
Hundred == 100 * One

IsDigit(ch) == ch \in DOMAIN Digits
AllDigits(s) == \A i \in DOMAIN s : IsDigit(s[i])

Natural(s) == Decimal(0, [i \in DOMAIN s |-> Digits[s[i]]])

(* strconv.ParseFloat: digits with at most one dot among them.  Exponents, *)
(* "inf" and the like need characters that are left out.                   *)
IsNumber(s) ==
  \/ s # <<>> /\ AllDigits(s)
  \/ \E i \in DOMAIN s : /\ s[i] = DOT /\ Len(s) > 1
                         /\ AllDigits(RemoveAt(s, i))
Number(s) ==
  LET i == SelectInSeq(s, LAMBDA ch : ch = DOT)
  IN IF i = 0 THEN Natural(s) * One
     ELSE Natural(RemoveAt(s, i)) * Tens(MaxChars - (Len(s) - i))

-----------------------------------------------------------------------------
(* A percentage not read yet, and an error.                                *)
Unread  == -1
Refused == -2

(* The number converted.  Only one that is both an error and out of range  *)
(* is refused, which is one too large for a float: what is no number comes *)
(* out as 0, and a number above 100 is no error.                           *)
Convert(s) == IF ~ IsNumber(s) THEN 0
              ELSE IF Number(s) >= TooLarge * One THEN Refused
              ELSE Number(s)

(* Slip: a final percent sign is not cut off.                              *)
UnmarshalTextUncut(b) ==
  LET i == SelectInSeq(b, LAMBDA ch : ~ IsDigit(ch))
  IN IF b = <<>> THEN Refused
     ELSE IF i = 0 \/ b[i] = DOT \/ (b[i] = SIGN /\ i = Len(b)) THEN Convert(b)
     ELSE Refused

(* UnmarshalText, Refused for an error.  What follows a dot is not         *)
(* validated, because dot is never set, and a percent sign there is not    *)
(* cut off.                                                                *)
UnmarshalText(b) ==
  LET i == SelectInSeq(b, LAMBDA ch : ~ IsDigit(ch))
  IN IF b = <<>> THEN Refused
     ELSE IF i = 0 \/ b[i] = DOT THEN Convert(b)
     ELSE IF b[i] = SIGN /\ i = Len(b) THEN Convert(Front(b))
     ELSE Refused

(* int64(float64(1<<63) * pct): what does not fit is up to the build.      *)
Thresholds(f) ==
  IF f < Hundred THEN {(2^(Width - 1) * f) \div Hundred} ELSE Overflowed

(* What SampleSrc.Int63 may return.                                        *)
Draws == 0..(2^(Width - 1) - 1)

-----------------------------------------------------------------------------
VARIABLES
  text, (* the argument of --sample                                        *)
  pct,  (* what it is read as: a number, Unread, or Refused                *)
  max   (* the threshold a draw is compared with, or Unset                 *)

rateVars == <<text, pct, max>>

(* No threshold has this value: it has one bit too many.                   *)
Unset == 2^Width

RateInit == text \in Texts /\ pct = Unread /\ max = Unset

ReadArg == /\ pct = Unread
           /\ pct' = UnmarshalText(text)
           /\ UNCHANGED <<text, max>>

Prepare == /\ pct \notin {Unread, Refused} /\ max = Unset
           /\ max' \in Thresholds(pct)
           /\ UNCHANGED <<text, pct>>

RateNext == ReadArg \/ Prepare

RateSpec == RateInit /\ [][RateNext]_rateVars

-----------------------------------------------------------------------------
(* Properties                                                              *)

(* The text without its percent sign, if it ends in one.                   *)
Bare == IF text # <<>> /\ Last(text) = SIGN THEN Front(text) ELSE text

Decided == pct # Unread

(* A whole percentage up to 100, with its sign or without, is read as the  *)
(* number it is, and a text that is no number before its dot is an error.  *)
WholePercents ==
  Decided => /\ Bare # <<>> /\ AllDigits(Bare) /\ Number(Bare) <= Hundred
                  => pct = Number(Bare)
             /\ \A i \in DOMAIN Bare :
                  ~ IsDigit(Bare[i]) /\ AllDigits(SubSeq(Bare, 1, i - 1)) /\ Bare[i] # DOT
                    => pct = Refused

(* With a "sample percentage" (main.go:34) of 100, which is allowed, every *)
(* message is sampled.  False of the code where the overflow of the        *)
(* threshold (daemon.go:379) makes it negative.                            *)
HundredSamplesAll ==
  max # Unset /\ pct = Hundred => \A s \in Draws : s <= max
=============================================================================
