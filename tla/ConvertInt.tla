----------------------------- MODULE ConvertInt -----------------------------
(***************************************************************************)
(* The loop that writes a number for the log (convertInt and convertHex in *)
(* matelib/base/LogStream.cc): its digits from the last to the first, and  *)
(* a minus sign.  The caller has made sure of kMaxNumericSize bytes.       *)
(*                                                                         *)
(* A digit stands for its character.  convertInt has Base 10; convertHex   *)
(* has Base 16, is given no negative value, and has "0x" before it.        *)
(***************************************************************************)
EXTENDS Integers, Sequences

CONSTANTS
  Base,    \* 10 or 16
  value    \* the number

VARIABLES
  i,       \* what is left of it
  digits,  \* buf up to p
  loop,    \* whether it turns again
  weight,  \* history: what a 1 written next would count
  shown    \* history: the number that the digits stand for

convertVars == <<i, digits, loop, weight, shown>>

\* Division in C rounds towards zero.
Quotient(n, d) == IF n >= 0 THEN n \div d ELSE -((-n) \div d)
Remainder(n, d) == IF n >= 0 THEN n % d ELSE -((-n) % d)

\* zero[lsd]: the digits lie before and behind the zero.
Digit(lsd) == IF lsd >= 0 THEN lsd ELSE -lsd

ConvertInit ==
  /\ i = value
  /\ digits = <<>>
  /\ loop = "do"
  /\ weight = 1
  /\ shown = 0

\* One turn of do ... while (i != 0).
Turn ==
  /\ loop = "do"
  /\ digits' = Append(digits, Digit(Remainder(i, Base)))
  /\ i' = Quotient(i, Base)
  /\ loop' = IF i' # 0 THEN "do" ELSE "done"
  /\ shown' = shown + Digit(Remainder(i, Base)) * weight
  /\ weight' = Base * weight

ConvertNext == Turn

ConvertSpec == ConvertInit /\ [][ConvertNext]_convertVars

-----------------------------------------------------------------------------
(* Properties.                                                             *)

Magnitude(n) == IF n >= 0 THEN n ELSE -n

\* When the loop ends the digits are those of the number, for negative ones too,
\* the least among them, which has no positive counterpart in its type.
ShowsValue == loop = "done" => Magnitude(value) = shown

\* How many bytes the digits, the sign and the terminator take.
Size == Len(digits) + (IF value < 0 THEN 1 ELSE 0) + 1

\* The loop never writes beyond n bytes, of which the caller made sure
\* (formatInterger).
FitsIn(n) == Size <= n
=============================================================================
