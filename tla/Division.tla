------------------------------ MODULE Division ------------------------------
(***************************************************************************)
(* The division of src/common/stdlib.c, for a processor without one: long  *)
(* division in binary on machine words.  A state is the activation of one  *)
(* call of div, whose body __aeabi_uidiv repeats word for word; a step is  *)
(* a turn of one of its loops.                                             *)
(***************************************************************************)
EXTENDS Integers

CONSTANT Half   \* half the number of values of a word: 2^31

ASSUME WordAssumption == Half \in Nat \ {0}

Modulus == 2 * Half
Word    == 0 .. Modulus - 1

VARIABLES
  at,        \* where the call is; "ready" between two calls
  dividend,  \* what is left of the argument n
  denom,     \* the divisor, shifted
  current,   \* the bit of the answer that denom stands for
  answer,
  n, d       \* the arguments, which the code need not keep

divVars == <<at, dividend, denom, current, answer, n, d>>

DivTypeOK ==
  /\ at \in {"ready", "double", "subtract", "return"}
  /\ {dividend, denom, current, answer, n, d} \subseteq Word

DivInit == /\ at = "ready"
           /\ dividend = 0 /\ denom = 0 /\ current = 0 /\ answer = 0
           /\ n = 0 /\ d = 0

\* The call, with its two early returns.
div(num, divisor) ==
  /\ at = "ready"
  /\ n' = num /\ d' = divisor
  /\ dividend' = num /\ denom' = divisor /\ current' = 1
  /\ answer' = IF divisor = num THEN 1 ELSE 0
  /\ at' = IF divisor < num THEN "double" ELSE "return"

ShiftLeft(w) == (2 * w) % Modulus

\* Mutant of Double: with < for <=.
DoubleStops ==
  /\ at = "double" /\ denom < dividend
  /\ denom' = ShiftLeft(denom) /\ current' = ShiftLeft(current)
  /\ UNCHANGED <<at, dividend, answer, n, d>>

\* while (denom <= dividend): the shifts lose the upper bit.
Double ==
  /\ at = "double" /\ denom <= dividend
  /\ denom' = ShiftLeft(denom) /\ current' = ShiftLeft(current)
  /\ UNCHANGED <<at, dividend, answer, n, d>>

EndDouble ==
  /\ at = "double" /\ denom > dividend
  /\ denom' = denom \div 2 /\ current' = current \div 2
  /\ at' = "subtract"
  /\ UNCHANGED <<dividend, answer, n, d>>

\* Mutant of Subtract: with > for >=.
SubtractStrict ==
  /\ at = "subtract" /\ current # 0
  /\ IF dividend > denom
     THEN dividend' = dividend - denom /\ answer' = answer + current
     ELSE UNCHANGED <<dividend, answer>>
  /\ denom' = denom \div 2 /\ current' = current \div 2
  /\ UNCHANGED <<at, n, d>>

\* while (current != 0): the bits of answer are above current, so that |= adds.
Subtract ==
  /\ at = "subtract" /\ current # 0
  /\ IF dividend >= denom
     THEN dividend' = dividend - denom /\ answer' = answer + current
     ELSE UNCHANGED <<dividend, answer>>
  /\ denom' = denom \div 2 /\ current' = current \div 2
  /\ UNCHANGED <<at, n, d>>

EndSubtract == /\ at = "subtract" /\ current = 0
               /\ at' = "return"
               /\ UNCHANGED <<dividend, denom, current, answer, n, d>>

\* The body of a call that has begun.
DivStep == Double \/ EndDouble \/ Subtract \/ EndSubtract

\* The caller takes the result, and the locals are gone.
DivReturn == /\ at = "return"
             /\ at' = "ready"
             /\ dividend' = 0 /\ denom' = 0 /\ current' = 0 /\ answer' = 0
             /\ n' = 0 /\ d' = 0

\* div on its own, called with any two words.
DivNext == \/ \E num, divisor \in Word : div(num, divisor)
           \/ DivStep
           \/ DivReturn

DivSpec == DivInit /\ [][DivNext]_divVars

-----------------------------------------------------------------------------
\* What divmod makes of the answer (stdlib.c:40).
div_result == answer
mod_result == (n - answer * d) % Modulus

\* No doubling of the divisor below the dividend leaves the word.
NoOverflow(num, divisor) == divisor # 0 /\ num < Half

\* A dividend that a signed int holds, and a divisor that is not 0, give the
\* quotient and the remainder: the loops neither overflow nor lose a bit.
DivIsQuotient ==
  at = "return" /\ NoOverflow(n, d) =>
    /\ mod_result < d
    /\ n = div_result * d + mod_result
=============================================================================
