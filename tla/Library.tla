------------------------------- MODULE Library -------------------------------
(***************************************************************************)
(* The conversions of src/common/stdlib.c and the arithmetic of the two    *)
(* programs of src/kernel/system_user_threads.c that need them: each is a  *)
(* sequence of calls of the division.  A state is the activation of one    *)
(* call of itoa, metric or master_mind, made with any arguments.           *)
(*                                                                         *)
(* A character is its code, and a string has no final 0.                   *)
(***************************************************************************)
EXTENDS Division, SequencesExt

CONSTANT Times   \* the values of the clock and of the random numbers

ASSUME TimesAreWords == Times \subseteq Word

VARIABLES
  caller,   \* the function in progress: "none" between two calls
  arg,      \* its arguments, which the code need not keep
  i,        \* itoa: what is left of the number; metric, master_mind: the result
  intbuf    \* itoa's buffer

libVars == <<caller, arg, i, intbuf>>
vars    == <<divVars, libVars>>

Zero  == 48
Minus == 45
LowerA == 97
LowerX == 120

Int32 == -Half .. Half - 1
signed(w) == IF w < Half THEN w ELSE w - Modulus

Init == /\ DivInit
        /\ caller = "none" /\ arg = <<0, 10>> /\ i = 0 /\ intbuf = <<>>

-----------------------------------------------------------------------------
\* atoi: no character is refused, and the result wraps.
atoi(str) ==
  LET negative == str # <<>> /\ Head(str) = Minus
      digits   == IF negative THEN Tail(str) ELSE str
      res      == FoldLeft(LAMBDA r, c : (r * 10 + c - Zero) % Modulus, 0, digits)
  IN  signed(IF negative THEN (-res) % Modulus ELSE res)

\* itoa, called by printf and printerr: -num of the least int is itself.
itoa(num, base) ==
  /\ caller = "none" /\ at = "ready"
  /\ arg' = <<num, base>>
  /\ IF num = 0
     THEN intbuf' = <<Zero>> /\ i' = 0 /\ caller' = "printed"
     ELSE /\ intbuf' = <<>>
          /\ i' = (IF base = 10 /\ num < 0 THEN -num ELSE num) % Modulus
          /\ caller' = "itoa"
  /\ UNCHANGED divVars

\* while (i != 0)
NextDigit == /\ caller = "itoa" /\ i # 0
             /\ div(i, arg[2])
             /\ UNCHANGED libVars

\* Mutant of Digit: with <= for <.
DigitTen(d10) == IF d10 <= 10 THEN Zero + d10 ELSE LowerA + d10 - 10

Digit(d10) == IF d10 < 10 THEN Zero + d10 ELSE LowerA + d10 - 10

StoreDigit == /\ caller = "itoa"
              /\ DivReturn
              /\ intbuf' = Append(intbuf, Digit(mod_result))
              /\ i' = div_result
              /\ UNCHANGED <<caller, arg>>

Sign(num, base) == IF base = 10 /\ num < 0 THEN <<Minus>> ELSE <<>>
Prefix(base)    == IF base = 16 THEN <<LowerX, Zero>> ELSE <<>>

\* The digits are there in reverse.
EndItoa == /\ caller = "itoa" /\ i = 0 /\ at = "ready"
           /\ intbuf' = Reverse(intbuf \o Sign(arg[1], arg[2]) \o Prefix(arg[2]))
           /\ caller' = "printed"
           /\ UNCHANGED <<divVars, arg, i>>

-----------------------------------------------------------------------------
\* __aeabi_uidiv, which the compiler calls for /, repeats the text of div.
uidiv(num, divisor) == div(num, divisor)

\* metric: the quotient of the two times first.
metric(total_time, system_time) ==
  /\ caller = "none"
  /\ uidiv(total_time, system_time)
  /\ arg' = <<total_time, system_time>> /\ caller' = "ratio"
  /\ UNCHANGED <<i, intbuf>>

\* Mutant of RatioDone: % for /.
RatioRemainder == /\ caller = "ratio"
                  /\ DivReturn
                  /\ i' = mod_result /\ caller' = "percent"
                  /\ UNCHANGED <<arg, intbuf>>

RatioDone == /\ caller = "ratio"
             /\ DivReturn
             /\ i' = div_result /\ caller' = "percent"
             /\ UNCHANGED <<arg, intbuf>>

Percent == /\ caller = "percent"
           /\ uidiv(100, i)
           /\ UNCHANGED libVars

PercentDone == /\ caller = "percent"
               /\ DivReturn
               /\ i' = div_result /\ caller' = "measured"
               /\ UNCHANGED <<arg, intbuf>>

-----------------------------------------------------------------------------
\* master_mind: a number below the range that was entered.  The seed of rand is
\* the time of the call, so its first number may be any.
master_mind(random, entered_number) ==
  /\ caller = "none"
  /\ div(random, entered_number)
  /\ arg' = <<random, entered_number>> /\ caller' = "master_mind"
  /\ UNCHANGED <<i, intbuf>>

Decide == /\ caller = "master_mind"
          /\ DivReturn
          /\ i' = mod_result /\ caller' = "decided"
          /\ UNCHANGED <<arg, intbuf>>

\* Between two calls nothing is kept but intbuf, which the next one overwrites.
Return == /\ caller \in {"printed", "measured", "decided"}
          /\ caller' = "none" /\ arg' = <<0, 10>> /\ i' = 0 /\ intbuf' = <<>>
          /\ UNCHANGED divVars

InDiv == DivStep /\ UNCHANGED libVars

\* What a call that has begun does next.
Step == \/ NextDigit \/ StoreDigit \/ EndItoa
        \/ RatioDone \/ Percent \/ PercentDone
        \/ Decide
        \/ InDiv \/ Return

Next == \/ \E num \in Int32, base \in {10, 16} : itoa(num, base)
        \/ \E t, s \in Times : metric(t, s) \/ master_mind(t, s)
        \/ Step

Spec     == Init /\ [][Next]_vars
FairSpec == Spec /\ WF_vars(Step)

-----------------------------------------------------------------------------
HexDigits == 48 .. 57 \cup 97 .. 102
HexValue(str) ==
  FoldLeft(LAMBDA v, c : v * 16 + (IF c < LowerA THEN c - Zero ELSE c - LowerA + 10), 0, str)

\* What printf writes for %d is read back by atoi as the number, the least int
\* included, and has no zero in front; what it writes for %x has the value of the
\* number as a word, in the digits 0 to 9 and a to f.
TextReadsBack ==
  caller = "printed" =>
    IF arg[1] = 0 THEN intbuf = <<Zero>>
    ELSE IF arg[2] = 10 THEN atoi(intbuf) = arg[1] /\ Head(intbuf) # Zero
    ELSE LET digits == SubSeq(intbuf, 3, Len(intbuf))
         IN  /\ SubSeq(intbuf, 1, 2) = <<Zero, LowerX>>
             /\ digits \in Seq(HexDigits) /\ Head(digits) # Zero
             /\ HexValue(digits) = arg[1] % Modulus

\* The share that metric prints is never below the true one, nor above 100, as
\* long as no more than all the time is the system's.
PercentBounds ==
  caller = "measured" /\ NoOverflow(arg[1], arg[2]) /\ arg[2] <= arg[1] =>
    /\ i <= 100
    /\ (100 * arg[2]) \div arg[1] <= i

\* The calls that the long division can serve come to an end: %d of any number,
\* %x of one without the top bit, the metric of two times that grow as they
\* should, and the game with a range and a random number below 2^31.  printf
\* holds input_lock all that time.
Terminates ==
  \/ caller = "itoa" /\ (arg[2] = 10 \/ arg[1] >= 0)
  \/ caller \in {"ratio", "percent"} /\ NoOverflow(arg[1], arg[2]) /\ arg[2] <= arg[1]
  \/ caller = "master_mind" /\ NoOverflow(arg[1], arg[2])

CallsReturn == Terminates ~> caller = "none"
=============================================================================
