---------------------------- MODULE LibraryProofs ----------------------------
(***************************************************************************)
(* The division and its callers, for every width of a word that the        *)
(* theorem names.  The division: its variables stay words, and a dividend  *)
(* up to 2^31 and a divisor other than 0 give the quotient.  metric: the   *)
(* share is in bounds.  itoa: its text is read back.  The text is a fold   *)
(* over the digits, which is a recursive function: what it computes is     *)
(* proved with the least number that a claim fails for.                    *)
(***************************************************************************)
EXTENDS Library, TLAPS, SequenceTheorems, WellFoundedInduction, NaturalsInduction

\* The powers of two, without an exponent: what is in every set that has 1 and
\* is closed under doubling.
Doubles(S)  == 1 \in S /\ \A x \in S : 2 * x \in S
IsPower2(p) == p \in Nat /\ \A S \in SUBSET Nat : Doubles(S) => p \in S

\* Every power of two but 1 is the double of another.
LEMMA PowerOneOrEven ==
  ASSUME NEW p, IsPower2(p), p # 1
  PROVE  \E h \in Nat : IsPower2(h) /\ p = 2 * h
<1> DEFINE S == {1} \cup {2 * h : h \in {g \in Nat : IsPower2(g)}}
<1>1. IsPower2(1)
  BY DEF IsPower2, Doubles
<1>2. ASSUME NEW g \in Nat, IsPower2(g) PROVE IsPower2(2 * g)
  BY <1>2 DEF IsPower2, Doubles
<1>3. S \in SUBSET Nat
  OBVIOUS
<1>4. Doubles(S)
  <2>1. ASSUME NEW x \in S PROVE 2 * x \in S
    <3>1. CASE x = 1
      BY <3>1, <1>1
    <3>2. CASE x # 1
      <4>1. PICK h \in Nat : IsPower2(h) /\ x = 2 * h
        BY <2>1, <3>2
      <4>2. 2 * h \in Nat /\ IsPower2(2 * h)
        BY <4>1, <1>2
      <4> QED BY <4>1, <4>2
    <3> QED BY <3>1, <3>2
  <2> QED BY <2>1 DEF Doubles
<1>5. p \in S
  BY <1>3, <1>4 DEF IsPower2
<1> QED BY <1>5

LEMMA PowerOfOne == IsPower2(1)
BY DEF IsPower2, Doubles

LEMMA PowerDoubles ==
  ASSUME NEW g \in Nat, IsPower2(g) PROVE IsPower2(2 * g)
BY DEF IsPower2, Doubles

LEMMA TimesTwo ==
  ASSUME NEW x \in Nat, NEW y \in Nat
  PROVE  x * (2 * y) = 2 * (x * y) /\ (2 * (x * y)) \div 2 = x * y
OBVIOUS

LEMMA TimesSum ==
  ASSUME NEW x \in Nat, NEW y \in Nat, NEW z \in Nat
  PROVE  (x + y) * z = x * z + y * z /\ x * z \in Nat
OBVIOUS

\* current is a factor of denom, hence not above it.
LEMMA FactorBelow ==
  ASSUME NEW x \in Nat, NEW y \in Nat, x # 0
  PROVE  y <= x * y
OBVIOUS

-----------------------------------------------------------------------------
(* Types, for all arguments, those that overflow included.                 *)

LEMMA WordFacts ==
  /\ Half \in Nat /\ Half >= 1
  /\ Modulus = 2 * Half
  /\ 0 \in Word /\ 1 \in Word
  /\ \A w \in Word : w \in Nat /\ ShiftLeft(w) \in Word /\ w \div 2 \in Word
BY WordAssumption DEF Modulus, Word, ShiftLeft

\* The sum of answer and current stays a word because answer has no bit below
\* the double of current.
TypeInv ==
  /\ DivTypeOK
  /\ at = "double" => answer = 0
  /\ at = "subtract" => answer + 2 * current <= Modulus

LEMMA TypeInvInit == DivInit => TypeInv
BY WordFacts DEF DivInit, TypeInv, DivTypeOK

LEMMA TypeInvNext == TypeInv /\ [DivNext]_divVars => TypeInv'
<1> SUFFICES ASSUME TypeInv, [DivNext]_divVars
             PROVE  TypeInv'
  OBVIOUS
<1> USE WordFacts DEF TypeInv, DivTypeOK
<1>1. CASE \E num, divisor \in Word : div(num, divisor)
  BY <1>1 DEF div
<1>2. CASE Double
  BY <1>2 DEF Double
<1>3. CASE EndDouble
  <2>1. current \div 2 <= Half - 1 /\ 2 * (current \div 2) <= Modulus
    BY WordAssumption DEF Modulus, Word
  <2> QED BY <1>3, <2>1 DEF EndDouble
<1>4. CASE Subtract
  <2> /\ answer \in Nat /\ current \in Nat /\ dividend \in Nat /\ denom \in Nat
      /\ Modulus \in Nat
    BY WordAssumption DEF Word, Modulus
  <2>1. 2 * (current \div 2) <= current
    OBVIOUS
  <2>2. answer + current + 2 * (current \div 2) <= Modulus
    BY <1>4, <2>1 DEF Subtract
  <2>3. answer + current \in Word
    BY <1>4 DEF Subtract, Word
  <2>4. dividend >= denom => dividend - denom \in Word
    BY DEF Word
  <2> HIDE DEF Word, Modulus
  <2>5. dividend' \in Word /\ answer' \in Word
    BY <1>4, <2>3, <2>4 DEF Subtract
  <2>6. answer' + 2 * current' <= Modulus
    BY <1>4, <2>1, <2>2 DEF Subtract
  <2> QED BY <1>4, <2>5, <2>6 DEF Subtract
<1>5. CASE EndSubtract
  BY <1>5 DEF EndSubtract
<1>6. CASE DivReturn
  BY <1>6 DEF DivReturn
<1>7. CASE UNCHANGED divVars
  BY <1>7 DEF divVars
<1> QED BY <1>1, <1>2, <1>3, <1>4, <1>5, <1>6, <1>7 DEF DivNext, DivStep

\* Every variable of a call of div is a word, whatever the arguments.
THEOREM DivTypes == DivSpec => []DivTypeOK
<1>1. TypeInv => DivTypeOK
  BY DEF TypeInv
<1> QED BY TypeInvInit, TypeInvNext, <1>1, PTL DEF DivSpec

-----------------------------------------------------------------------------
(* Values, for arguments without overflow.                                 *)

\* Also 2^31 has a quotient, as long as no doubling of the divisor meets it.
Divisible(num, divisor) ==
  /\ divisor # 0
  /\ \/ num < Half
     \/ num = Half /\ \A p : IsPower2(p) => divisor * p # Half

\* denom is the divisor times current, a power of two; what the answer stands
\* for and what is left of the dividend make n.
Doubling ==
  /\ IsPower2(current) /\ denom = d * current
  /\ dividend = n /\ d < n
  /\ current = 1 \/ denom <= 2 * n
Subtracting ==
  /\ n = answer * d + dividend
  /\ \/ current = 0 /\ dividend < d
     \/ IsPower2(current) /\ denom = d * current /\ dividend < 2 * denom
Returning ==
  \E r \in Nat : n = answer * d + r /\ r < d

ValueInv ==
  Divisible(n, d) =>
    /\ at = "double" => Doubling
    /\ at = "subtract" => Subtracting
    /\ at = "return" => Returning

LEMMA DoublingOn ==
  ASSUME TypeInv, ValueInv, Divisible(n, d), Double
  PROVE  Doubling'
<1> /\ n \in Nat /\ d \in Nat /\ d # 0 /\ n <= Half /\ Half \in Nat
    /\ denom \in Nat /\ current \in Nat /\ dividend \in Nat
  BY WordFacts DEF TypeInv, DivTypeOK, Divisible, Word
<1>1. at = "double" /\ Doubling /\ denom <= n
  BY DEF ValueInv, Double, Doubling
<1>2. current <= denom
  BY <1>1, FactorBelow DEF Doubling
<1>3. 2 * denom < Modulus /\ 2 * current < Modulus
  <2>1. denom # Half
    BY <1>1 DEF Doubling, Divisible
  <2> QED
    BY <2>1, <1>1, <1>2, WordFacts
<1>4. denom' = 2 * denom /\ current' = 2 * current
  BY <1>3, WordFacts DEF Double, ShiftLeft
<1>5. denom' = d * current'
  BY <1>1, <1>4, TimesTwo DEF Doubling
<1>6. IsPower2(current')
  BY <1>1, <1>4, PowerDoubles DEF Doubling
<1> QED BY <1>1, <1>4, <1>5, <1>6 DEF Double, Doubling

LEMMA SubtractingBegins ==
  ASSUME TypeInv, ValueInv, Divisible(n, d), EndDouble
  PROVE  Subtracting'
<1> /\ n \in Nat /\ d \in Nat /\ d # 0
    /\ denom \in Nat /\ current \in Nat /\ dividend \in Nat
  BY DEF TypeInv, DivTypeOK, Divisible, Word, Modulus
<1>1. at = "double" /\ Doubling /\ answer = 0 /\ denom > n
  BY DEF TypeInv, ValueInv, EndDouble, Doubling
<1>2. current # 1
  BY <1>1 DEF Doubling
<1>3. PICK h \in Nat : IsPower2(h) /\ current = 2 * h
  BY <1>1, <1>2, PowerOneOrEven DEF Doubling
<1>4. denom = 2 * (d * h)
  BY <1>1, <1>3, TimesTwo DEF Doubling
<1>5. current' = h /\ denom' = d * h
  BY <1>3, <1>4, TimesTwo DEF EndDouble
<1>6. dividend' = n /\ answer' = 0 /\ n' = n /\ d' = d
  BY <1>1 DEF EndDouble, Doubling
<1>7. dividend' < 2 * denom'
  BY <1>1, <1>4, <1>5, <1>6
<1> QED BY <1>3, <1>5, <1>6, <1>7 DEF Subtracting

LEMMA SubtractingOn ==
  ASSUME TypeInv, ValueInv, Divisible(n, d), Subtract
  PROVE  Subtracting'
<1> /\ n \in Nat /\ d \in Nat /\ d # 0
    /\ denom \in Nat /\ current \in Nat /\ dividend \in Nat /\ answer \in Nat
  BY DEF TypeInv, DivTypeOK, Divisible, Word, Modulus
<1>1. /\ at = "subtract" /\ current # 0 /\ n' = n /\ d' = d
      /\ n = answer * d + dividend
      /\ IsPower2(current) /\ denom = d * current /\ dividend < 2 * denom
  BY DEF ValueInv, Subtract, Subtracting
\* This turn's bit.
<1>2. /\ n = answer' * d + dividend' /\ dividend' < denom
      /\ dividend' \in Nat /\ answer' \in Nat
  <2>1. CASE dividend >= denom
    <3>1. answer' = answer + current /\ dividend' = dividend - denom
      BY <2>1 DEF Subtract
    <3>2. answer' * d = answer * d + current * d /\ answer * d \in Nat
      BY <3>1, TimesSum
    <3>3. current * d = denom
      BY <1>1
    <3> QED BY <1>1, <2>1, <3>1, <3>2, <3>3
  <2>2. CASE ~(dividend >= denom)
    BY <1>1, <2>2 DEF Subtract
  <2> QED BY <2>1, <2>2
\* The next one.
<1>3. CASE current = 1
  <2>1. current' = 0 /\ denom = d
    BY <1>1, <1>3 DEF Subtract
  <2> QED BY <1>1, <1>2, <2>1 DEF Subtracting
<1>4. CASE current # 1
  <2>1. PICK h \in Nat : IsPower2(h) /\ current = 2 * h
    BY <1>1, <1>4, PowerOneOrEven
  <2>2. denom = 2 * (d * h)
    BY <1>1, <2>1, TimesTwo
  <2>3. current' = h /\ denom' = d * h
    BY <2>1, <2>2, TimesTwo DEF Subtract
  <2>4. dividend' < 2 * denom'
    BY <1>2, <2>2, <2>3
  <2> QED BY <1>1, <1>2, <2>1, <2>3, <2>4 DEF Subtracting
<1> QED BY <1>3, <1>4

LEMMA ValueInvInit == DivInit => ValueInv
BY DEF DivInit, ValueInv

LEMMA ValueInvNext == TypeInv /\ ValueInv /\ [DivNext]_divVars => ValueInv'
<1> SUFFICES ASSUME TypeInv, ValueInv, [DivNext]_divVars, Divisible(n, d)'
             PROVE  (/\ at = "double" => Doubling
                     /\ at = "subtract" => Subtracting
                     /\ at = "return" => Returning)'
  BY DEF ValueInv
<1>1. ASSUME NEW num \in Word, NEW divisor \in Word, div(num, divisor)
      PROVE  /\ at' = "double" => Doubling'
             /\ at' = "return" => Returning'
             /\ at' # "subtract"
  <2> /\ num \in Nat /\ divisor \in Nat /\ divisor # 0
      /\ n' = num /\ d' = divisor /\ dividend' = num /\ denom' = divisor
      /\ current' = 1
    BY <1>1, WordFacts DEF div, Divisible
  <2>1. CASE divisor < num
    <3>1. denom' = d' * current'
      OBVIOUS
    <3> QED BY <1>1, <2>1, <3>1, PowerOfOne DEF div, Doubling
  <2>2. CASE divisor >= num
    <3>1. CASE divisor = num
      <4>1. answer' = 1 /\ at' = "return"
        BY <1>1, <2>2, <3>1 DEF div
      <4>2. n' = answer' * d' + 0 /\ 0 < d'
        BY <3>1, <4>1
      <4> QED BY <4>1, <4>2 DEF Returning
    <3>2. CASE divisor > num
      <4>1. answer' = 0 /\ at' = "return"
        BY <1>1, <2>2, <3>2 DEF div
      <4>2. n' = answer' * d' + num /\ num < d'
        BY <3>2, <4>1
      <4> QED BY <4>1, <4>2 DEF Returning
    <3> QED BY <2>2, <3>1, <3>2
  <2> QED BY <2>1, <2>2
<1>2. CASE Double
  BY <1>2, DoublingOn DEF Double, Divisible
<1>3. CASE EndDouble
  BY <1>3, SubtractingBegins DEF EndDouble, Divisible
<1>4. CASE Subtract
  BY <1>4, SubtractingOn DEF Subtract, Divisible
<1>5. CASE EndSubtract
  <2>1. /\ Divisible(n, d) /\ Subtracting /\ current = 0
        /\ answer' = answer /\ d' = d /\ n' = n /\ dividend \in Nat /\ denom \in Nat
    BY <1>5 DEF EndSubtract, Divisible, ValueInv, TypeInv, DivTypeOK, Word, Modulus
  <2>2. ~IsPower2(0)
    <3> DEFINE S == Nat \ {0}
    <3>1. S \in SUBSET Nat /\ Doubles(S)
      BY DEF Doubles
    <3> QED BY <3>1 DEF IsPower2
  <2>3. n = answer * d + dividend /\ dividend < d
    BY <2>1, <2>2 DEF Subtracting
  <2> QED BY <1>5, <2>1, <2>3 DEF EndSubtract, Returning
<1>6. CASE DivReturn
  BY <1>6 DEF DivReturn
<1>7. CASE UNCHANGED divVars
  BY <1>7 DEF divVars, ValueInv, Divisible, Doubling, Subtracting, Returning
<1> QED BY <1>1, <1>2, <1>3, <1>4, <1>5, <1>6, <1>7 DEF DivNext, DivStep

\* The result of a division.
LEMMA ReturnsQuotient ==
  ASSUME TypeInv, ValueInv, at = "return", Divisible(n, d)
  PROVE  mod_result \in Nat /\ mod_result < d /\ n = div_result * d + mod_result
<1>1. PICK r \in Nat : n = answer * d + r /\ r < d
  BY DEF ValueInv, Returning
<1>2. /\ answer \in Nat /\ d \in Nat /\ n \in Nat /\ Modulus \in Nat /\ d < Modulus
  BY WordFacts DEF TypeInv, DivTypeOK, Word
<1>3. answer * d \in Nat
  BY <1>2, TimesSum
<1>4. n - answer * d = r
  BY <1>1, <1>2, <1>3
<1>5. mod_result = r
  BY <1>1, <1>2, <1>4 DEF mod_result
<1> QED BY <1>1, <1>5 DEF div_result

LEMMA NoOverflowDivides ==
  ASSUME NEW num, NEW divisor, NoOverflow(num, divisor)
  PROVE  Divisible(num, divisor)
BY DEF NoOverflow, Divisible

LEMMA ValueInvGivesQuotient == TypeInv /\ ValueInv => DivIsQuotient
BY ReturnsQuotient, NoOverflowDivides DEF DivIsQuotient

\* For every width of a word: div and divmod compute quotient and remainder of
\* a dividend below 2^31 and a divisor other than 0.
THEOREM DivisionCorrect == DivSpec => []DivIsQuotient
<1>1. DivInit => TypeInv /\ ValueInv
  BY TypeInvInit, ValueInvInit
<1>2. TypeInv /\ ValueInv /\ [DivNext]_divVars => (TypeInv /\ ValueInv)'
  BY TypeInvNext, ValueInvNext
<1>3. TypeInv /\ ValueInv => DivIsQuotient
  BY ValueInvGivesQuotient
<1> QED BY <1>1, <1>2, <1>3, PTL DEF DivSpec

-----------------------------------------------------------------------------
(* The callers of the division, on words that hold 100.                    *)

\* What a division leaves: n is q times d and a rest below d.
IsQuotient(q, num, divisor) == \E r \in Nat : num = q * divisor + r /\ r < divisor

\* The arguments are words, the division in progress is that of the step, and its
\* results are the quotients.
CallerTypes ==
  /\ i \in Word
  /\ caller = "itoa" => arg[1] \in Int32 /\ arg[2] \in {10, 16}
  /\ caller \in {"ratio", "percent", "measured", "master_mind"} =>
       arg[1] \in Word /\ arg[2] \in Word
  /\ caller \in {"ratio", "master_mind"} => at # "ready" /\ n = arg[1] /\ d = arg[2]
  /\ caller = "itoa" /\ at # "ready" => n = i /\ d = arg[2]
  /\ caller = "percent" /\ at # "ready" => n = 100 /\ d = i
  /\ caller \in {"none", "printed", "measured", "decided"} => at = "ready"

Measures ==
  NoOverflow(arg[1], arg[2]) =>
    /\ caller = "percent" => IsQuotient(i, arg[1], arg[2])
    /\ caller = "measured" =>
         \E q \in Nat : IsQuotient(q, arg[1], arg[2]) /\ (q # 0 => IsQuotient(i, 100, q))

\* A result of the division.
LEMMA ResultIs ==
  ASSUME TypeInv, ValueInv, DivReturn
  PROVE  /\ div_result \in Word /\ mod_result \in Word
         /\ Divisible(n, d) => IsQuotient(div_result, n, d)
<1>1. div_result \in Word
  BY DEF TypeInv, DivTypeOK, div_result
<1>2. mod_result \in Word
  <2>1. n \in Int /\ answer * d \in Int /\ Modulus \in Nat \ {0}
    BY WordAssumption DEF TypeInv, DivTypeOK, Word, Modulus
  <2> QED
    BY <2>1 DEF mod_result, Word
<1>3. ASSUME Divisible(n, d) PROVE IsQuotient(div_result, n, d)
  <2>1. mod_result \in Nat /\ mod_result < d /\ n = div_result * d + mod_result
    BY <1>3, ReturnsQuotient DEF DivReturn
  <2> QED
    BY <2>1 DEF IsQuotient
<1> QED
  BY <1>1, <1>2, <1>3

\* A step of the library is one of the division, or leaves the division alone.
LEMMA LibraryDivides ==
  ASSUME Half > 100, TypeInv, CallerTypes, [Next]_vars
  PROVE  [DivNext]_divVars
<1> USE WordFacts, TimesAreWords
<1>1. \A w \in {10, 16, 100} : w \in Word
  BY DEF Word, Modulus
<1>2. \A num, base : itoa(num, base) => UNCHANGED divVars
  BY DEF itoa
<1>3. CASE NextDigit
  BY <1>1, <1>3 DEF NextDigit, DivNext, CallerTypes
<1>4. ASSUME NEW t \in Times, NEW s \in Times, metric(t, s) \/ master_mind(t, s)
      PROVE  DivNext
  BY <1>4 DEF metric, master_mind, uidiv, DivNext
<1>5. CASE Percent
  BY <1>1, <1>5 DEF Percent, uidiv, DivNext, CallerTypes
<1>6. CASE StoreDigit \/ RatioDone \/ PercentDone \/ Decide \/ InDiv
  BY <1>6 DEF StoreDigit, RatioDone, PercentDone, Decide, InDiv, DivNext
<1>7. CASE EndItoa \/ Return \/ UNCHANGED vars
  BY <1>7 DEF EndItoa, Return, vars
<1> QED
  BY <1>2, <1>3, <1>4, <1>5, <1>6, <1>7 DEF Next, Step

\* What a step within a division leaves alone.
LEMMA InDivKeeps ==
  ASSUME InDiv
  PROVE  at # "ready" /\ at' # "ready" /\ UNCHANGED <<n, d, libVars>>
BY DEF InDiv, DivStep, Double, EndDouble, Subtract, EndSubtract

LEMMA DivBegins ==
  ASSUME NEW num, NEW divisor, div(num, divisor)
  PROVE  at = "ready" /\ at' # "ready" /\ n' = num /\ d' = divisor
BY DEF div

LEMMA DivEnds ==
  ASSUME DivReturn
  PROVE  at = "return" /\ at' = "ready"
BY DEF DivReturn

LEMMA CallerTypesNext ==
  ASSUME TypeInv, ValueInv, CallerTypes, [Next]_vars
  PROVE  CallerTypes'
<1> USE TimesAreWords DEF CallerTypes, libVars
<1>1. ASSUME NEW num \in Int32, NEW base \in {10, 16}, itoa(num, base)
      PROVE  CallerTypes'
  <2>1. 0 \in Word /\ (IF base = 10 /\ num < 0 THEN -num ELSE num) % Modulus \in Word
    BY WordAssumption DEF Int32, Modulus, Word
  <2>2. arg'[1] = num /\ arg'[2] = base /\ at' = at /\ at = "ready" /\ i' \in Word
        /\ caller' \in {"printed", "itoa"}
    BY <1>1, <2>1 DEF itoa, divVars
  <2> QED
    BY <2>2
<1>2. ASSUME NEW t \in Times, NEW s \in Times, metric(t, s) \/ master_mind(t, s)
      PROVE  CallerTypes'
  <2>1. /\ at' # "ready" /\ n' = t /\ d' = s /\ arg'[1] = t /\ arg'[2] = s /\ i' = i
        /\ caller' \in {"ratio", "master_mind"}
    BY <1>2, DivBegins DEF metric, master_mind, uidiv
  <2> QED
    BY <2>1
<1>3. CASE NextDigit
  BY <1>3, DivBegins DEF NextDigit
<1>4. CASE StoreDigit
  BY <1>4, DivEnds, ResultIs DEF StoreDigit
<1>5. CASE EndItoa
  BY <1>5 DEF EndItoa, divVars
<1>6. CASE RatioDone
  BY <1>6, DivEnds, ResultIs DEF RatioDone
<1>7. CASE Percent
  BY <1>7, DivBegins DEF Percent, uidiv
<1>8. CASE PercentDone
  BY <1>8, DivEnds, ResultIs DEF PercentDone
<1>9. CASE Decide
  BY <1>9, DivEnds, ResultIs DEF Decide
<1>10. CASE InDiv
  BY <1>10, InDivKeeps
<1>11. CASE Return
  BY <1>11, WordFacts DEF Return, divVars
<1>12. CASE UNCHANGED vars
  BY <1>12 DEF vars, divVars
<1> QED
  BY <1>1, <1>2, <1>3, <1>4, <1>5, <1>6, <1>7, <1>8, <1>9, <1>10, <1>11, <1>12 DEF Next, Step

LEMMA MeasuresNext ==
  ASSUME Half > 100, TypeInv, ValueInv, CallerTypes, Measures, [Next]_vars
  PROVE  Measures'
<1> USE DEF Measures, libVars
<1>1. ASSUME NEW num, NEW base, itoa(num, base) PROVE Measures'
  BY <1>1 DEF itoa
<1>2. ASSUME NEW t, NEW s, metric(t, s) \/ master_mind(t, s) PROVE Measures'
  BY <1>2 DEF metric, master_mind
<1>3. CASE NextDigit \/ StoreDigit \/ EndItoa \/ Decide \/ Return
  BY <1>3 DEF NextDigit, StoreDigit, EndItoa, Decide, Return
<1>4. CASE RatioDone
  BY <1>4, ResultIs, NoOverflowDivides DEF RatioDone, CallerTypes
<1>5. CASE Percent \/ InDiv \/ UNCHANGED vars
  BY <1>5 DEF Percent, InDiv, vars, NoOverflow, IsQuotient
<1>6. CASE PercentDone
  <2> SUFFICES ASSUME NoOverflow(arg[1], arg[2])
               PROVE  \E q \in Nat : /\ IsQuotient(q, arg[1], arg[2])
                                     /\ q # 0 => IsQuotient(i', 100, q)
    BY <1>6 DEF PercentDone, IsQuotient, NoOverflow
  <2>1. i \in Nat /\ IsQuotient(i, arg[1], arg[2])
    BY <1>6 DEF PercentDone, CallerTypes, Word
  <2>2. ASSUME i # 0 PROVE IsQuotient(i', 100, i)
    <3>1. n = 100 /\ d = i /\ i' = div_result
      BY <1>6 DEF PercentDone, CallerTypes, DivReturn
    <3>2. NoOverflow(n, d)
      BY <3>1, <2>2 DEF NoOverflow
    <3> QED
      BY <3>1, <3>2, <1>6, ResultIs, NoOverflowDivides DEF PercentDone
  <2> QED
    BY <2>1, <2>2
<1> QED
  BY <1>1, <1>2, <1>3, <1>4, <1>5, <1>6 DEF Next, Step

\* The arithmetic of the two divisions.
LEMMA Share ==
  ASSUME NEW t \in Nat, NEW s \in Nat \ {0}, s <= t, NEW q \in Nat, NEW p \in Nat,
         IsQuotient(q, t, s), q # 0 => IsQuotient(p, 100, q)
  PROVE  p <= 100 /\ (100 * s) \div t <= p
<1>1. PICK r \in Nat : t = q * s + r /\ r < s
  BY DEF IsQuotient
<1>2. q # 0
  BY <1>1
<1>3. PICK r2 \in Nat : 100 = p * q + r2 /\ r2 < q
  BY <1>2 DEF IsQuotient
<1>4. p * q >= p /\ p * q \in Nat
  BY <1>2, FactorBelow
<1>5. p <= 100
  BY <1>3, <1>4
<1>6. 100 < (p + 1) * q
  BY <1>3, <1>4
<1>7. 100 * s < (p + 1) * t
  <2> DEFINE k == (p + 1) * q
             v == q * s
  <2>1. v \in Nat /\ v <= t /\ k \in Nat
    BY <1>1
  <2>2. 100 * s < k * s
    <3>1. \A x, y \in Nat : x < y => x * s < y * s
      OBVIOUS
    <3> QED
      BY <3>1, <2>1, <1>6
  <2>3. k * s = (p + 1) * v
    OBVIOUS
  <2>4. (p + 1) * v <= (p + 1) * t
    <3>1. \A x, y, z \in Nat : x <= y => z * x <= z * y
      OBVIOUS
    <3> QED
      BY <3>1, <2>1
  <2> HIDE DEF k, v
  <2>5. k * s \in Nat /\ (p + 1) * t \in Nat /\ 100 * s \in Nat
    BY <2>1
  <2> QED
    BY <2>2, <2>3, <2>4, <2>5
<1>8. (100 * s) \div t <= p
  <2>1. \A x \in Nat, y \in Nat \ {0} : y * (x \div y) <= x /\ x \div y \in Nat
    OBVIOUS
  <2> DEFINE x == 100 * s
             m == x \div t
  <2>2. x \in Nat /\ t \in Nat \ {0}
    OBVIOUS
  <2>3. t * m <= x /\ m \in Nat
    BY <2>1, <2>2
  <2>4. t * m < (p + 1) * t
    <3>1. t * m \in Nat /\ (p + 1) * t \in Nat
      BY <2>3
    <3> HIDE DEF m, x
    <3> QED
      BY <3>1, <2>2, <2>3, <1>7 DEF x
  <2>5. \A a, b \in Nat : t * a < b * t => a < b
    OBVIOUS
  <2> QED
    BY <2>3, <2>4, <2>5
<1> QED
  BY <1>5, <1>8

LEMMA LibraryInv ==
  ASSUME Half > 100
  PROVE  Spec => [](TypeInv /\ ValueInv /\ CallerTypes /\ Measures)
<1>1. Init => TypeInv /\ ValueInv /\ CallerTypes /\ Measures
  <2>1. Init => CallerTypes /\ Measures
    BY WordFacts DEF Init, CallerTypes, Measures, DivInit
  <2> QED
    BY <2>1, TypeInvInit, ValueInvInit DEF Init
<1>2. TypeInv /\ ValueInv /\ CallerTypes /\ Measures /\ [Next]_vars
        => (TypeInv /\ ValueInv /\ CallerTypes /\ Measures)'
  BY LibraryDivides, TypeInvNext, ValueInvNext, CallerTypesNext, MeasuresNext
<1> QED
  BY <1>1, <1>2, PTL DEF Spec

\* Where a word holds 100: the share that metric prints is between the true one and
\* 100 for every two times of which the second is not the longer
\* (system_user_threads.c).
THEOREM ShareInBounds ==
  ASSUME Half > 100
  PROVE  Spec => []PercentBounds
<1>1. ASSUME CallerTypes, Measures PROVE PercentBounds
  <2> SUFFICES ASSUME caller = "measured", NoOverflow(arg[1], arg[2]), arg[2] <= arg[1]
               PROVE  i <= 100 /\ (100 * arg[2]) \div arg[1] <= i
    BY DEF PercentBounds
  <2>1. /\ arg[1] \in Nat /\ arg[2] \in Nat \ {0} /\ i \in Nat
        /\ \E q \in Nat : IsQuotient(q, arg[1], arg[2]) /\ (q # 0 => IsQuotient(i, 100, q))
    BY <1>1 DEF CallerTypes, Measures, Word, NoOverflow
  <2> QED
    BY <2>1, Share
<1> QED
  BY <1>1, LibraryInv, PTL

-----------------------------------------------------------------------------
(* What a fold over a sequence computes, element by element.               *)

\* h folds g from v over the elements of s whose indices are in a set, the
\* greatest last.
IsFold(h, g, v, s, N) ==
  /\ h \in [SUBSET (1 .. N) -> Int]
  /\ \A S \in SUBSET (1 .. N) :
       h[S] = IF S = {} THEN v ELSE g[<<h[S \ {Max(S)}], s[Max(S)]>>]

\* Every set of naturals has a least member.
LEMMA LeastNat ==
  ASSUME NEW S \in SUBSET Nat, S # {}
  PROVE  \E x \in S : \A y \in S : ~(y < x)
<1>1. IsWellFoundedOn(OpToRel(<, Nat), Nat)
  BY NatLessThanWellFounded
<1>2. \E x \in S : \A y \in S : ~(<<y, x>> \in OpToRel(<, Nat))
  BY <1>1, WFMin
<1> QED
  BY <1>2 DEF OpToRel

LEMMA MaxIs ==
  ASSUME NEW N \in Nat \ {0}, NEW S \in SUBSET (1 .. N), N \in S
  PROVE  Max(S) = N
<1>1. \A x \in S : (\A y \in S : x >= y) => x = N
  OBVIOUS
<1>2. \A y \in S : N >= y
  OBVIOUS
<1> QED
  BY <1>1, <1>2 DEF Max

LEMMA FoldGrows ==
  ASSUME NEW g \in [Int \X Int -> Int], NEW v \in Int, NEW s \in Seq(Int),
         NEW N \in Nat \ {0}, N <= Len(s), NEW h, IsFold(h, g, v, s, N - 1)
  PROVE  \E k : IsFold(k, g, v, s, N)
<1> DEFINE k == [S \in SUBSET (1 .. N) |->
                   IF N \in S THEN g[<<h[S \ {N}], s[N]>>] ELSE h[S]]
<1>1. \A S \in SUBSET (1 .. N) : /\ N \notin S => S \in SUBSET (1 .. N - 1)
                                 /\ S \ {N} \in SUBSET (1 .. N - 1)
  OBVIOUS
<1>2. /\ h \in [SUBSET (1 .. N - 1) -> Int]
      /\ \A S \in SUBSET (1 .. N - 1) :
           h[S] = IF S = {} THEN v ELSE g[<<h[S \ {Max(S)}], s[Max(S)]>>]
  BY DEF IsFold
<1>3. s[N] \in Int
  <2>1. N \in 1 .. Len(s)
    BY LenProperties
  <2> QED
    BY <2>1, ElementOfSeq
<1>4. k \in [SUBSET (1 .. N) -> Int]
  <2> SUFFICES ASSUME NEW S \in SUBSET (1 .. N)
               PROVE  (IF N \in S THEN g[<<h[S \ {N}], s[N]>>] ELSE h[S]) \in Int
    OBVIOUS
  <2>1. CASE N \in S
    <3>1. h[S \ {N}] \in Int
      BY <1>1, <1>2
    <3>2. <<h[S \ {N}], s[N]>> \in Int \X Int
      BY <3>1, <1>3
    <3> QED
      BY <2>1, <3>2
  <2>2. CASE N \notin S
    BY <2>2, <1>1, <1>2
  <2> QED
    BY <2>1, <2>2
<1>5. ASSUME NEW S \in SUBSET (1 .. N)
      PROVE  k[S] = IF S = {} THEN v ELSE g[<<k[S \ {Max(S)}], s[Max(S)]>>]
  <2>1. CASE N \in S
    <3>1. Max(S) = N
      BY <2>1, MaxIs
    <3>2. k[S \ {N}] = h[S \ {N}]
      OBVIOUS
    <3> QED
      BY <2>1, <3>1, <3>2
  <2>2. CASE N \notin S
    <3>1. k[S] = h[S] /\ k[S \ {Max(S)}] = h[S \ {Max(S)}]
      BY <2>2
    <3> QED
      BY <2>2, <3>1, <1>1, <1>2
  <2> QED
    BY <2>1, <2>2
<1> HIDE DEF k
<1> QED
  BY <1>4, <1>5 DEF IsFold

LEMMA FoldExists ==
  ASSUME NEW g \in [Int \X Int -> Int], NEW v \in Int, NEW s \in Seq(Int)
  PROVE  \E h : IsFold(h, g, v, s, Len(s))
<1> DEFINE Bad == {k \in Nat : k <= Len(s) /\ ~\E h : IsFold(h, g, v, s, k)}
<1>1. SUFFICES Bad = {}
  BY LenProperties
<1>2. SUFFICES ASSUME Bad # {} PROVE FALSE
  OBVIOUS
<1>3. PICK x \in Bad : \A y \in Bad : ~(y < x)
  <2>1. Bad \in SUBSET Nat
    OBVIOUS
  <2> HIDE DEF Bad
  <2> QED
    BY <2>1, <1>2, LeastNat
<1>4. CASE x = 0
  <2> DEFINE h == [S \in SUBSET (1 .. 0) |-> v]
  <2>1. \A S \in SUBSET (1 .. 0) : S = {}
    OBVIOUS
  <2>2. IsFold(h, g, v, s, 0)
    BY <2>1 DEF IsFold
  <2> QED
    BY <2>2, <1>4
<1>5. CASE x # 0
  <2>1. x - 1 \in Nat /\ x - 1 < x /\ x - 1 <= Len(s) /\ x \in Nat \ {0} /\ x <= Len(s)
    BY <1>5, LenProperties
  <2>2. PICK h : IsFold(h, g, v, s, x - 1)
    BY <2>1, <1>3
  <2>3. \E k : IsFold(k, g, v, s, x)
    BY <2>1, <2>2, FoldGrows
  <2> QED
    BY <2>3
<1> QED
  BY <1>4, <1>5

\* A fold ends where w ends, if it follows it step by step.
LEMMA FoldFollows ==
  ASSUME NEW N \in Nat, NEW h, NEW w, h[{}] = w[0],
         \A k \in 1 .. N : h[1 .. k - 1] = w[k - 1] => h[1 .. k] = w[k]
  PROVE  h[1 .. N] = w[N]
<1> DEFINE Bad == {k \in Nat : k <= N /\ h[1 .. k] # w[k]}
<1>1. SUFFICES Bad = {}
  OBVIOUS
<1>2. SUFFICES ASSUME Bad # {} PROVE FALSE
  OBVIOUS
<1>3. PICK x \in Bad : \A y \in Bad : ~(y < x)
  <2>1. Bad \in SUBSET Nat
    OBVIOUS
  <2> HIDE DEF Bad
  <2> QED
    BY <2>1, <1>2, LeastNat
<1>4. CASE x = 0
  <2>1. 1 .. x = {}
    BY <1>4
  <2> QED
    BY <2>1, <1>4
<1>5. CASE x # 0
  <2>1. x \in 1 .. N /\ x - 1 \in Nat /\ x - 1 < x /\ x - 1 <= N
    BY <1>5
  <2>2. h[1 .. x - 1] = w[x - 1]
    BY <2>1, <1>3
  <2> QED
    BY <2>1, <2>2
<1> QED
  BY <1>4, <1>5

LEMMA MaxInside ==
  ASSUME NEW N \in Nat, NEW S \in SUBSET (1 .. N), S # {}
  PROVE  Max(S) \in S
<1> DEFINE Above == {k \in Nat : \E x \in S : x = N - k}
<1>1. Above \in SUBSET Nat /\ Above # {}
  <2>1. PICK x \in S : TRUE
    OBVIOUS
  <2>2. N - x \in Nat /\ x = N - (N - x)
    OBVIOUS
  <2> QED
    BY <2>2
<1>2. PICK k \in Above : \A j \in Above : ~(j < k)
  <2> HIDE DEF Above
  <2> QED
    BY <1>1, LeastNat
<1>3. N - k \in S
  OBVIOUS
<1>4. ASSUME NEW y \in S PROVE N - k >= y
  <2>1. N - y \in Above
    <3>1. N - y \in Nat /\ y = N - (N - y)
      OBVIOUS
    <3> QED
      BY <3>1
  <2>2. ~(N - y < k) /\ k \in Nat /\ y \in Nat
    BY <2>1, <1>2
  <2> QED
    BY <2>2
<1> QED
  BY <1>3, <1>4 DEF Max

LEMMA LastOfInterval ==
  ASSUME NEW N \in Nat, NEW k \in 1 .. N
  PROVE  /\ Max(1 .. k) = k /\ 1 .. k \in SUBSET (1 .. N) /\ 1 .. k # {}
         /\ (1 .. k) \ {k} = 1 .. k - 1
<1>1. k \in Nat \ {0} /\ k \in 1 .. k /\ 1 .. k \in SUBSET (1 .. k)
  OBVIOUS
<1>2. Max(1 .. k) = k
  BY <1>1, MaxIs
<1> QED
  BY <1>1, <1>2

\* The steps of the two folds.
Decimal(r, c) == (r * 10 + c - Zero) % Modulus
Hex(r, c)     == r * 16 + (IF c < LowerA THEN c - Zero ELSE c - LowerA + 10)

\* The recursive functions that FoldLeft chooses.
IsDecimal(h, s) ==
  h = [S \in SUBSET DOMAIN s |->
         IF S = {} THEN 0 ELSE Decimal(h[S \ {Max(S)}], s[Max(S)])]
IsHex(h, s) ==
  h = [S \in SUBSET DOMAIN s |->
         IF S = {} THEN 0 ELSE Hex(h[S \ {Max(S)}], s[Max(S)])]

LEMMA DecimalFolds ==
  ASSUME NEW s
  PROVE  FoldLeft(LAMBDA r, c : (r * 10 + c - Zero) % Modulus, 0, s)
           = (CHOOSE h : IsDecimal(h, s))[DOMAIN s]
BY Zenon DEF FoldLeft, MapThenFoldSet, IsDecimal, Decimal

LEMMA HexFolds ==
  ASSUME NEW s
  PROVE  HexValue(s) = (CHOOSE h : IsHex(h, s))[DOMAIN s]
BY Zenon DEF HexValue, FoldLeft, MapThenFoldSet, IsHex, Hex

\* IsFold says what IsDecimal and IsHex say, when the results are integers.
LEMMA DecimalIs ==
  ASSUME NEW s \in Seq(Int), NEW w, w[0] = 0,
         \A k \in 1 .. Len(s) : w[k - 1] \in Int /\ w[k] = Decimal(w[k - 1], s[k])
  PROVE  FoldLeft(LAMBDA r, c : (r * 10 + c - Zero) % Modulus, 0, s) = w[Len(s)]
<1> DEFINE g == [p \in Int \X Int |-> Decimal(p[1], p[2])]
           N == Len(s)
<1>0. N \in Nat /\ DOMAIN s = 1 .. N /\ \A k \in 1 .. N : s[k] \in Int
  BY LenProperties, ElementOfSeq
<1>1. /\ g \in [Int \X Int -> Int]
      /\ \A r, c \in Int : g[<<r, c>>] = Decimal(r, c)
  <2>1. \A r, c \in Int : Decimal(r, c) \in Int
    BY WordAssumption DEF Decimal, Modulus, Zero
  <2> QED
    BY <2>1
<1> HIDE DEF g, N
<1>2. PICK h : IsFold(h, g, 0, s, N)
  BY <1>1, FoldExists DEF N
<1>3. IsDecimal(h, s)
  <2>1. /\ h \in [SUBSET (1 .. N) -> Int]
        /\ \A S \in SUBSET (1 .. N) :
             h[S] = IF S = {} THEN 0 ELSE g[<<h[S \ {Max(S)}], s[Max(S)]>>]
    BY <1>2 DEF IsFold
  <2>2. ASSUME NEW S \in SUBSET (1 .. N), S # {}
        PROVE  h[S] = Decimal(h[S \ {Max(S)}], s[Max(S)])
    <3>1. Max(S) \in 1 .. N
      BY <1>0, <2>2, MaxInside
    <3>2. h[S \ {Max(S)}] \in Int /\ s[Max(S)] \in Int
      BY <3>1, <2>1, <1>0
    <3> QED
      BY <3>2, <2>1, <2>2, <1>1
  <2>3. h = [S \in SUBSET (1 .. N) |-> h[S]]
    BY <2>1
  <2>4. \A S \in SUBSET (1 .. N) :
          h[S] = IF S = {} THEN 0 ELSE Decimal(h[S \ {Max(S)}], s[Max(S)])
    BY <2>1, <2>2
  <2> QED
    BY <2>3, <2>4, <1>0, Zenon DEF IsDecimal
<1>4. PICK f : f = (CHOOSE k : IsDecimal(k, s)) /\ IsDecimal(f, s)
  BY <1>3, Zenon
<1>5. \A S \in SUBSET (1 .. N) :
        f[S] = IF S = {} THEN 0 ELSE Decimal(f[S \ {Max(S)}], s[Max(S)])
  BY <1>4, <1>0, Zenon DEF IsDecimal
<1>6. ASSUME NEW k \in 1 .. N, f[1 .. k - 1] = w[k - 1]
      PROVE  f[1 .. k] = w[k]
  <2>1. f[1 .. k] = Decimal(f[1 .. k - 1], s[k])
    <3> DEFINE S == 1 .. k
    <3>1. S \in SUBSET (1 .. N) /\ S # {} /\ Max(S) = k /\ S \ {k} = 1 .. k - 1
      BY <1>0, LastOfInterval
    <3> HIDE DEF S
    <3>2. f[S] = Decimal(f[1 .. k - 1], s[k])
      BY <3>1, <1>5
    <3> QED
      BY <3>2 DEF S
  <2> QED
    BY <2>1, <1>6 DEF N
<1>7. f[{}] = w[0]
  BY <1>5
<1>8. f[1 .. N] = w[N]
  BY <1>0, <1>6, <1>7, FoldFollows
<1> QED
  BY <1>0, <1>4, <1>8, DecimalFolds DEF N

LEMMA HexIs ==
  ASSUME NEW s \in Seq(Int), NEW w, w[0] = 0,
         \A k \in 1 .. Len(s) : w[k - 1] \in Int /\ w[k] = Hex(w[k - 1], s[k])
  PROVE  HexValue(s) = w[Len(s)]
<1> DEFINE g == [p \in Int \X Int |-> Hex(p[1], p[2])]
           N == Len(s)
<1>0. N \in Nat /\ DOMAIN s = 1 .. N /\ \A k \in 1 .. N : s[k] \in Int
  BY LenProperties, ElementOfSeq
<1>1. /\ g \in [Int \X Int -> Int]
      /\ \A r, c \in Int : g[<<r, c>>] = Hex(r, c)
  <2>1. \A r, c \in Int : Hex(r, c) \in Int
    BY DEF Hex, Zero, LowerA
  <2> QED
    BY <2>1
<1> HIDE DEF g, N
<1>2. PICK h : IsFold(h, g, 0, s, N)
  BY <1>1, FoldExists DEF N
<1>3. IsHex(h, s)
  <2>1. /\ h \in [SUBSET (1 .. N) -> Int]
        /\ \A S \in SUBSET (1 .. N) :
             h[S] = IF S = {} THEN 0 ELSE g[<<h[S \ {Max(S)}], s[Max(S)]>>]
    BY <1>2 DEF IsFold
  <2>2. ASSUME NEW S \in SUBSET (1 .. N), S # {}
        PROVE  h[S] = Hex(h[S \ {Max(S)}], s[Max(S)])
    <3>1. Max(S) \in 1 .. N
      BY <1>0, <2>2, MaxInside
    <3>2. h[S \ {Max(S)}] \in Int /\ s[Max(S)] \in Int
      BY <3>1, <2>1, <1>0
    <3> QED
      BY <3>2, <2>1, <2>2, <1>1
  <2>3. h = [S \in SUBSET (1 .. N) |-> h[S]]
    BY <2>1
  <2>4. \A S \in SUBSET (1 .. N) :
          h[S] = IF S = {} THEN 0 ELSE Hex(h[S \ {Max(S)}], s[Max(S)])
    BY <2>1, <2>2
  <2> QED
    BY <2>3, <2>4, <1>0, Zenon DEF IsHex
<1>4. PICK f : f = (CHOOSE k : IsHex(k, s)) /\ IsHex(f, s)
  BY <1>3, Zenon
<1>5. \A S \in SUBSET (1 .. N) :
        f[S] = IF S = {} THEN 0 ELSE Hex(f[S \ {Max(S)}], s[Max(S)])
  BY <1>4, <1>0, Zenon DEF IsHex
<1>6. ASSUME NEW k \in 1 .. N, f[1 .. k - 1] = w[k - 1]
      PROVE  f[1 .. k] = w[k]
  <2>1. f[1 .. k] = Hex(f[1 .. k - 1], s[k])
    <3> DEFINE S == 1 .. k
    <3>1. S \in SUBSET (1 .. N) /\ S # {} /\ Max(S) = k /\ S \ {k} = 1 .. k - 1
      BY <1>0, LastOfInterval
    <3> HIDE DEF S
    <3>2. f[S] = Hex(f[1 .. k - 1], s[k])
      BY <3>1, <1>5
    <3> QED
      BY <3>2 DEF S
  <2> QED
    BY <2>1, <1>6 DEF N
<1>7. f[{}] = w[0]
  BY <1>5
<1>8. f[1 .. N] = w[N]
  BY <1>0, <1>6, <1>7, FoldFollows
<1> QED
  BY <1>0, <1>4, <1>8, HexFolds DEF N

-----------------------------------------------------------------------------
(* itoa and what reads its text.  w are the numbers that were left after   *)
(* each digit, the first the whole number and the last i.                  *)

Unsigned(num, base) == (IF base = 10 /\ num < 0 THEN -num ELSE num) % Modulus

\* w takes the digits of b off the number u in base, and leaves rest.
Takes(w, b, u, rest, base) ==
  /\ w \in [0 .. Len(b) -> Word] /\ w[0] = u /\ w[Len(b)] = rest
  /\ \A k \in 1 .. Len(b) :
       w[k - 1] # 0 /\ \E r \in 0 .. base - 1 : b[k] = Digit(r) /\ w[k - 1] = w[k] * base + r

\* s is b backwards.
Backwards(s, b) == Len(s) = Len(b) /\ \A k \in 1 .. Len(b) : s[k] = b[Len(b) + 1 - k]

LEMMA DigitIs ==
  /\ \A r \in 0 .. 9 : Digit(r) = 48 + r
  /\ \A r \in 10 .. 15 : Digit(r) = 87 + r
  /\ \A r \in 0 .. 15 : Digit(r) \in Nat
  /\ \A r \in 0 .. 15 : Digit(r) \in HexDigits /\ (r # 0 => Digit(r) # Zero) /\ Digit(r) # Minus
BY DEF Digit, Zero, LowerA, HexDigits, Minus

LEMMA HexDigitIs ==
  \A r \in 0 .. 15 : (IF Digit(r) < LowerA THEN Digit(r) - Zero ELSE Digit(r) - LowerA + 10) = r
<1> TAKE r \in 0 .. 15
<1>1. CASE r < 10
  BY <1>1 DEF Digit, LowerA, Zero
<1>2. CASE r >= 10
  BY <1>2 DEF Digit, LowerA, Zero
<1> QED
  BY <1>1, <1>2

LEMMA WordMod ==
  /\ \A x \in Word : x % Modulus = x
  /\ \A x \in Int : -Modulus <= x /\ x < 0 => x % Modulus = x + Modulus
BY WordAssumption DEF Word, Modulus

LEMMA ReadsDecimal ==
  ASSUME NEW b \in Seq(Nat), NEW w, NEW u, Takes(w, b, u, 0, 10), NEW s \in Seq(Int), Backwards(s, b)
  PROVE  FoldLeft(LAMBDA r, c : (r * 10 + c - Zero) % Modulus, 0, s) = u
<1> DEFINE m == Len(b)
           v == [k \in 0 .. m |-> w[m - k]]
<1>1. m \in Nat /\ Len(s) = m /\ \A k \in 1 .. m : s[k] = b[m + 1 - k]
  BY LenProperties DEF Backwards
<1>2. /\ w \in [0 .. m -> Word] /\ w[0] = u /\ w[m] = 0
      /\ \A k \in 1 .. m : \E r \in 0 .. 9 : b[k] = Digit(r) /\ w[k - 1] = w[k] * 10 + r
  BY DEF Takes
<1> HIDE DEF m
<1>3. v[0] = 0 /\ v[m] = u
  BY <1>1, <1>2
<1>4. ASSUME NEW k \in 1 .. m
      PROVE  \E r \in 0 .. 9 : /\ v[k - 1] \in Word /\ v[k] \in Word
                              /\ s[k] = Digit(r) /\ v[k] = v[k - 1] * 10 + r
  <2>1. /\ m + 1 - k \in 1 .. m /\ m - k \in 0 .. m /\ m - (k - 1) = m + 1 - k
        /\ (m + 1 - k) - 1 = m - k /\ k - 1 \in 0 .. m /\ m + 1 - k \in 0 .. m
        /\ k \in 0 .. m
    BY <1>1
  <2>2. v[k - 1] = w[m + 1 - k] /\ v[k] = w[m - k] /\ s[k] = b[m + 1 - k]
    <3>1. \A j \in 0 .. m : v[j] = w[m - j]
      OBVIOUS
    <3> HIDE DEF v
    <3>2. v[k - 1] = w[m - (k - 1)] /\ v[k] = w[m - k]
      BY <2>1, <3>1, Zenon
    <3> QED
      BY <1>1, <2>1, <3>2
  <2> DEFINE j == m + 1 - k
  <2>3. j \in 1 .. m /\ j - 1 = m - k
    BY <2>1
  <2> HIDE DEF j
  <2>4. \E r \in 0 .. 9 : b[j] = Digit(r) /\ w[m - k] = w[j] * 10 + r
    BY <1>2, <2>3
  <2>5. w[m - k] \in Word /\ w[m + 1 - k] \in Word
    BY <1>2, <2>1
  <2> HIDE DEF v
  <2> QED
    BY <2>2, <2>4, <2>5 DEF j
<1> HIDE DEF v
<1>5. ASSUME NEW k \in 1 .. m
      PROVE  v[k - 1] \in Int /\ v[k] = Decimal(v[k - 1], s[k])
  <2>1. PICK r \in 0 .. 9 : /\ v[k - 1] \in Word /\ v[k] \in Word
                           /\ s[k] = Digit(r) /\ v[k] = v[k - 1] * 10 + r
    BY <1>4
  <2>2. v[k - 1] \in Int /\ s[k] = 48 + r
    <3>1. Digit(r) = 48 + r
      BY DigitIs
    <3>2. v[k - 1] \in Int
      BY <2>1, WordFacts
    <3> QED
      BY <2>1, <3>1, <3>2
  <2>3. v[k - 1] * 10 + s[k] - Zero = v[k]
    BY <2>1, <2>2 DEF Zero
  <2>4. v[k] % Modulus = v[k]
    BY <2>1, WordMod
  <2> QED
    BY <2>2, <2>3, <2>4 DEF Decimal
<1> QED
  BY <1>1, <1>3, <1>5, DecimalIs

LEMMA ReadsHex ==
  ASSUME NEW b \in Seq(Nat), NEW w, NEW u, Takes(w, b, u, 0, 16), NEW s \in Seq(Int), Backwards(s, b)
  PROVE  HexValue(s) = u
<1> DEFINE m == Len(b)
           v == [k \in 0 .. m |-> w[m - k]]
<1>1. m \in Nat /\ Len(s) = m /\ \A k \in 1 .. m : s[k] = b[m + 1 - k]
  BY LenProperties DEF Backwards
<1>2. /\ w \in [0 .. m -> Word] /\ w[0] = u /\ w[m] = 0
      /\ \A k \in 1 .. m : \E r \in 0 .. 15 : b[k] = Digit(r) /\ w[k - 1] = w[k] * 16 + r
  BY DEF Takes
<1> HIDE DEF m
<1>3. v[0] = 0 /\ v[m] = u
  BY <1>1, <1>2
<1>4. ASSUME NEW k \in 1 .. m
      PROVE  \E r \in 0 .. 15 : /\ v[k - 1] \in Word /\ v[k] \in Word
                              /\ s[k] = Digit(r) /\ v[k] = v[k - 1] * 16 + r
  <2>1. /\ m + 1 - k \in 1 .. m /\ m - k \in 0 .. m /\ m - (k - 1) = m + 1 - k
        /\ (m + 1 - k) - 1 = m - k /\ k - 1 \in 0 .. m /\ m + 1 - k \in 0 .. m
        /\ k \in 0 .. m
    BY <1>1
  <2>2. v[k - 1] = w[m + 1 - k] /\ v[k] = w[m - k] /\ s[k] = b[m + 1 - k]
    <3>1. \A j \in 0 .. m : v[j] = w[m - j]
      OBVIOUS
    <3> HIDE DEF v
    <3>2. v[k - 1] = w[m - (k - 1)] /\ v[k] = w[m - k]
      BY <2>1, <3>1, Zenon
    <3> QED
      BY <1>1, <2>1, <3>2
  <2> DEFINE j == m + 1 - k
  <2>3. j \in 1 .. m /\ j - 1 = m - k
    BY <2>1
  <2> HIDE DEF j
  <2>4. \E r \in 0 .. 15 : b[j] = Digit(r) /\ w[m - k] = w[j] * 16 + r
    BY <1>2, <2>3
  <2>5. w[m - k] \in Word /\ w[m + 1 - k] \in Word
    BY <1>2, <2>1
  <2> HIDE DEF v
  <2> QED
    BY <2>2, <2>4, <2>5 DEF j
<1> HIDE DEF v
<1>5. ASSUME NEW k \in 1 .. m
      PROVE  v[k - 1] \in Int /\ v[k] = Hex(v[k - 1], s[k])
  <2>1. PICK r \in 0 .. 15 : /\ v[k - 1] \in Word /\ v[k] \in Word
                            /\ s[k] = Digit(r) /\ v[k] = v[k - 1] * 16 + r
    BY <1>4
  <2>2. v[k - 1] \in Int
    BY <2>1, WordFacts
  <2>3. (IF Digit(r) < LowerA THEN Digit(r) - Zero ELSE Digit(r) - LowerA + 10) = r
    BY HexDigitIs
  <2>4. Hex(v[k - 1], s[k]) = v[k - 1] * 16 + r
    BY <2>1, <2>3 DEF Hex
  <2> QED
    BY <2>1, <2>2, <2>4
<1> QED
  BY <1>1, <1>3, <1>5, HexIs

LEMMA UnsignedIs ==
  ASSUME NEW num \in Int32, NEW base \in {10, 16}
  PROVE  /\ Unsigned(num, base) \in Word /\ (num # 0 => Unsigned(num, base) # 0)
         /\ base = 10 => Unsigned(num, base) = IF num < 0 THEN -num ELSE num
         /\ base = 16 /\ num < 0 => Unsigned(num, base) >= Half
         /\ num >= 0 => Unsigned(num, base) = num
         /\ base = 10 => Unsigned(num, base) <= Half
BY WordAssumption, WordMod DEF Unsigned, Int32, Word, Modulus

LEMMA ReverseIs ==
  ASSUME NEW b \in Seq(Nat)
  PROVE  /\ Reverse(b) \in Seq(Nat) /\ Len(Reverse(b)) = Len(b)
         /\ \A k \in 1 .. Len(b) : Reverse(b)[k] = b[Len(b) - k + 1]
<1>1. Len(b) \in Nat /\ \A k \in 1 .. Len(b) : b[k] \in Nat
  BY LenProperties, ElementOfSeq
<1>2. \A k \in 1 .. Len(b) : (Len(b) - k) + 1 \in 1 .. Len(b)
  BY <1>1
<1> QED
  BY <1>1, <1>2 DEF Reverse

\* Ten times a number is no power of two.
LEMMA PowerIsNotTen ==
  ASSUME NEW p \in Nat, IsPower2(p)
  PROVE  \A y \in Nat : p # 5 * y
<1> DEFINE S == {x \in Nat : \A y \in Nat : x # 5 * y}
<1>1. 1 \in S
  OBVIOUS
<1>2. ASSUME NEW x \in S PROVE 2 * x \in S
  <2>1. ASSUME NEW y \in Nat, 2 * x = 5 * y PROVE FALSE
    <3>1. x = 5 * (y \div 2)
      BY <2>1
    <3> QED
      BY <3>1, <1>2
  <2> QED
    BY <2>1, <1>2
<1>3. Doubles(S) /\ S \in SUBSET Nat
  BY <1>1, <1>2 DEF Doubles
<1> QED
  BY <1>3 DEF IsPower2

\* A word that holds 100 is a multiple of 16.
LEMMA HalfBySixteen ==
  ASSUME IsPower2(Half), Half > 100
  PROVE  \E e \in Nat : IsPower2(e) /\ 16 * e = Half
<1>0. Half \in Nat /\ Half # 1
  BY WordFacts
<1>1. PICK a \in Nat : IsPower2(a) /\ Half = 2 * a
  BY <1>0, PowerOneOrEven
<1>2. PICK b \in Nat : IsPower2(b) /\ a = 2 * b
  BY <1>1, PowerOneOrEven
<1>3. PICK c \in Nat : IsPower2(c) /\ b = 2 * c
  BY <1>1, <1>2, PowerOneOrEven
<1>4. PICK e \in Nat : IsPower2(e) /\ c = 2 * e
  BY <1>1, <1>2, <1>3, PowerOneOrEven
<1> QED
  BY <1>1, <1>2, <1>3, <1>4

\* 2^31 has a tenth, and a number below it a sixteenth.
LEMMA TenDivides ==
  ASSUME IsPower2(Half), NEW num \in Nat, num <= Half
  PROVE  Divisible(num, 10)
<1>1. \A p : IsPower2(p) => 10 * p # Half
  <2>1. ASSUME NEW p, IsPower2(p), 10 * p = Half PROVE FALSE
    <3>1. p \in Nat /\ Half \in Nat
      BY <2>1, WordFacts DEF IsPower2
    <3>2. 2 * p \in Nat /\ Half = 5 * (2 * p)
      BY <2>1, <3>1
    <3> QED
      BY <3>1, <3>2, PowerIsNotTen
  <2> QED
    BY <2>1
<1>2. Half \in Nat
  BY WordFacts
<1> QED
  BY <1>1, <1>2 DEF Divisible

LEMMA TakesOne ==
  ASSUME NEW base \in {10, 16}, NEW b \in Seq(Nat), NEW w, NEW u, NEW rest,
         Takes(w, b, u, rest, base), rest # 0,
         NEW q \in Word, NEW r \in 0 .. base - 1, rest = q * base + r
  PROVE  \E v : Takes(v, Append(b, Digit(r)), u, q, base)
<1> DEFINE m == Len(b)
           v == [k \in 0 .. m + 1 |-> IF k <= m THEN w[k] ELSE q]
           c == Append(b, Digit(r))
<1>1. m \in Nat
  BY LenProperties
<1>2. Len(c) = m + 1 /\ c[m + 1] = Digit(r) /\ \A k \in 1 .. m : c[k] = b[k]
  <2>1. r \in 0 .. 15
    OBVIOUS
  <2>2. Digit(r) \in Nat
    BY <2>1, DigitIs
  <2> QED
    BY <2>2, AppendProperties
<1>3. /\ w \in [0 .. m -> Word] /\ w[0] = u /\ w[m] = rest
      /\ \A k \in 1 .. m : w[k - 1] # 0 /\ \E x \in 0 .. base - 1 : b[k] = Digit(x) /\ w[k - 1] = w[k] * base + x
  BY DEF Takes
<1> HIDE DEF m, c
<1>4. /\ v \in [0 .. m + 1 -> Word] /\ v[0] = u /\ v[m + 1] = q /\ v[m] = rest
      /\ \A k \in 0 .. m : v[k] = w[k]
  BY <1>1, <1>3
<1> HIDE DEF v
<1>5. ASSUME NEW k \in 1 .. m + 1
      PROVE  v[k - 1] # 0 /\ \E x \in 0 .. base - 1 : c[k] = Digit(x) /\ v[k - 1] = v[k] * base + x
  <2>1. CASE k = m + 1
    <3>1. k - 1 = m
      BY <1>1, <2>1
    <3>2. v[k - 1] = rest /\ v[k] = q /\ c[k] = Digit(r)
      BY <3>1, <2>1, <1>4, <1>2
    <3> QED
      BY <3>2
  <2>2. CASE k # m + 1
    <3>1. k \in 1 .. m /\ k - 1 \in 0 .. m /\ k \in 0 .. m
      BY <1>1, <2>2
    <3>2. v[k - 1] = w[k - 1] /\ v[k] = w[k] /\ c[k] = b[k]
      BY <3>1, <1>4, <1>2
    <3> QED
      BY <3>1, <3>2, <1>3
  <2> QED
    BY <2>1, <2>2
<1>6. Takes(v, c, u, q, base)
  BY <1>2, <1>4, <1>5 DEF Takes
<1> QED
  BY <1>6 DEF c

\* The last digit that was taken is not 0.
LEMMA LastDigit ==
  ASSUME NEW base \in {10, 16}, NEW b \in Seq(Nat), NEW w, NEW u, u # 0, Takes(w, b, u, 0, base)
  PROVE  Len(b) \in Nat \ {0} /\ b[Len(b)] # Zero /\ b[Len(b)] # Minus
<1> DEFINE m == Len(b)
<1>1. m \in Nat
  BY LenProperties
<1>2. /\ w[0] = u /\ w[m] = 0
      /\ \A k \in 1 .. m : w[k - 1] # 0 /\ \E x \in 0 .. base - 1 : b[k] = Digit(x) /\ w[k - 1] = w[k] * base + x
  BY DEF Takes
<1> HIDE DEF m
<1>3. m # 0
  BY <1>2
<1>4. PICK x \in 0 .. base - 1 : b[m] = Digit(x) /\ w[m - 1] = w[m] * base + x /\ w[m - 1] # 0
  <2>1. m \in 1 .. m
    BY <1>1, <1>3
  <2> QED
    BY <2>1, <1>2
<1>5. x # 0 /\ x \in 0 .. 15
  BY <1>2, <1>4
<1> QED
  BY <1>1, <1>3, <1>4, <1>5, DigitIs DEF m

\* The pieces of a text.
LEMMA WithoutOne ==
  ASSUME NEW m \in Nat, NEW s \in Seq(Nat), Len(s) = m + 1
  PROVE  /\ s # <<>> /\ Head(s) = s[1]
         /\ Tail(s) \in Seq(Nat) /\ Len(Tail(s)) = m
         /\ \A k \in 1 .. m : Tail(s)[k] = s[k + 1]
<1>1. s # <<>>
  BY EmptySeq
<1>2. /\ Tail(s) \in Seq(Nat) /\ Len(Tail(s)) = Len(s) - 1
      /\ \A k \in 1 .. Len(Tail(s)) : Tail(s)[k] = s[k + 1]
  BY <1>1, HeadTailProperties
<1>3. Len(Tail(s)) = m
  BY <1>2
<1>4. Head(s) = s[1]
  BY <1>1
<1> QED
  BY <1>1, <1>2, <1>3, <1>4, Zenon

LEMMA FromThird ==
  ASSUME NEW s, NEW N \in Nat, \A k \in 3 .. N : s[k] \in Nat
  PROVE  /\ SubSeq(s, 3, N) \in Seq(Nat)
         /\ Len(SubSeq(s, 3, N)) = IF 3 <= N THEN N - 3 + 1 ELSE 0
         /\ \A k \in 1 .. N - 3 + 1 : SubSeq(s, 3, N)[k] = s[3 + k - 1]
OBVIOUS

LEMMA WithoutTwo ==
  ASSUME NEW m \in Nat, NEW s \in Seq(Nat), Len(s) = m + 2
  PROVE  /\ SubSeq(s, 1, 2) = <<s[1], s[2]>>
         /\ SubSeq(s, 3, Len(s)) \in Seq(Nat) /\ Len(SubSeq(s, 3, Len(s))) = m
         /\ \A k \in 1 .. m : SubSeq(s, 3, Len(s))[k] = s[k + 2]
<1> DEFINE N == m + 2
<1>0. \A k \in 1 .. N : s[k] \in Nat
  BY ElementOfSeq
<1>1. SubSeq(s, 1, 2) = <<s[1], s[2]>>
  <2> DEFINE p == SubSeq(s, 1, 2)
  <2>1. p \in Seq(Nat) /\ Len(p) = 2 /\ p[1] = s[1] /\ p[2] = s[2]
    BY <1>0
  <2> HIDE DEF p
  <2>2. p = <<s[1], s[2]>>
    BY <2>1
  <2> QED
    BY <2>2 DEF p
<1>2. N \in Nat /\ N - 3 + 1 = m /\ (IF 3 <= N THEN N - 3 + 1 ELSE 0) = m
  OBVIOUS
<1>3. \A k \in 3 .. N : s[k] \in Nat
  BY <1>0
<1> HIDE DEF N
<1>4. /\ SubSeq(s, 3, N) \in Seq(Nat)
      /\ Len(SubSeq(s, 3, N)) = IF 3 <= N THEN N - 3 + 1 ELSE 0
      /\ \A k \in 1 .. N - 3 + 1 : SubSeq(s, 3, N)[k] = s[3 + k - 1]
  BY <1>2, <1>3, FromThird
<1>5. \A k \in 1 .. m : 3 + k - 1 = k + 2
  OBVIOUS
<1>6. Len(s) = N
  BY DEF N
<1> QED
  BY <1>1, <1>2, <1>4, <1>5, <1>6, Zenon

LEMMA Reversed ==
  ASSUME NEW N \in Nat, NEW c \in Seq(Nat), Len(c) = N
  PROVE  /\ Reverse(c) \in Seq(Nat) /\ Len(Reverse(c)) = N
         /\ \A k \in 1 .. N : Reverse(c)[k] = c[N - k + 1]
BY ReverseIs, Zenon

LEMMA ReverseOne ==
  ASSUME NEW b \in Seq(Nat), NEW x \in Nat
  PROVE  LET s == Reverse(b \o <<x>>)
         IN  /\ s \in Seq(Nat) /\ s # <<>> /\ Head(s) = x
             /\ Tail(s) \in Seq(Nat) /\ Backwards(Tail(s), b)
<1> DEFINE c == b \o <<x>>
           m == Len(b)
           s == Reverse(c)
<1>1. m \in Nat
  BY LenProperties
<1>2. c \in Seq(Nat) /\ Len(c) = m + 1 /\ c[m + 1] = x /\ \A k \in 1 .. m : c[k] = b[k]
  OBVIOUS
<1> HIDE DEF c, m
<1>3. s \in Seq(Nat) /\ Len(s) = m + 1 /\ \A k \in 1 .. m + 1 : s[k] = c[(m + 1) - k + 1]
  BY <1>1, <1>2, Reversed
<1> HIDE DEF s
<1>4. /\ s # <<>> /\ Head(s) = s[1]
      /\ Tail(s) \in Seq(Nat) /\ Len(Tail(s)) = m
      /\ \A k \in 1 .. m : Tail(s)[k] = s[k + 1]
  BY <1>1, <1>3, WithoutOne
<1>5. s[1] = x
  <2>1. 1 \in 1 .. m + 1 /\ (m + 1) - 1 + 1 = m + 1
    BY <1>1
  <2> QED
    BY <1>2, <1>3, <2>1
<1> DEFINE t == Tail(s)
<1>6. t \in Seq(Nat) /\ Len(t) = m /\ \A k \in 1 .. m : t[k] = s[k + 1]
  BY <1>4
<1> HIDE DEF t
<1>7. ASSUME NEW k \in 1 .. m PROVE t[k] = b[m + 1 - k]
  <2>1. k + 1 \in 1 .. m + 1 /\ (m + 1) - (k + 1) + 1 = m + 1 - k /\ m + 1 - k \in 1 .. m
    BY <1>1
  <2>2. s[k + 1] = c[(m + 1) - (k + 1) + 1]
    BY <1>3, <2>1
  <2> QED
    BY <1>2, <1>6, <2>1, <2>2
<1>8. Backwards(t, b)
  BY <1>6, <1>7 DEF Backwards, m
<1>9. s \in Seq(Nat) /\ s # <<>> /\ Head(s) = x /\ Tail(s) \in Seq(Nat) /\ Backwards(Tail(s), b)
  BY <1>3, <1>4, <1>5, <1>6, <1>8 DEF t
<1> QED
  BY <1>9 DEF s, c

LEMMA ReverseTwo ==
  ASSUME NEW b \in Seq(Nat), NEW x \in Nat, NEW y \in Nat
  PROVE  LET s == Reverse(b \o <<x, y>>)
         IN  /\ SubSeq(s, 1, 2) = <<y, x>>
             /\ SubSeq(s, 3, Len(s)) \in Seq(Nat) /\ Backwards(SubSeq(s, 3, Len(s)), b)
<1> DEFINE c == b \o <<x, y>>
           m == Len(b)
           s == Reverse(c)
<1>1. m \in Nat /\ m + 2 \in Nat
  BY LenProperties
<1>2. /\ c \in Seq(Nat) /\ Len(c) = m + 2 /\ c[m + 1] = x /\ c[m + 2] = y
      /\ \A k \in 1 .. m : c[k] = b[k]
  OBVIOUS
<1> HIDE DEF c, m
<1>3. s \in Seq(Nat) /\ Len(s) = m + 2 /\ \A k \in 1 .. m + 2 : s[k] = c[(m + 2) - k + 1]
  BY <1>1, <1>2, Reversed
<1> HIDE DEF s
<1> DEFINE t == SubSeq(s, 3, Len(s))
<1>4. /\ SubSeq(s, 1, 2) = <<s[1], s[2]>>
      /\ t \in Seq(Nat) /\ Len(t) = m /\ \A k \in 1 .. m : t[k] = s[k + 2]
  BY <1>1, <1>3, WithoutTwo
<1> HIDE DEF t
<1>5. s[1] = y /\ s[2] = x
  <2>1. /\ 1 \in 1 .. m + 2 /\ (m + 2) - 1 + 1 = m + 2
        /\ 2 \in 1 .. m + 2 /\ (m + 2) - 2 + 1 = m + 1
    BY <1>1
  <2> QED
    BY <1>2, <1>3, <2>1
<1>7. ASSUME NEW k \in 1 .. m PROVE t[k] = b[m + 1 - k]
  <2>1. k + 2 \in 1 .. m + 2 /\ (m + 2) - (k + 2) + 1 = m + 1 - k /\ m + 1 - k \in 1 .. m
    BY <1>1
  <2>2. s[k + 2] = c[(m + 2) - (k + 2) + 1]
    BY <1>3, <2>1
  <2> QED
    BY <1>2, <1>4, <2>1, <2>2
<1>8. Backwards(t, b)
  BY <1>4, <1>7 DEF Backwards, m
<1>9. SubSeq(s, 1, 2) = <<y, x>> /\ t \in Seq(Nat)
  BY <1>4, <1>5
<1> QED
  BY <1>8, <1>9 DEF s, c, t

\* A text of digits only, and one with a minus in front, are read as the number.
LEMMA ReadsPositive ==
  ASSUME NEW num \in Int32, num > 0, NEW b \in Seq(Nat), NEW w, Takes(w, b, num, 0, 10)
  PROVE  atoi(Reverse(b)) = num /\ Head(Reverse(b)) # Zero
<1> DEFINE s == Reverse(b)
           m == Len(b)
<1>1. m \in Nat \ {0} /\ b[m] # Zero /\ b[m] # Minus
  BY LastDigit
<1> HIDE DEF m
<1>2. s \in Seq(Nat) /\ Len(s) = m /\ \A k \in 1 .. m : s[k] = b[m - k + 1]
  BY ReverseIs DEF m
<1>3. Backwards(s, b)
  <2>1. \A k \in 1 .. m : m - k + 1 = m + 1 - k
    BY <1>1
  <2> QED
    BY <1>2, <2>1 DEF Backwards, m
<1> HIDE DEF s
<1>4. s # <<>> /\ Head(s) = b[m]
  <2>1. 1 \in 1 .. m /\ m - 1 + 1 = m
    BY <1>1
  <2>2. s # <<>>
    BY <1>1, <1>2, EmptySeq
  <2> QED
    BY <1>2, <2>1, <2>2
<1>5. FoldLeft(LAMBDA r, c : (r * 10 + c - Zero) % Modulus, 0, s) = num
  <2>1. s \in Seq(Int)
    BY <1>2, SeqMonotonic
  <2> QED
    BY <1>3, <2>1, ReadsDecimal
<1>6. signed(num) = num
  BY WordFacts DEF signed, Int32
<1>7. atoi(s) = num
  BY <1>1, <1>4, <1>5, <1>6, Zenon DEF atoi
<1> QED
  BY <1>1, <1>4, <1>7 DEF s

LEMMA ReadsNegative ==
  ASSUME NEW num \in Int32, num < 0, NEW b \in Seq(Nat), NEW w, Takes(w, b, -num, 0, 10)
  PROVE  atoi(Reverse(b \o <<Minus>>)) = num /\ Head(Reverse(b \o <<Minus>>)) # Zero
<1> DEFINE s == Reverse(b \o <<Minus>>)
<1>1. s # <<>> /\ Head(s) = Minus /\ Tail(s) \in Seq(Nat) /\ Backwards(Tail(s), b)
  <2>1. Minus \in Nat
    BY DEF Minus
  <2> QED
    BY <2>1, ReverseOne
<1> HIDE DEF s
<1>2. FoldLeft(LAMBDA r, c : (r * 10 + c - Zero) % Modulus, 0, Tail(s)) = -num
  <2>1. Tail(s) \in Seq(Int)
    BY <1>1, SeqMonotonic
  <2> QED
    BY <1>1, <2>1, ReadsDecimal
<1>3. signed((-(-num)) % Modulus) = num
  <2>1. num \in Int /\ -Half <= num /\ Half \in Nat /\ Modulus = 2 * Half /\ -(-num) = num
    BY WordFacts DEF Int32
  <2>2. num % Modulus = num + Modulus
    BY <2>1, WordMod
  <2> QED
    BY <2>1, <2>2 DEF signed
<1>4. atoi(s) = num
  BY <1>1, <1>2, <1>3, Zenon DEF atoi
<1>5. Minus # Zero
  BY DEF Minus, Zero
<1> QED
  BY <1>1, <1>4, <1>5 DEF s

LEMMA ReadsHexText ==
  ASSUME NEW u \in Word, u # 0, NEW b \in Seq(Nat), NEW w, Takes(w, b, u, 0, 16)
  PROVE  LET s == Reverse(b \o <<LowerX, Zero>>)
             t == SubSeq(s, 3, Len(s))
         IN  /\ SubSeq(s, 1, 2) = <<Zero, LowerX>>
             /\ t \in Seq(HexDigits) /\ Head(t) # Zero /\ HexValue(t) = u
<1> DEFINE s == Reverse(b \o <<LowerX, Zero>>)
           t == SubSeq(s, 3, Len(s))
           m == Len(b)
<1>1. SubSeq(s, 1, 2) = <<Zero, LowerX>> /\ t \in Seq(Nat) /\ Backwards(t, b)
  <2>1. LowerX \in Nat /\ Zero \in Nat
    BY DEF LowerX, Zero
  <2> QED
    BY <2>1, ReverseTwo
<1>2. m \in Nat \ {0} /\ b[m] # Zero
  BY LastDigit
<1> HIDE DEF s, t, m
<1>3. Len(t) = m /\ \A k \in 1 .. m : t[k] = b[m + 1 - k]
  BY <1>1 DEF Backwards, m
<1>4. Head(t) # Zero
  <2>1. 1 \in 1 .. m /\ m + 1 - 1 = m
    BY <1>2
  <2>2. t # <<>>
    BY <1>2, <1>3, EmptySeq
  <2> QED
    BY <1>1, <1>2, <1>3, <2>1, <2>2
<1>5. ASSUME NEW k \in 1 .. m PROVE t[k] \in HexDigits
  <2> DEFINE j == m + 1 - k
  <2>1. j \in 1 .. m
    BY <1>2
  <2> HIDE DEF j
  <2>2. \A x \in 1 .. m : \E r \in 0 .. 16 - 1 : b[x] = Digit(r)
    BY DEF Takes, m
  <2>3. PICK r \in 0 .. 16 - 1 : b[j] = Digit(r)
    BY <2>1, <2>2
  <2>4. r \in 0 .. 15
    BY <2>3
  <2>5. Digit(r) \in HexDigits
    BY <2>4, DigitIs
  <2> QED
    BY <1>3, <2>3, <2>5 DEF j
<1>6. t \in Seq(HexDigits)
  <2>1. t \in [1 .. m -> Nat] /\ m \in Nat
    BY <1>1, <1>2, <1>3, LenProperties
  <2>2. t \in [1 .. m -> HexDigits]
    BY <1>5, <2>1
  <2> HIDE DEF HexDigits
  <2> QED
    BY <2>1, <2>2
<1>7. HexValue(t) = u
  <2>1. t \in Seq(Int)
    BY <1>1, SeqMonotonic
  <2> QED
    BY <1>1, <2>1, ReadsHex
<1>8. /\ SubSeq(s, 1, 2) = <<Zero, LowerX>>
      /\ t \in Seq(HexDigits) /\ Head(t) # Zero /\ HexValue(t) = u
  BY <1>1, <1>4, <1>6, <1>7
<1> QED
  BY <1>8, Zenon DEF s, t

\* A division of 2^31 or more by 16 goes on doubling, at last 0.
Diverges == /\ at = "double" /\ dividend = n
            /\ \/ denom = 0
               \/ \E e : IsPower2(e) /\ denom * e = Half

\* The digits in intbuf and what is left of the number make the number.
Digits ==
  caller = "itoa" =>
    /\ arg[1] # 0 /\ intbuf \in Seq(Nat)
    /\ \E w : Takes(w, intbuf, Unsigned(arg[1], arg[2]), i, arg[2])
    /\ at # "ready" => i # 0
    /\ arg[2] = 10 => i <= Half
    /\ arg[2] = 16 /\ arg[1] >= 0 => i < Half
    /\ arg[2] = 16 /\ arg[1] < 0 => i >= Half /\ (at # "ready" => Diverges)

TextInv == Digits /\ TextReadsBack

\* The first doubling, and the others.
LEMMA DivergesFirst ==
  ASSUME IsPower2(Half), Half > 100, NEW num \in Word, num >= Half, div(num, 16)
  PROVE  Diverges'
<1>1. PICK e \in Nat : IsPower2(e) /\ 16 * e = Half
  BY HalfBySixteen
<1>2. Half \in Nat /\ num \in Nat
  BY WordFacts
<1>3. at' = "double" /\ dividend' = num /\ n' = num /\ denom' = 16
  BY <1>2 DEF div
<1> QED
  BY <1>1, <1>3 DEF Diverges

LEMMA DivergesOn ==
  ASSUME TypeInv, Diverges, n >= Half, DivStep
  PROVE  Diverges'
<1>1. at = "double" /\ dividend = n /\ denom \in Nat /\ n \in Nat /\ Half \in Nat /\ Modulus = 2 * Half
  BY WordFacts DEF Diverges, TypeInv, DivTypeOK
<1>2. ASSUME denom # 0
      PROVE  \E e : IsPower2(e) /\ e \in Nat /\ denom * e = Half /\ denom <= Half
  <2>1. PICK e : IsPower2(e) /\ denom * e = Half
    BY <1>2 DEF Diverges
  <2>2. e \in Nat /\ e # 0
    <3>1. e \in Nat
      BY <2>1 DEF IsPower2
    <3>2. CASE e = 0
      BY <3>2, <2>1, <1>1, WordFacts
    <3> QED
      BY <3>1, <3>2
  <2>3. denom <= e * denom /\ e * denom = denom * e
    BY <1>1, <2>2, FactorBelow
  <2> QED
    BY <2>1, <2>2, <2>3
<1>3. denom <= dividend
  BY <1>1, <1>2
<1>4. denom' = ShiftLeft(denom) /\ at' = at /\ dividend' = dividend /\ n' = n
  BY <1>1, <1>3 DEF DivStep, Double, EndDouble, Subtract, EndSubtract
<1>5. CASE denom = 0
  <2>1. denom' = 0
    BY <1>1, <1>4, <1>5, WordFacts DEF ShiftLeft
  <2> QED
    BY <1>1, <1>4, <2>1 DEF Diverges
<1>6. CASE denom # 0
  <2>1. PICK e \in Nat : IsPower2(e) /\ denom * e = Half
    BY <1>2, <1>6
  <2>2. CASE e = 1
    <3>1. denom = Half
      BY <1>1, <2>1, <2>2
    <3>2. denom' = 0
      BY <1>1, <1>4, <3>1, WordFacts DEF ShiftLeft
    <3> QED
      BY <1>1, <1>4, <3>2 DEF Diverges
  <2>3. CASE e # 1
    <3>1. PICK h \in Nat : IsPower2(h) /\ e = 2 * h
      BY <2>1, <2>3, PowerOneOrEven
    <3>2. denom * e = 2 * (denom * h) /\ (2 * denom) * h = 2 * (denom * h)
      BY <1>1, <3>1, TimesTwo
    <3>3. (2 * denom) * h = Half
      BY <2>1, <3>2
    <3>4. h # 0
      BY <3>1, <3>3, <1>1, WordFacts
    <3>5. 2 * denom <= Half
      BY <1>1, <3>1, <3>3, <3>4, FactorBelow
    <3>6. denom' = 2 * denom
      BY <1>1, <1>4, <3>5, WordFacts DEF ShiftLeft
    <3> QED
      BY <1>1, <1>4, <3>1, <3>3, <3>6 DEF Diverges
  <2> QED
    BY <2>2, <2>3
<1> QED
  BY <1>5, <1>6

\* A division that ends is one that itoa can use.
LEMMA DigitDivides ==
  ASSUME IsPower2(Half), Half > 100, TypeInv, ValueInv, CallerTypes, Digits,
         caller = "itoa", DivReturn
  PROVE  /\ arg[1] \in Int32 /\ arg[2] \in {10, 16}
         /\ arg[2] = 16 => arg[1] >= 0
         /\ div_result \in Word /\ mod_result \in 0 .. arg[2] - 1
         /\ i = div_result * arg[2] + mod_result /\ i \in Nat
<1>1. at = "return" /\ n = i /\ d = arg[2] /\ i \in Nat /\ arg[1] \in Int32 /\ arg[2] \in {10, 16}
  BY WordFacts DEF CallerTypes, DivReturn
<1>2. arg[2] = 16 => arg[1] >= 0
  BY <1>1 DEF Digits, Diverges, Int32
<1>3. Divisible(n, d)
  <2>1. CASE arg[2] = 10
    BY <2>1, <1>1, TenDivides DEF Digits
  <2>2. CASE arg[2] = 16
    BY <2>2, <1>1, <1>2 DEF Digits, Divisible
  <2> QED
    BY <1>1, <2>1, <2>2
<1>4. mod_result \in Nat /\ mod_result < d /\ n = div_result * d + mod_result
  BY <1>1, <1>3, ReturnsQuotient
<1>5. div_result \in Word
  BY ResultIs
<1> QED
  BY <1>1, <1>2, <1>4, <1>5

LEMMA TextInvInit == Init => TextInv
BY DEF Init, TextInv, Digits, TextReadsBack

LEMMA BeginsText ==
  ASSUME NEW num \in Int32, NEW base \in {10, 16}, itoa(num, base)
  PROVE  TextInv'
<1>1. arg'[1] = num /\ arg'[2] = base /\ at' = "ready"
  BY DEF itoa, divVars
<1>2. CASE num = 0
  BY <1>1, <1>2 DEF itoa, TextInv, Digits, TextReadsBack
<1>3. CASE num # 0
  <2>1. caller' = "itoa" /\ intbuf' = <<>> /\ i' = Unsigned(num, base)
    BY <1>3 DEF itoa, Unsigned
  <2>2. Takes([k \in 0 .. 0 |-> Unsigned(num, base)], <<>>, Unsigned(num, base), Unsigned(num, base), base)
    <3> DEFINE u == Unsigned(num, base)
               w == [k \in 0 .. 0 |-> u]
    <3>1. u \in Word
      BY UnsignedIs
    <3> HIDE DEF u
    <3>2. w \in [0 .. 0 -> Word] /\ w[0] = u /\ Len(<<>>) = 0
      BY <3>1
    <3> QED
      BY <3>2 DEF Takes, u
  <2>3. /\ base = 10 => Unsigned(num, base) <= Half
        /\ base = 16 /\ num >= 0 => Unsigned(num, base) < Half
        /\ base = 16 /\ num < 0 => Unsigned(num, base) >= Half
    BY UnsignedIs, WordFacts DEF Int32
  <2>4. <<>> \in Seq(Nat)
    OBVIOUS
  <2>5. Digits'
    BY <1>1, <1>3, <2>1, <2>2, <2>3, <2>4 DEF Digits
  <2> QED
    BY <2>1, <2>5 DEF TextInv, TextReadsBack
<1> QED
  BY <1>2, <1>3

LEMMA TakesDigit ==
  ASSUME IsPower2(Half), Half > 100, TypeInv, ValueInv, CallerTypes, Digits, StoreDigit
  PROVE  TextInv'
<1>1. /\ caller = "itoa" /\ DivReturn /\ caller' = "itoa" /\ arg' = arg /\ at' = "ready"
      /\ intbuf' = Append(intbuf, Digit(mod_result)) /\ i' = div_result
  BY DivEnds DEF StoreDigit
<1>2. /\ arg[1] \in Int32 /\ arg[2] \in {10, 16}
      /\ arg[2] = 16 => arg[1] >= 0
      /\ div_result \in Word /\ mod_result \in 0 .. arg[2] - 1
      /\ i = div_result * arg[2] + mod_result /\ i \in Nat
  BY <1>1, DigitDivides
<1>3. i # 0
  BY <1>1 DEF Digits, DivReturn
<1>4. \E v : Takes(v, intbuf', Unsigned(arg[1], arg[2]), i', arg[2])
  <2>1. PICK w : Takes(w, intbuf, Unsigned(arg[1], arg[2]), i, arg[2])
    BY <1>1 DEF Digits
  <2>2. intbuf \in Seq(Nat)
    BY <1>1 DEF Digits
  <2>3. \E v : Takes(v, Append(intbuf, Digit(mod_result)), Unsigned(arg[1], arg[2]), div_result, arg[2])
    BY <1>2, <1>3, <2>1, <2>2, TakesOne
  <2> QED
    BY <1>1, <2>3
<1>5. intbuf' \in Seq(Nat)
  <2>1. mod_result \in 0 .. 15
    BY <1>2
  <2>2. Digit(mod_result) \in Nat
    BY <2>1, DigitIs
  <2> QED
    BY <1>1, <2>2, AppendProperties DEF Digits
<1>6. i' <= i /\ i' \in Nat
  <2>1. div_result \in Nat
    BY <1>2, WordFacts
  <2>2. div_result <= arg[2] * div_result
    BY <1>2, <2>1, FactorBelow
  <2>3. arg[2] * div_result = div_result * arg[2] /\ arg[2] * div_result \in Nat
    BY <1>2, <2>1
  <2>4. mod_result \in Nat
    BY <1>2
  <2> QED
    BY <1>1, <1>2, <2>1, <2>2, <2>3, <2>4
<1>7. Digits'
  <2>2. arg[1] # 0 /\ Half \in Nat /\ (arg[2] = 10 => i <= Half) /\ (arg[2] = 16 /\ arg[1] >= 0 => i < Half)
    BY <1>1, WordFacts DEF Digits
  <2>3. /\ arg[2] = 10 => i' <= Half
        /\ arg[2] = 16 /\ arg[1] >= 0 => i' < Half
        /\ ~(arg[2] = 16 /\ arg[1] < 0)
    BY <1>2, <1>6, <2>2 DEF Int32
  <2> QED
    BY <1>1, <1>4, <1>5, <2>2, <2>3 DEF Digits
<1> QED
  BY <1>1, <1>7 DEF TextInv, TextReadsBack

LEMMA EndsText ==
  ASSUME CallerTypes, Digits, EndItoa
  PROVE  TextInv'
<1>1. /\ caller = "itoa" /\ i = 0 /\ at = "ready" /\ caller' = "printed" /\ arg' = arg
      /\ intbuf' = Reverse(intbuf \o Sign(arg[1], arg[2]) \o Prefix(arg[2]))
  BY DEF EndItoa
<1>2. PICK num \in Int32, base \in {10, 16} : arg[1] = num /\ arg[2] = base
  BY <1>1 DEF CallerTypes
<1>3. PICK b \in Seq(Nat) : intbuf = b
  BY <1>1 DEF Digits
<1>4. PICK w : Takes(w, b, Unsigned(num, base), 0, base)
  BY <1>1, <1>2, <1>3 DEF Digits
<1>5. num # 0 /\ (base = 16 => num >= 0)
  BY <1>1, <1>2, WordFacts DEF Digits, Int32
<1>6. caller' # "itoa" /\ arg'[1] = num /\ arg'[2] = base
      /\ intbuf' = Reverse(b \o Sign(num, base) \o Prefix(base))
  BY <1>1, <1>2, <1>3
<1>7. CASE base = 10 /\ num > 0
  <2>1. Sign(num, base) = <<>> /\ Prefix(base) = <<>>
    BY <1>7 DEF Sign, Prefix, Int32
  <2>2. b \o <<>> \o <<>> = b
    OBVIOUS
  <2>3. Takes(w, b, num, 0, 10)
    BY <1>4, <1>7, UnsignedIs DEF Int32
  <2>4. atoi(Reverse(b)) = num /\ Head(Reverse(b)) # Zero
    BY <1>7, <2>3, ReadsPositive
  <2>5. intbuf' = Reverse(b)
    BY <1>6, <2>1, <2>2
  <2> QED
    BY <1>5, <1>6, <1>7, <2>4, <2>5 DEF TextInv, Digits, TextReadsBack
<1>8. CASE base = 10 /\ num < 0
  <2>1. Sign(num, base) = <<Minus>> /\ Prefix(base) = <<>>
    BY <1>8 DEF Sign, Prefix
  <2>2. b \o <<Minus>> \o <<>> = b \o <<Minus>>
    OBVIOUS
  <2>3. Takes(w, b, -num, 0, 10)
    BY <1>4, <1>8, UnsignedIs
  <2>4. /\ atoi(Reverse(b \o <<Minus>>)) = num
        /\ Head(Reverse(b \o <<Minus>>)) # Zero
    BY <1>8, <2>3, ReadsNegative
  <2>5. intbuf' = Reverse(b \o <<Minus>>)
    BY <1>6, <2>1, <2>2
  <2> QED
    BY <1>5, <1>6, <1>8, <2>4, <2>5 DEF TextInv, Digits, TextReadsBack
<1>9. CASE base = 16
  <2>1. Sign(num, base) = <<>> /\ Prefix(base) = <<LowerX, Zero>>
    BY <1>9 DEF Sign, Prefix
  <2>2. b \o <<>> \o <<LowerX, Zero>> = b \o <<LowerX, Zero>>
    OBVIOUS
  <2>3. num % Modulus \in Word /\ num % Modulus # 0 /\ Takes(w, b, num % Modulus, 0, 16)
    <3>1. Unsigned(num, base) = num % Modulus
      BY <1>9 DEF Unsigned
    <3> QED
      BY <1>4, <1>5, <1>9, <3>1, UnsignedIs
  <2> DEFINE s == Reverse(b \o <<LowerX, Zero>>)
             t == SubSeq(s, 3, Len(s))
  <2>4. /\ SubSeq(s, 1, 2) = <<Zero, LowerX>>
        /\ t \in Seq(HexDigits) /\ Head(t) # Zero /\ HexValue(t) = num % Modulus
    BY <2>3, ReadsHexText, Zenon
  <2>5. intbuf' = s
    BY <1>6, <2>1, <2>2
  <2>6. /\ SubSeq(intbuf', 1, 2) = <<Zero, LowerX>>
        /\ SubSeq(intbuf', 3, Len(intbuf')) \in Seq(HexDigits)
        /\ Head(SubSeq(intbuf', 3, Len(intbuf'))) # Zero
        /\ HexValue(SubSeq(intbuf', 3, Len(intbuf'))) = num % Modulus
    BY <2>4, <2>5, Zenon
  <2>7. caller' # "itoa" /\ arg'[1] = num /\ num # 0 /\ arg'[2] # 10
    BY <1>5, <1>6, <1>9
  <2> HIDE DEF s, t
  <2>8. TextReadsBack'
    BY <2>6, <2>7, Zenon DEF TextReadsBack
  <2> QED
    BY <2>7, <2>8 DEF TextInv, Digits
<1> QED
  BY <1>5, <1>7, <1>8, <1>9 DEF Int32

LEMMA TextInvNext ==
  ASSUME IsPower2(Half), Half > 100, TypeInv, ValueInv, CallerTypes, TextInv, [Next]_vars
  PROVE  TextInv'
<1> USE DEF libVars
<1>1. ASSUME NEW num \in Int32, NEW base \in {10, 16}, itoa(num, base) PROVE TextInv'
  BY <1>1, BeginsText
<1>2. ASSUME NEW t, NEW s, metric(t, s) \/ master_mind(t, s) PROVE TextInv'
  BY <1>2 DEF metric, master_mind, TextInv, Digits, TextReadsBack
<1>3. CASE NextDigit
  <2>1. caller = "itoa" /\ i # 0 /\ div(i, arg[2]) /\ UNCHANGED <<caller, arg, i, intbuf>>
    BY <1>3 DEF NextDigit
  <2>2. ASSUME arg[2] = 16, arg[1] < 0 PROVE Diverges'
    <3>1. i >= Half /\ i \in Word
      BY <2>1, <2>2 DEF TextInv, Digits, CallerTypes
    <3> QED
      BY <2>1, <2>2, <3>1, DivergesFirst
  <2>3. Digits'
    BY <2>1, <2>2 DEF TextInv, Digits
  <2> QED
    BY <2>1, <2>3 DEF TextInv, TextReadsBack
<1>4. CASE StoreDigit
  BY <1>4, TakesDigit DEF TextInv
<1>5. CASE EndItoa
  BY <1>5, EndsText DEF TextInv
<1>6. CASE RatioDone \/ Percent \/ PercentDone \/ Decide \/ Return
  BY <1>6 DEF RatioDone, Percent, PercentDone, Decide, Return, TextInv, Digits, TextReadsBack
<1>7. CASE InDiv
  <2>1. at # "ready" /\ at' # "ready" /\ UNCHANGED <<n, d, caller, arg, i, intbuf>> /\ DivStep
    BY <1>7, InDivKeeps DEF InDiv
  <2>2. ASSUME caller = "itoa", arg[2] = 16, arg[1] < 0 PROVE Diverges'
    <3>1. n >= Half /\ Diverges
      BY <2>1, <2>2 DEF TextInv, Digits, CallerTypes
    <3> QED
      BY <2>1, <3>1, DivergesOn
  <2>3. Digits'
    BY <2>1, <2>2 DEF TextInv, Digits
  <2>4. caller # "printed"
    BY <2>1 DEF CallerTypes
  <2> QED
    BY <2>1, <2>3, <2>4 DEF TextInv, TextReadsBack
<1>8. CASE UNCHANGED vars
  BY <1>8 DEF vars, divVars, TextInv, Digits, TextReadsBack, Diverges
<1> QED
  BY <1>1, <1>2, <1>3, <1>4, <1>5, <1>6, <1>7, <1>8 DEF Next, Step

\* For a width of a word that is a power of two and holds 100: what itoa prints
\* of a number is read back by atoi, or has its value in hexadecimal (stdlib.c).
THEOREM PrintsReadable ==
  ASSUME IsPower2(Half), Half > 100
  PROVE  Spec => []TextReadsBack
<1>1. TypeInv /\ ValueInv /\ CallerTypes /\ Measures /\ TextInv /\ [Next]_vars => TextInv'
  BY TextInvNext
<1>2. TextInv => TextReadsBack
  BY DEF TextInv
<1>3. Spec => [](TypeInv /\ ValueInv /\ CallerTypes /\ Measures)
  BY LibraryInv
<1> QED
  BY <1>1, <1>2, <1>3, TextInvInit, PTL DEF Spec
=============================================================================
