---------------------------- MODULE DeviceProofs ----------------------------
(* Proofs about Log and VirtioBlk, what the kernel sends to its console and to  *)
(* its disk, for any sizes of buffers and queues, formats and arguments.        *)
EXTENDS Log, VirtioBlk, TLAPS

\* Induction over the numbers, as a fact about sets of them.
Induction ==
    \A S \in SUBSET Nat : 0 \in S /\ (\A k \in S : k + 1 \in S) => S = Nat

-----------------------------------------------------------------------------
(* Numbers in digits.                                                        *)

\* The loop of uint64_to_string: g[i] is num after i turns.
Divided(g, num, base, n) == g = [i \in 0 .. n |-> IF i = 0 THEN num ELSE g[i - 1] \div base]

\* The loop of uint64_to_string can be followed for any number of turns.
LEMMA DividedExists ==
    ASSUME Induction, NEW num, NEW base, NEW n \in Nat
    PROVE  \E g : Divided(g, num, base, n)
  <1>. DEFINE T == {k \in Nat : \E g : Divided(g, num, base, k)}
  <1>1. 0 \in T
    <2>1. Divided([i \in 0 .. 0 |-> num], num, base, 0)
      BY DEF Divided
    <2>. QED
      BY <2>1
  <1>2. ASSUME NEW k \in T PROVE k + 1 \in T
    <2>1. PICK g : Divided(g, num, base, k)
      BY <1>2
    <2>. DEFINE h == [i \in 0 .. k + 1 |-> IF i = k + 1 THEN g[k] \div base ELSE g[i]]
    <2>2. k \in Nat
      BY <1>2
    <2>3. ASSUME NEW i \in 0 .. k + 1
          PROVE  h[i] = IF i = 0 THEN num ELSE h[i - 1] \div base
      <3>1. CASE i = k + 1
        BY <3>1, <2>2
      <3>2. CASE i # k + 1
        <4>1. i \in 0 .. k /\ h[i] = g[i]
          BY <3>2, <2>2
        <4>2. g[i] = IF i = 0 THEN num ELSE g[i - 1] \div base
          BY <4>1, <2>1 DEF Divided
        <4>3. i # 0 => h[i - 1] = g[i - 1]
          BY <4>1, <2>2
        <4>. QED
          BY <4>1, <4>2, <4>3
      <3>. QED
        BY <3>1, <3>2
    <2>4. Divided(h, num, base, k + 1)
      <3>1. h = [i \in 0 .. k + 1 |-> h[i]]
        OBVIOUS
      <3>. HIDE DEF h
      <3>. QED
        BY <2>3, <3>1 DEF Divided
    <2>. QED
      BY <2>2, <2>4
  <1>3. T \in SUBSET Nat
    OBVIOUS
  <1>. HIDE DEF T
  <1>4. T = Nat
    BY Zenon, <1>1, <1>2, <1>3 DEF Induction
  <1>. QED
    BY <1>4 DEF T

\* Division by a base of two or more makes a number smaller, and takes off its last
\* digit.
LEMMA Division ==
    ASSUME NEW m \in Nat, NEW base \in Nat, base >= 2
    PROVE  /\ m \div base \in Nat /\ m % base \in 0 .. base - 1
           /\ m = (m \div base) * base + (m % base)
           /\ m > 0 => m \div base < m
  <1>1. /\ m \div base \in Int /\ m % base \in 0 .. base - 1
        /\ m = base * (m \div base) + (m % base)
    BY Z3
  <1>. DEFINE q == m \div base
              r == m % base
  <1>. HIDE DEF q, r
  <1>2. /\ q \in Int /\ r \in 0 .. base - 1 /\ m = base * q + r
    BY <1>1 DEF q, r
  <1>3. q >= 0
    <2>. SUFFICES ASSUME q <= -1 PROVE FALSE
      BY <1>2
    <2>1. base * q <= -base
      BY <1>2
    <2>. QED
      BY <1>2, <2>1
  <1>4. base * q = q * base
    BY <1>2
  <1>5. base * q >= 2 * q
    BY <1>2, <1>3
  <1>6. m > 0 => q < m
    BY <1>2, <1>3, <1>5
  <1>. QED
    BY <1>2, <1>3, <1>4, <1>6 DEF q, r

\* left follows the loop of uint64_to_string for num > 0, and n is the turn that ends
\* it.
Loop(left, n, num, base) ==
    /\ left \in [0 .. num -> Nat] /\ left[0] = num
    /\ \A i \in 1 .. num : left[i] = left[i - 1] \div base
    /\ n \in 1 .. num /\ left[n - 1] > 0 /\ left[n] = 0

\* The loop of uint64_to_string ends, within num turns, and its digits are the
\* remainders in the opposite order.
LEMMA LoopEnds ==
    ASSUME Induction, NEW num \in Nat, num > 0, NEW base \in Nat, base >= 2
    PROVE  \E left, n :
             /\ Loop(left, n, num, base)
             /\ uint64_to_string(num, base) = [k \in 1 .. n |-> Digit(left[n - k] % base)]
  <1>. DEFINE left == CHOOSE g : Divided(g, num, base, num)
              n == CHOOSE i \in 1 .. num : left[i - 1] > 0 /\ left[i] = 0
  <1>1. uint64_to_string(num, base) = [k \in 1 .. n |-> Digit(left[n - k] % base)]
    BY DEF uint64_to_string, Divided
  <1>2. Divided(left, num, base, num)
    <2>1. \E g : Divided(g, num, base, num)
      BY Zenon, DividedExists
    <2>. QED
      BY Zenon, <2>1
  <1>. HIDE DEF left
  <1>3. /\ left[0] = num
        /\ \A i \in 1 .. num : left[i] = left[i - 1] \div base
        /\ left = [i \in 0 .. num |-> left[i]]
    BY <1>2 DEF Divided
  <1>. DEFINE T == {k \in Nat : k <= num =>
                      left[k] \in Nat /\ (left[k] = 0 \/ left[k] + k <= num)}
  <1>4. \A k \in 0 .. num : left[k] \in Nat /\ (left[k] = 0 \/ left[k] + k <= num)
    <2>1. 0 \in T
      BY <1>3
    <2>2. ASSUME NEW k \in T PROVE k + 1 \in T
      <3>. SUFFICES ASSUME k + 1 <= num
                    PROVE  /\ left[k + 1] \in Nat
                           /\ left[k + 1] = 0 \/ left[k + 1] + (k + 1) <= num
        BY <2>2
      <3>1. k \in Nat /\ left[k] \in Nat /\ (left[k] = 0 \/ left[k] + k <= num)
        BY <2>2
      <3>2. left[k + 1] = left[k] \div base
        <4>1. k + 1 \in 1 .. num /\ (k + 1) - 1 = k
          BY <3>1
        <4>. QED
          BY <4>1, <1>3
      <3>3. left[k] \div base \in Nat /\ (left[k] > 0 => left[k] \div base < left[k])
        BY <3>1, Division
      <3>4. left[k] = 0 => left[k] \div base = 0
        BY <3>1
      <3>. QED
        BY <3>1, <3>2, <3>3, <3>4
    <2>3. T \in SUBSET Nat
      OBVIOUS
    <2>. HIDE DEF T
    <2>4. T = Nat
      BY Zenon, <2>1, <2>2, <2>3 DEF Induction
    <2>. QED
      BY <2>4 DEF T
  <1>5. \E i \in 1 .. num : left[i - 1] > 0 /\ left[i] = 0
    <2>. SUFFICES ASSUME \A i \in 1 .. num : ~ (left[i - 1] > 0 /\ left[i] = 0)
                  PROVE  FALSE
      OBVIOUS
    <2>. DEFINE P == {k \in Nat : k <= num => left[k] > 0}
    <2>1. 0 \in P
      BY <1>3
    <2>2. ASSUME NEW k \in P PROVE k + 1 \in P
      <3>. SUFFICES ASSUME k + 1 <= num PROVE left[k + 1] > 0
        BY <2>2
      <3>1. k \in Nat /\ k + 1 \in 1 .. num /\ (k + 1) - 1 = k /\ left[k] > 0
        BY <2>2
      <3>2. left[k + 1] # 0 /\ left[k + 1] \in Nat
        BY <3>1, <1>4
      <3>. QED
        BY <3>2
    <2>3. P \in SUBSET Nat
      OBVIOUS
    <2>. HIDE DEF P
    <2>4. P = Nat
      BY Zenon, <2>1, <2>2, <2>3 DEF Induction
    <2>5. left[num] > 0
      BY <2>4 DEF P
    <2>. QED
      BY <2>5, <1>4
  <1>6. n \in 1 .. num /\ left[n - 1] > 0 /\ left[n] = 0
    BY <1>5
  <1>. HIDE DEF n
  <1>7. left \in [0 .. num -> Nat]
    BY <1>3, <1>4
  <1>8. Loop(left, n, num, base)
    BY Zenon, <1>3, <1>6, <1>7 DEF Loop
  <1>. QED
    BY Zenon, <1>1, <1>8

\* What the code of a digit stands for.
DigitValue(c) == IF c < 58 THEN c - 48 ELSE c - 87

\* ValueOf is the end of any sequence of values that goes on digit by digit.
LEMMA ValueIs ==
    ASSUME Induction, NEW digits, Len(digits) \in Nat, NEW base, NEW known,
           known[0] = 0,
           \A k \in 1 .. Len(digits) : known[k] = known[k - 1] * base + DigitValue(digits[k])
    PROVE  ValueOf(digits, base) = known[Len(digits)]
  <1>. DEFINE n == Len(digits)
              Rule(g) == g = [k \in 0 .. n |-> IF k = 0 THEN 0
                                ELSE g[k - 1] * base + DigitValue(digits[k])]
              v == CHOOSE g : Rule(g)
              witness == [k \in 0 .. n |-> known[k]]
              T == {k \in Nat : k <= n => v[k] = known[k]}
  <1>1. ValueOf(digits, base) = v[n]
    BY DEF ValueOf, DigitValue
  <1>. HIDE DEF n
  <1>2. n \in Nat
    BY DEF n
  <1>3. Rule(witness)
    <2>1. ASSUME NEW k \in 0 .. n
          PROVE  witness[k] = IF k = 0 THEN 0
                              ELSE witness[k - 1] * base + DigitValue(digits[k])
      <3>1. CASE k = 0
        BY <3>1
      <3>2. CASE k # 0
        <4>1. k \in 1 .. n /\ k - 1 \in 0 .. n
          BY <3>2, <1>2
        <4>2. witness[k - 1] = known[k - 1] /\ witness[k] = known[k]
          BY Zenon, <4>1
        <4>3. known[k] = known[k - 1] * base + DigitValue(digits[k])
          BY Zenon, <4>1 DEF n
        <4>. QED
          BY Zenon, <3>2, <4>2, <4>3
      <3>. QED
        BY <3>1, <3>2
    <2>2. witness = [k \in 0 .. n |-> witness[k]]
      OBVIOUS
    <2>. HIDE DEF witness
    <2>. QED
      BY <2>1, <2>2
  <1>4. Rule(v)
    BY Zenon, <1>3
  <1>. HIDE DEF v
  <1>5. \A k \in 0 .. n : v[k] = IF k = 0 THEN 0
                                 ELSE v[k - 1] * base + DigitValue(digits[k])
    BY <1>4
  <1>. HIDE DEF Rule
  <1>6. 0 \in T
    BY <1>5, <1>2
  <1>7. ASSUME NEW k \in T PROVE k + 1 \in T
    <2>. SUFFICES ASSUME k + 1 <= n PROVE v[k + 1] = known[k + 1]
      BY <1>7
    <2>1. k \in Nat /\ v[k] = known[k]
      BY <1>7, <1>2
    <2>2. k + 1 \in 0 .. n /\ k + 1 # 0 /\ (k + 1) - 1 = k /\ k + 1 \in 1 .. n
      BY <2>1, <1>2
    <2>3. v[k + 1] = v[k] * base + DigitValue(digits[k + 1])
      BY Zenon, <1>5, <2>2
    <2>4. known[k + 1] = known[k] * base + DigitValue(digits[k + 1])
      BY Zenon, <2>2 DEF n
    <2>. QED
      BY Zenon, <2>1, <2>3, <2>4
  <1>8. T \in SUBSET Nat
    OBVIOUS
  <1>. HIDE DEF T
  <1>9. T = Nat
    BY Zenon, <1>6, <1>7, <1>8 DEF Induction
  <1>. QED
    BY <1>9, <1>1, <1>2 DEF T, n

\* A digit in a base of up to 16 is a character that stands for its number, and the
\* first is not 0.
LEMMA Digits ==
    ASSUME NEW mod \in 0 .. 15
    PROVE  /\ Digit(mod) \in Char /\ DigitValue(Digit(mod)) = mod
           /\ mod # 0 => Digit(mod) # 48
  BY DEF Digit, DigitValue, Char

\* uint64_to_string gives, for every number and every base from 2 to 16, at least one
\* digit, which are characters that read back as the number, without zeros in front.
LEMMA NumberDigits ==
    ASSUME Induction, NEW num \in Nat, NEW base \in 2 .. 16
    PROVE  /\ uint64_to_string(num, base) \in Seq(Char)
           /\ Len(uint64_to_string(num, base)) > 0
           /\ Denotes(uint64_to_string(num, base), base, num)
  <1>1. CASE num = 0
    <2>1. uint64_to_string(num, base) = <<48>>
      BY <1>1 DEF uint64_to_string
    <2>. DEFINE known == [k \in 0 .. 1 |-> 0]
    <2>2. /\ known[0] = 0 /\ Len(<<48>>) = 1
          /\ \A k \in 1 .. Len(<<48>>) :
               known[k] = known[k - 1] * base + DigitValue((<<48>>)[k])
      BY DEF DigitValue
    <2>3. ValueOf(<<48>>, base) = known[Len(<<48>>)]
      <3>1. Len(<<48>>) \in Nat
        OBVIOUS
      <3>. HIDE DEF known
      <3>. QED
        BY ZenonT(40), <2>2, <3>1, ValueIs
    <2>4. ValueOf(<<48>>, base) = 0
      BY <2>2, <2>3
    <2>5. <<48>> \in Seq(Char)
      BY DEF Char
    <2>6. Len(<<48>>) = 1 /\ 1 > 0 /\ ~ (1 > 1)
      OBVIOUS
    <2>. HIDE DEF known
    <2>. QED
      BY Zenon, <1>1, <2>1, <2>4, <2>5, <2>6 DEF Denotes
  <1>2. CASE num # 0
    <2>1. base \in Nat /\ base >= 2 /\ num > 0
      BY <1>2
    <2>2. PICK left, n :
             /\ Loop(left, n, num, base)
             /\ uint64_to_string(num, base) = [k \in 1 .. n |-> Digit(left[n - k] % base)]
      BY Zenon, <2>1, LoopEnds
    <2>. DEFINE s == [k \in 1 .. n |-> Digit(left[n - k] % base)]
                known == [k \in 0 .. n |-> left[n - k]]
    <2>3. /\ left \in [0 .. num -> Nat] /\ left[0] = num
          /\ \A i \in 1 .. num : left[i] = left[i - 1] \div base
          /\ n \in 1 .. num /\ left[n - 1] > 0 /\ left[n] = 0
      BY Zenon, <2>2 DEF Loop
    <2>4. ASSUME NEW k \in 1 .. n
          PROVE  /\ left[n - k] \in Nat /\ left[n - k] % base \in 0 .. 15
                 /\ left[n - (k - 1)] * base + (left[n - k] % base) = left[n - k]
      <3>1. left[n - k] \in Nat /\ left[n - (k - 1)] = left[n - k] \div base
        <4>1. n - (k - 1) \in 1 .. num /\ (n - (k - 1)) - 1 = n - k /\ n - k \in 0 .. num
          BY <2>3
        <4>. QED
          BY <4>1, <2>3
      <3>2. /\ left[n - k] % base \in 0 .. base - 1
            /\ left[n - k] = (left[n - k] \div base) * base + (left[n - k] % base)
        BY <3>1, <2>1, Division
      <3>3. left[n - k] % base \in 0 .. 15
        BY <3>2
      <3>. QED
        BY Zenon, <3>1, <3>2, <3>3
    <2>5. \A k \in 1 .. n :
            s[k] = Digit(left[n - k] % base) /\ s[k] \in Char
            /\ DigitValue(s[k]) = left[n - k] % base
      BY <2>4, Digits
    <2>6. s \in Seq(Char) /\ Len(s) = n
      <3>1. n \in Nat
        BY <2>3
      <3>2. s \in [1 .. n -> Char]
        BY <2>5
      <3>. HIDE DEF s
      <3>. QED
        BY <3>1, <3>2
    <2>. HIDE DEF s
    <2>7. /\ known[0] = 0 /\ known[n] = num
          /\ \A k \in 1 .. n : known[k] = known[k - 1] * base + DigitValue(s[k])
      <3>1. n \in Nat /\ n - 0 = n /\ n - n = 0
        BY <2>3
      <3>2. ASSUME NEW k \in 1 .. n
            PROVE  known[k] = known[k - 1] * base + DigitValue(s[k])
        <4>1. k \in 0 .. n /\ k - 1 \in 0 .. n
          BY <3>1
        <4>2. known[k] = left[n - k] /\ known[k - 1] = left[n - (k - 1)]
          BY Zenon, <4>1
        <4>. QED
          BY Zenon, <4>2, <2>4, <2>5
      <3>3. known[0] = left[n] /\ known[n] = left[0]
        BY <3>1
      <3>. QED
        BY Zenon, <3>2, <3>3, <2>3
    <2>8. ValueOf(s, base) = num
      <3>. HIDE DEF known
      <3>1. Len(s) \in Nat
        BY <2>6, <2>3
      <3>2. ValueOf(s, base) = known[Len(s)]
        BY Zenon, <2>6, <2>7, <3>1, ValueIs
      <3>. QED
        BY Zenon, <2>6, <2>7, <3>2
    <2>9. s[1] # 48
      <3>1. 1 \in 1 .. n /\ n - (1 - 1) = n
        BY <2>3
      <3>2. left[n - 1] % base = left[n - 1]
        <4>1. left[n] * base + (left[n - 1] % base) = left[n - 1] /\ left[n - 1] % base \in Nat
          BY <3>1, <2>4
        <4>2. left[n] * base = 0
          BY <2>3
        <4>. QED
          BY <4>1, <4>2
      <3>3. left[n - 1] # 0 /\ left[n - 1] \in 0 .. 15
        <4>1. left[n - 1] % base \in 0 .. 15
          BY Zenon, <3>1, <2>4
        <4>. QED
          BY <4>1, <3>2, <2>3
      <3>4. s[1] = Digit(left[n - 1])
        BY Zenon, <3>1, <3>2, <2>5
      <3>. QED
        BY Zenon, <3>3, <3>4, Digits
    <2>10. uint64_to_string(num, base) = s
      BY <2>2 DEF s
    <2>. QED
      BY <2>3, <2>6, <2>8, <2>9, <2>10 DEF Denotes
  <1>. QED
    BY <1>1, <1>2

-----------------------------------------------------------------------------
(* What a format means.                                                      *)

ScanStart == [out |-> <<>>, used |-> 0, percent |-> FALSE]

\* One character more.
ScanStep(was, c, slots) ==
    LET out == IF was.percent THEN Append(was.out, 63) ELSE was.out
    IN  IF was.percent /\ c \in {113, 115, 120}
        THEN [out |-> was.out \o Printed(slots[was.used + 1], c),
              used |-> was.used + 1, percent |-> FALSE]
        ELSE [out |-> IF c = 37 THEN out ELSE Append(out, c),
              used |-> was.used, percent |-> c = 37]

Scanned(g, fmt, slots, n) ==
    g = [k \in 0 .. n |-> IF k = 0 THEN ScanStart ELSE ScanStep(g[k - 1], fmt[k], slots)]

\* A format can be read to any character.
LEMMA ScannedExists ==
    ASSUME Induction, NEW fmt, NEW slots, NEW n \in Nat
    PROVE  \E g : Scanned(g, fmt, slots, n)
  <1>. DEFINE T == {k \in Nat : \E g : Scanned(g, fmt, slots, k)}
  <1>1. 0 \in T
    <2>1. Scanned([i \in 0 .. 0 |-> ScanStart], fmt, slots, 0)
      BY DEF Scanned
    <2>. QED
      BY <2>1
  <1>2. ASSUME NEW k \in T PROVE k + 1 \in T
    <2>1. PICK g : Scanned(g, fmt, slots, k)
      BY <1>2
    <2>. DEFINE h == [i \in 0 .. k + 1 |->
                        IF i = k + 1 THEN ScanStep(g[k], fmt[k + 1], slots) ELSE g[i]]
    <2>2. k \in Nat
      BY <1>2
    <2>3. ASSUME NEW i \in 0 .. k + 1
          PROVE  h[i] = IF i = 0 THEN ScanStart ELSE ScanStep(h[i - 1], fmt[i], slots)
      <3>1. CASE i = k + 1
        <4>1. i # 0 /\ i - 1 = k /\ h[k] = g[k] /\ h[i] = ScanStep(g[k], fmt[k + 1], slots)
          BY <3>1, <2>2
        <4>. QED
          BY Zenon, <4>1, <3>1
      <3>2. CASE i # k + 1
        <4>1. i \in 0 .. k /\ h[i] = g[i]
          BY <3>2, <2>2
        <4>2. g[i] = IF i = 0 THEN ScanStart ELSE ScanStep(g[i - 1], fmt[i], slots)
          BY <4>1, <2>1 DEF Scanned
        <4>3. i # 0 => h[i - 1] = g[i - 1]
          BY <4>1, <2>2
        <4>. HIDE DEF h
        <4>. QED
          BY Zenon, <4>1, <4>2, <4>3
      <3>. QED
        BY <3>1, <3>2
    <2>4. Scanned(h, fmt, slots, k + 1)
      <3>1. h = [i \in 0 .. k + 1 |-> h[i]]
        OBVIOUS
      <3>. HIDE DEF h
      <3>. QED
        BY <2>3, <3>1 DEF Scanned
    <2>. QED
      BY <2>2, <2>4
  <1>3. T \in SUBSET Nat
    OBVIOUS
  <1>. HIDE DEF T
  <1>4. T = Nat
    BY Zenon, <1>1, <1>2, <1>3 DEF Induction
  <1>. QED
    BY <1>4 DEF T

\* Scan is what its definition says.
LEMMA ScanRule ==
    ASSUME Induction, NEW fmt, Len(fmt) \in Nat, NEW slots
    PROVE  /\ Scan(fmt, slots)[0] = ScanStart
           /\ \A k \in 1 .. Len(fmt) :
                Scan(fmt, slots)[k] = ScanStep(Scan(fmt, slots)[k - 1], fmt[k], slots)
  <1>. DEFINE scan == CHOOSE g : Scanned(g, fmt, slots, Len(fmt))
  <1>1. Scan(fmt, slots) = scan
    BY Zenon DEF Scan, Scanned, ScanStart, ScanStep
  <1>2. Scanned(scan, fmt, slots, Len(fmt))
    <2>1. \E g : Scanned(g, fmt, slots, Len(fmt))
      BY Zenon, ScannedExists
    <2>. QED
      BY Zenon, <2>1
  <1>. HIDE DEF scan
  <1>3. /\ scan[0] = ScanStart
        /\ \A k \in 1 .. Len(fmt) : scan[k] = ScanStep(scan[k - 1], fmt[k], slots)
    BY <1>2 DEF Scanned
  <1>. QED
    BY Zenon, <1>1, <1>3

ScanType(x, k) == x.out \in Seq(Char) /\ x.used \in 0 .. k /\ x.percent \in BOOLEAN

\* The text so far when the type after a '%' is not known.
Sofar(x) == IF x.percent THEN Append(x.out, 63) ELSE x.out

WellFormed(fmt, slots) ==
    fmt \in Seq(Char) /\ slots \in Seq(Arg) /\ Len(slots) = Len(fmt)

\* What a conversion appends is a string.
LEMMA PrintedType ==
    ASSUME Induction, NEW arg \in Arg, NEW c PROVE Printed(arg, c) \in Seq(Char)
  <1>1. arg.num \in Nat /\ arg.str \in Seq(Char)
    BY DEF Arg
  <1>2. 10 \in 2 .. 16 /\ 16 \in 2 .. 16
    OBVIOUS
  <1>3. uint64_to_string(arg.num, 10) \in Seq(Char) /\ uint64_to_string(arg.num, 16) \in Seq(Char)
    BY Zenon, <1>1, <1>2, NumberDigits
  <1>. QED
    BY Zenon, <1>1, <1>3 DEF Printed

Converts(was, c) == was.percent /\ c \in {113, 115, 120}

ReadConversion(new, was, c, slots) ==
    /\ new.out = was.out \o Printed(slots[was.used + 1], c)
    /\ new.used = was.used + 1 /\ new.percent = FALSE

ReadCharacter(new, was, c) ==
    /\ new.out = IF c = 37 THEN Sofar(was) ELSE Append(Sofar(was), c)
    /\ new.used = was.used /\ new.percent = (c = 37)

\* The two ways in which a character is read.
LEMMA StepCases ==
    ASSUME NEW was, NEW c, NEW slots
    PROVE  IF Converts(was, c) THEN ReadConversion(ScanStep(was, c, slots), was, c, slots)
           ELSE ReadCharacter(ScanStep(was, c, slots), was, c)
  <1>1. CASE Converts(was, c)
    BY <1>1 DEF ScanStep, Converts, ReadConversion
  <1>2. CASE ~ Converts(was, c)
    BY <1>2 DEF ScanStep, Sofar, Converts, ReadCharacter
  <1>. QED
    BY Zenon, <1>1, <1>2

\* A character keeps the types, and text is only added.
LEMMA StepTypes ==
    ASSUME Induction, NEW fmt, NEW slots, WellFormed(fmt, slots),
           NEW k \in 1 .. Len(fmt), NEW was, ScanType(was, k - 1)
    PROVE  /\ ScanType(ScanStep(was, fmt[k], slots), k)
           /\ Len(was.out) <= Len(ScanStep(was, fmt[k], slots).out)
           /\ ~ Converts(was, fmt[k]) =>
                Len(Sofar(was)) <= Len(ScanStep(was, fmt[k], slots).out)
  <1>. DEFINE c == fmt[k]
              new == ScanStep(was, c, slots)
  <1>1. /\ was.out \in Seq(Char) /\ was.used \in 0 .. k - 1 /\ was.percent \in BOOLEAN
        /\ k \in Nat /\ c \in Char
    BY DEF ScanType, WellFormed
  <1>2. Sofar(was) \in Seq(Char) /\ Len(Sofar(was)) >= Len(was.out)
    <2>1. Append(was.out, 63) \in Seq(Char) /\ Len(Append(was.out, 63)) = Len(was.out) + 1
      BY <1>1 DEF Char
    <2>. QED
      BY <1>1, <2>1 DEF Sofar
  <1>. HIDE DEF new, c
  <1>3. CASE Converts(was, c)
    <2>1. ReadConversion(new, was, c, slots)
      BY Zenon, <1>3, StepCases DEF new
    <2>2. slots[was.used + 1] \in Arg
      BY <1>1 DEF WellFormed
    <2>3. Printed(slots[was.used + 1], c) \in Seq(Char)
      BY Zenon, <2>2, PrintedType
    <2>. DEFINE p == Printed(slots[was.used + 1], c)
    <2>4. new.out \in Seq(Char) /\ Len(was.out) <= Len(new.out)
      <3>1. new.out = was.out \o p /\ p \in Seq(Char)
        BY Zenon, <2>1, <2>3 DEF ReadConversion
      <3>. HIDE DEF p
      <3>. QED
        BY <1>1, <3>1
    <2>5. new.used \in 0 .. k /\ new.percent = FALSE
      BY <1>1, <2>1 DEF ReadConversion
    <2>. QED
      BY Zenon, <1>3, <2>4, <2>5 DEF ScanType, new, c
  <1>4. CASE ~ Converts(was, c)
    <2>1. ReadCharacter(new, was, c)
      BY Zenon, <1>4, StepCases DEF new
    <2>2. new.out \in Seq(Char) /\ Len(Sofar(was)) <= Len(new.out)
      BY <1>1, <1>2, <2>1 DEF ReadCharacter
    <2>3. new.used \in 0 .. k /\ Len(was.out) <= Len(new.out)
      BY <1>1, <1>2, <2>1, <2>2 DEF ReadCharacter
    <2>4. new.percent \in BOOLEAN
      BY Zenon, <2>1 DEF ReadCharacter
    <2>. QED
      BY Zenon, <2>2, <2>3, <2>4 DEF ScanType, new, c
  <1>. QED
    BY Zenon, <1>3, <1>4

\* A scan's text has a length.
LEMMA OutLength == ASSUME NEW x, NEW k, ScanType(x, k) PROVE Len(x.out) \in Nat
  BY DEF ScanType

\* Reading keeps the types, and a text read is a part of the whole.
LEMMA ScanTypes ==
    ASSUME Induction, NEW fmt, NEW slots, WellFormed(fmt, slots), NEW k \in 0 .. Len(fmt)
    PROVE  /\ ScanType(Scan(fmt, slots)[k], k)
           /\ Len(Scan(fmt, slots)[k].out) <= Len(Scan(fmt, slots)[Len(fmt)].out)
  <1>. DEFINE scan == Scan(fmt, slots)
              n == Len(fmt)
              T == {i \in Nat : i <= n => ScanType(scan[i], i)}
              P == {i \in Nat : i <= n => Len(scan[n - i].out) <= Len(scan[n].out)}
  <1>1. n \in Nat /\ fmt \in Seq(Char)
    BY DEF WellFormed
  <1>2. /\ scan[0] = ScanStart
        /\ \A i \in 1 .. n : scan[i] = ScanStep(scan[i - 1], fmt[i], slots)
    BY Zenon, <1>1, ScanRule
  <1>. HIDE DEF scan
  <1>3. T = Nat
    <2>1. 0 \in T
      <3>1. ScanType(ScanStart, 0)
        <4>1. <<>> \in Seq(Char) /\ 0 \in 0 .. 0
          OBVIOUS
        <4>. QED
          BY <4>1 DEF ScanType, ScanStart
      <3>. QED
        BY <3>1, <1>2
    <2>2. ASSUME NEW i \in T PROVE i + 1 \in T
      <3>. SUFFICES ASSUME i + 1 <= n PROVE ScanType(scan[i + 1], i + 1)
        BY <2>2
      <3>1. i \in Nat /\ i + 1 \in 1 .. n /\ (i + 1) - 1 = i /\ ScanType(scan[i], i)
        BY <2>2, <1>1
      <3>2. ScanType(ScanStep(scan[i], fmt[i + 1], slots), i + 1)
        BY Zenon, <3>1, StepTypes
      <3>3. scan[i + 1] = ScanStep(scan[i], fmt[i + 1], slots)
        BY Zenon, <3>1, <1>2
      <3>. QED
        BY Zenon, <3>2, <3>3
    <2>3. T \in SUBSET Nat
      OBVIOUS
    <2>. HIDE DEF T
    <2>. QED
      BY Zenon, <2>1, <2>2, <2>3 DEF Induction
  <1>4. \A i \in 0 .. n : ScanType(scan[i], i)
    BY <1>1, <1>3
  <1>5. P = Nat
    <2>1. 0 \in P
      <3>1. Len(scan[n].out) \in Nat /\ n - 0 = n
        BY <1>1, <1>4 DEF ScanType
      <3>. QED
        BY <3>1
    <2>2. ASSUME NEW i \in P PROVE i + 1 \in P
      <3>. SUFFICES ASSUME i + 1 <= n
                    PROVE  Len(scan[n - (i + 1)].out) <= Len(scan[n].out)
        BY <2>2
      <3>. DEFINE j == n - i
      <3>1. /\ i \in Nat /\ j \in 1 .. n /\ n - (i + 1) = j - 1 /\ j - 1 \in 0 .. n
            /\ n \in 0 .. n /\ j \in 0 .. n
            /\ Len(scan[j].out) <= Len(scan[n].out)
        BY <2>2, <1>1
      <3>. HIDE DEF j
      <3>2. Len(scan[j - 1].out) <= Len(scan[j].out)
        <4>1. ScanType(scan[j - 1], j - 1)
          BY Zenon, <3>1, <1>4
        <4>2. Len(scan[j - 1].out) <= Len(ScanStep(scan[j - 1], fmt[j], slots).out)
          BY Zenon, <3>1, <4>1, StepTypes
        <4>. QED
          BY Zenon, <4>2, <3>1, <1>2
      <3>3. /\ Len(scan[j - 1].out) \in Nat /\ Len(scan[j].out) \in Nat
            /\ Len(scan[n].out) \in Nat
        <4>1. ScanType(scan[j - 1], j - 1) /\ ScanType(scan[j], j) /\ ScanType(scan[n], n)
          BY Zenon, <3>1, <1>4
        <4>. QED
          BY Zenon, <4>1, OutLength
      <3>4. Len(scan[j - 1].out) <= Len(scan[n].out)
        <4>1. \A x, y, z \in Nat : x <= y /\ y <= z => x <= z
          OBVIOUS
        <4>. QED
          BY Zenon, <4>1, <3>1, <3>2, <3>3
      <3>5. n - (i + 1) = j - 1
        BY Zenon, <3>1
      <3>. QED
        BY <3>4, <3>5
    <2>3. P \in SUBSET Nat
      OBVIOUS
    <2>. HIDE DEF P
    <2>. QED
      BY Zenon, <2>1, <2>2, <2>3 DEF Induction
  <1>6. n - k \in P /\ n - (n - k) = k /\ n - k <= n
    <2>1. n - k \in Nat /\ n - (n - k) = k /\ n - k <= n
      BY <1>1
    <2>. HIDE DEF P
    <2>. QED
      BY Zenon, <2>1, <1>5
  <1>7. Len(scan[k].out) <= Len(scan[n].out)
    BY <1>6
  <1>. QED
    BY <1>4, <1>7 DEF scan

-----------------------------------------------------------------------------
(* Strings in memory.                                                        *)

\* A buffer of some size that was cleared and then given s, over what was there.
Holding(s, size, under) ==
    [i \in Address |-> IF i < Len(s) THEN s[i + 1] ELSE IF i < size THEN 0 ELSE under[i]]

\* The string at the start of a buffer is s.
Reads(m, s) ==
    /\ Len(s) < MEMORY /\ m[Len(s)] = 0
    /\ \A i \in 0 .. Len(s) - 1 : m[i] = s[i + 1]

\* strlen finds the first NULL.
LEMMA StrlenIs ==
    ASSUME NEW m, NEW at \in Nat, NEW n \in Nat, at + n < MEMORY, MEMORY \in Nat,
           m[at + n] = 0, \A k \in 0 .. n - 1 : m[at + k] # 0
    PROVE  strlen(m, at) = n
  <1>. DEFINE P(i) == /\ at + i >= MEMORY \/ m[at + i] = 0
                      /\ \A k \in 0 .. i - 1 : at + k < MEMORY /\ m[at + k] # 0
  <1>1. n \in 0 .. MEMORY /\ P(n)
    OBVIOUS
  <1>2. ASSUME NEW i \in 0 .. MEMORY, P(i) PROVE i = n
    <2>1. CASE i < n
      BY <1>2, <2>1
    <2>2. CASE n < i
      BY <1>2, <2>2
    <2>. QED
      BY <2>1, <2>2
  <1>3. strlen(m, at) = CHOOSE i \in 0 .. MEMORY : P(i)
    BY DEF strlen
  <1>. HIDE DEF P
  <1>. QED
    BY Zenon, <1>1, <1>2, <1>3

\* memset clears size bytes, words and the rest together, and no more.
LEMMA Cleared ==
    ASSUME MEMORY \in Nat, NEW size \in Nat, NEW under
    PROVE  memset(under, 0, size) = Holding(<<>>, size, under)
  <1>1. ASSUME NEW i \in Address
        PROVE  (i \div 8 < size \div 8 \/ i - (size \div 8) * 8 \in 0 .. size - (size \div 8) * 8 - 1)
                 <=> i < size
    BY <1>1 DEF Address
  <1>2. \A i \in Address : ~ (i < Len(<<>>))
    BY DEF Address
  <1>. QED
    BY <1>1, <1>2 DEF memset, Holding

\* sprintf_internal stores a character at the end of what it has.
LEMMA PutCharacter ==
    ASSUME MEMORY \in Nat, NEW s \in Seq(Char), NEW c, NEW size \in Nat, NEW under
    PROVE  Store(Holding(s, size, under), Len(s), <<c>>) = Holding(Append(s, c), size, under)
  <1>. DEFINE h == Holding(s, size, under)
              t == Append(s, c)
  <1>1. /\ Len(s) \in Nat /\ Len(t) = Len(s) + 1 /\ t[Len(s) + 1] = c
        /\ \A i \in 1 .. Len(s) : t[i] = s[i]
    OBVIOUS
  <1>2. Len(<<c>>) = 1 /\ (<<c>>)[1] = c
    OBVIOUS
  <1>. HIDE DEF t
  <1>3. ASSUME NEW i \in Address
        PROVE  (IF i \in Len(s) .. Len(s) + Len(<<c>>) - 1 THEN (<<c>>)[i - Len(s) + 1] ELSE h[i])
                 = (IF i < Len(t) THEN t[i + 1] ELSE IF i < size THEN 0 ELSE under[i])
    <2>1. CASE i < Len(s)
      BY <2>1, <1>1, <1>2 DEF Holding, Address
    <2>2. CASE i = Len(s)
      BY <2>2, <1>1, <1>2 DEF Address
    <2>3. CASE i > Len(s)
      BY <2>3, <1>1, <1>2 DEF Holding, Address
    <2>. QED
      BY <1>1, <2>1, <2>2, <2>3 DEF Address
  <1>. HIDE DEF h
  <1>4. Holding(t, size, under) = [i \in Address |-> IF i < Len(t) THEN t[i + 1]
                                     ELSE IF i < size THEN 0 ELSE under[i]]
    BY Zenon DEF Holding
  <1>5. Store(h, Len(s), <<c>>) = [i \in Address |->
           IF i \in Len(s) .. Len(s) + Len(<<c>>) - 1 THEN (<<c>>)[i - Len(s) + 1] ELSE h[i]]
    BY Zenon DEF Store
  <1>. QED
    BY <1>3, <1>4, <1>5 DEF h, t

\* The NULL at the end is already there.
LEMMA PutNull ==
    ASSUME MEMORY \in Nat, NEW s \in Seq(Char), NEW size \in Nat, Len(s) < size, NEW under
    PROVE  Store(Holding(s, size, under), Len(s), <<0>>) = Holding(s, size, under)
  <1>. DEFINE h == Holding(s, size, under)
  <1>1. Len(s) \in Nat /\ Len(<<0>>) = 1 /\ (<<0>>)[1] = 0
    OBVIOUS
  <1>2. ASSUME NEW i \in Address
        PROVE  (IF i \in Len(s) .. Len(s) + Len(<<0>>) - 1 THEN (<<0>>)[i - Len(s) + 1] ELSE h[i])
                 = h[i]
    <2>1. CASE i = Len(s)
      BY <2>1, <1>1 DEF Holding, Address
    <2>2. CASE i # Len(s)
      BY <2>2, <1>1 DEF Address
    <2>. QED
      BY <2>1, <2>2
  <1>3. h = [i \in Address |-> h[i]]
    BY DEF Holding
  <1>. HIDE DEF h
  <1>. QED
    BY <1>2, <1>3 DEF h, Store


\* new is m with p and a NULL at a place.
WithCopy(new, m, at, p) ==
    \A i \in Address :
        new[i] = IF i < at \/ i > at + Len(p) THEN m[i]
                 ELSE IF i = at + Len(p) THEN 0 ELSE p[i - at + 1]

\* strcpy stores the characters and a NULL.
LEMMA Copied ==
    ASSUME MEMORY \in Nat, NEW m, NEW at \in Nat, NEW p \in Seq(Char)
    PROVE  WithCopy(strcpy(m, at, p), m, at, p)
  <1>. SUFFICES ASSUME NEW i \in Address
                PROVE  strcpy(m, at, p)[i] =
                         IF i < at \/ i > at + Len(p) THEN m[i]
                         ELSE IF i = at + Len(p) THEN 0 ELSE p[i - at + 1]
    BY Zenon DEF WithCopy
  <1>. DEFINE q == Append(p, 0)
  <1>1. /\ Len(p) \in Nat /\ Len(q) = Len(p) + 1 /\ q[Len(p) + 1] = 0
        /\ \A k \in 1 .. Len(p) : q[k] = p[k]
    OBVIOUS
  <1>. HIDE DEF q
  <1>2. strcpy(m, at, p)[i] = IF i \in at .. at + Len(q) - 1 THEN q[i - at + 1] ELSE m[i]
    BY DEF strcpy, Store, q
  <1>3. i \in Nat
    BY DEF Address
  <1>4. CASE i < at \/ i > at + Len(p)
    BY <1>1, <1>2, <1>3, <1>4
  <1>5. CASE i = at + Len(p)
    BY <1>1, <1>2, <1>3, <1>5
  <1>6. CASE i >= at /\ i < at + Len(p)
    BY <1>1, <1>2, <1>3, <1>6
  <1>. QED
    BY <1>1, <1>3, <1>4, <1>5, <1>6

\* What s followed by p has at every place.
LEMMA Joined ==
    ASSUME NEW s \in Seq(Char), NEW p \in Seq(Char)
    PROVE  /\ s \o p \in Seq(Char) /\ Len(s \o p) = Len(s) + Len(p)
           /\ Len(s) \in Nat /\ Len(p) \in Nat
           /\ \A k \in 1 .. Len(s) : (s \o p)[k] = s[k]
           /\ \A k \in 1 .. Len(p) : (s \o p)[Len(s) + k] = p[k]
  OBVIOUS

\* A conversion of sprintf_internal: in a buffer that was cleared, strcat finds the
\* end at str, and its NULL changes nothing.
LEMMA PutString ==
    ASSUME MEMORY \in Nat, NEW s \in Seq(Char), NEW p \in Seq(Char), NEW size \in Nat,
           size <= MEMORY, Len(s) + Len(p) < size, NEW under
    PROVE  strcat(Holding(s, size, under), Len(s), p) = Holding(s \o p, size, under)
  <1>. DEFINE h == Holding(s, size, under)
              t == s \o p
  <1>1. /\ Len(t) = Len(s) + Len(p) /\ Len(s) \in Nat /\ Len(p) \in Nat
        /\ \A k \in 1 .. Len(s) : t[k] = s[k]
        /\ \A k \in 1 .. Len(p) : t[Len(s) + k] = p[k]
    BY Zenon, Joined
  <1>. HIDE DEF t
  <1>2. strlen(h, Len(s)) = 0
    <2>1. /\ Len(s) + 0 < MEMORY /\ h[Len(s) + 0] = 0 /\ 0 \in Nat
          /\ \A k \in 0 .. 0 - 1 : h[Len(s) + k] # 0
      BY <1>1 DEF Holding, Address
    <2>. HIDE DEF h
    <2>. QED
      BY Zenon, <1>1, <2>1, StrlenIs
  <1>3. strcat(h, Len(s), p) = strcpy(h, Len(s), p)
    BY <1>1, <1>2 DEF strcat
  <1>4. ASSUME NEW i \in Address
        PROVE  strcpy(h, Len(s), p)[i] =
                 IF i < Len(t) THEN t[i + 1] ELSE IF i < size THEN 0 ELSE under[i]
    <2>1. i \in Nat
      BY DEF Address
    <2>2. strcpy(h, Len(s), p)[i] =
             IF i < Len(s) \/ i > Len(s) + Len(p) THEN h[i]
             ELSE IF i = Len(s) + Len(p) THEN 0 ELSE p[i - Len(s) + 1]
      <3>1. WithCopy(strcpy(h, Len(s), p), h, Len(s), p)
        BY Zenon, <1>1, Copied
      <3>. QED
        BY Zenon, <3>1 DEF WithCopy
    <2>3. h[i] = IF i < Len(s) THEN s[i + 1] ELSE IF i < size THEN 0 ELSE under[i]
      BY DEF Holding
    <2>. HIDE DEF h
    <2>4. CASE i < Len(s)
      BY <2>1, <2>2, <2>3, <2>4, <1>1
    <2>5. CASE i >= Len(s) /\ i < Len(s) + Len(p)
      <3>1. i - Len(s) + 1 \in 1 .. Len(p) /\ Len(s) + (i - Len(s) + 1) = i + 1
        BY <2>1, <2>5, <1>1
      <3>2. t[i + 1] = p[i - Len(s) + 1]
        BY <3>1, <1>1
      <3>. QED
        BY <2>1, <2>2, <3>2, <2>5, <1>1
    <2>6. CASE i >= Len(s) + Len(p)
      <3>1. CASE i = Len(s) + Len(p)
        <4>1. ~ (i < Len(s)) /\ ~ (i > Len(s) + Len(p)) /\ ~ (i < Len(t)) /\ i < size
          BY <2>1, <3>1, <1>1
        <4>. QED
          BY Zenon, <4>1, <3>1, <2>2
      <3>2. CASE i # Len(s) + Len(p)
        <4>1. i > Len(s) + Len(p) /\ ~ (i < Len(t)) /\ ~ (i < Len(s))
          <5>1. Len(t) = Len(s) + Len(p) /\ Len(s) \in Nat /\ Len(p) \in Nat
            BY <1>1
          <5>. QED
            BY <2>1, <2>6, <3>2, <5>1
        <4>. QED
          BY Zenon, <4>1, <2>2, <2>3
      <3>. QED
        BY Zenon, <3>1, <3>2
    <2>. QED
      BY <2>1, <2>4, <2>5, <2>6, <1>1
  <1>5. strcpy(h, Len(s), p) = [i \in Address |-> strcpy(h, Len(s), p)[i]]
    BY DEF strcpy, Store
  <1>6. Holding(t, size, under) = [i \in Address |-> IF i < Len(t) THEN t[i + 1]
                                     ELSE IF i < size THEN 0 ELSE under[i]]
    BY Zenon DEF Holding
  <1>. HIDE DEF h
  <1>. QED
    BY <1>3, <1>4, <1>5, <1>6 DEF h, t

\* No character is a NULL.
LEMMA NoNull == 0 \notin Char
  BY DEF Char

\* A string in memory is what strlen and a reader of it find.
LEMMA StringRead ==
    ASSUME MEMORY \in Nat, NEW s \in Seq(Char), NEW m, Reads(m, s)
    PROVE  strlen(m, 0) = Len(s) /\ String(m, 0) = s
  <1>1. /\ Len(s) \in Nat /\ Len(s) < MEMORY /\ m[Len(s)] = 0
        /\ \A i \in 0 .. Len(s) - 1 : m[i] = s[i + 1]
    BY DEF Reads
  <1>2. /\ 0 + Len(s) < MEMORY /\ m[0 + Len(s)] = 0 /\ 0 \in Nat
        /\ \A k \in 0 .. Len(s) - 1 : m[0 + k] # 0
    <2>1. ASSUME NEW k \in 0 .. Len(s) - 1 PROVE m[0 + k] # 0
      <3>1. k + 1 \in 1 .. Len(s) /\ 0 + k = k
        BY <1>1
      <3>2. s[k + 1] \in Char
        BY <3>1
      <3>. QED
        BY Zenon, <1>1, <3>1, <3>2, NoNull
    <2>. QED
      BY <1>1, <2>1
  <1>3. strlen(m, 0) = Len(s)
    BY ZenonT(40), <1>1, <1>2, StrlenIs
  <1>4. String(m, 0) = [k \in 1 .. Len(s) |-> m[0 + k - 1]]
    BY <1>3 DEF String
  <1>5. \A k \in 1 .. Len(s) : m[0 + k - 1] = s[k]
    BY <1>1
  <1>6. s = [k \in 1 .. Len(s) |-> s[k]]
    OBVIOUS
  <1>. QED
    BY <1>3, <1>4, <1>5, <1>6

\* What a buffer holds is the string in it.
LEMMA HoldingReads ==
    ASSUME MEMORY \in Nat, NEW s \in Seq(Char), NEW size \in Nat, size <= MEMORY,
           Len(s) < size, NEW under
    PROVE  Reads(Holding(s, size, under), s)
  BY DEF Reads, Holding, Address

\* strcpy makes its argument the string in a buffer.
LEMMA CopyReads ==
    ASSUME MEMORY \in Nat, NEW m, NEW p \in Seq(Char), Len(p) < MEMORY
    PROVE  /\ Reads(strcpy(m, 0, p), p)
           /\ \A i \in Address : i > Len(p) => strcpy(m, 0, p)[i] = m[i]
  <1>1. Len(p) \in Nat
    OBVIOUS
  <1>2. ASSUME NEW i \in Address
        PROVE  strcpy(m, 0, p)[i] = IF i > Len(p) THEN m[i]
                                    ELSE IF i = Len(p) THEN 0 ELSE p[i + 1]
    <2>1. strcpy(m, 0, p)[i] =
             IF i < 0 \/ i > 0 + Len(p) THEN m[i]
             ELSE IF i = 0 + Len(p) THEN 0 ELSE p[i - 0 + 1]
      <3>1. 0 \in Nat
        OBVIOUS
      <3>2. WithCopy(strcpy(m, 0, p), m, 0, p)
        BY Zenon, <3>1, Copied
      <3>. QED
        BY Zenon, <3>2 DEF WithCopy
    <2>2. ~ (i < 0) /\ 0 + Len(p) = Len(p) /\ i - 0 = i
      BY <1>1 DEF Address
    <2>. QED
      BY <2>1, <2>2
  <1>3. Len(p) \in Address /\ \A i \in 0 .. Len(p) - 1 : i \in Address /\ ~ (i > Len(p)) /\ i # Len(p)
    BY <1>1 DEF Address
  <1>. QED
    BY <1>1, <1>2, <1>3 DEF Reads

\* strcat adds its argument to the string in a buffer.
LEMMA CatReads ==
    ASSUME MEMORY \in Nat, NEW s \in Seq(Char), NEW p \in Seq(Char), NEW m, Reads(m, s),
           Len(s) + Len(p) < MEMORY
    PROVE  /\ Reads(strcat(m, 0, p), s \o p)
           /\ \A i \in Address : i > Len(s) + Len(p) => strcat(m, 0, p)[i] = m[i]
  <1>. DEFINE t == s \o p
              new == strcat(m, 0, p)
  <1>1. /\ Len(t) = Len(s) + Len(p) /\ Len(s) \in Nat /\ Len(p) \in Nat
        /\ \A k \in 1 .. Len(s) : t[k] = s[k]
        /\ \A k \in 1 .. Len(p) : t[Len(s) + k] = p[k]
    BY Zenon, Joined
  <1>. HIDE DEF t
  <1>2. new = strcpy(m, Len(s), p)
    BY <1>1, StringRead DEF strcat
  <1>. HIDE DEF new
  <1>3. ASSUME NEW i \in Address
        PROVE  new[i] = IF i < Len(s) \/ i > Len(s) + Len(p) THEN m[i]
                        ELSE IF i = Len(s) + Len(p) THEN 0 ELSE p[i - Len(s) + 1]
    <2>1. WithCopy(new, m, Len(s), p)
      BY Zenon, <1>1, <1>2, Copied
    <2>. QED
      BY Zenon, <2>1 DEF WithCopy
  <1>4. ASSUME NEW i \in 0 .. Len(t) - 1 PROVE new[i] = t[i + 1]
    <2>1. i \in Address /\ i \in Nat
      BY <1>1 DEF Address
    <2>2. CASE i < Len(s)
      <3>1. new[i] = m[i] /\ m[i] = s[i + 1]
        BY <2>1, <2>2, <1>1, <1>3 DEF Reads
      <3>. QED
        BY <3>1, <2>1, <2>2, <1>1
    <2>3. CASE i >= Len(s)
      <3>1. i - Len(s) + 1 \in 1 .. Len(p) /\ Len(s) + (i - Len(s) + 1) = i + 1
        BY <2>1, <2>3, <1>1
      <3>2. t[i + 1] = p[i - Len(s) + 1]
        BY <3>1, <1>1
      <3>. QED
        BY <3>2, <2>1, <2>3, <1>1, <1>3
    <2>. QED
      BY <2>1, <2>2, <2>3, <1>1
  <1>5. Len(t) < MEMORY /\ Len(t) \in Address /\ new[Len(t)] = 0
    <2>1. Len(t) < MEMORY /\ Len(t) \in Address
      BY <1>1 DEF Address
    <2>. QED
      BY <2>1, <1>1, <1>3
  <1>6. Reads(new, t)
    BY <1>4, <1>5 DEF Reads
  <1>7. \A i \in Address : i > Len(s) + Len(p) => new[i] = m[i]
    BY <1>3
  <1>. QED
    BY Zenon, <1>6, <1>7 DEF new, t


-----------------------------------------------------------------------------
(* The loop of sprintf_internal.                                             *)

\* The whole text of a format.
Whole(fmt, slots) == Scan(fmt, slots)[Len(fmt)].out

\* After rd characters, us slots and st characters written: the buffer bf holds the
\* text so far, if all of it fits.  A '%' that was passed over had an unknown type.
LoopAt(rd, us, st, bf, fmt, slots, size, under, fits) ==
    LET x == Scan(fmt, slots)[rd]
    IN  /\ rd \in 0 .. Len(fmt) /\ us = x.used /\ st = Len(Sofar(x))
        /\ x.percent => rd < Len(fmt) /\ fmt[rd + 1] \notin {113, 115, 120}
        /\ fits => bf = Holding(Sofar(x), size, under)

\* sprintf_internal has a format with its slots, and a buffer in which it fits.
Room(fmt, slots, size, fits) ==
    /\ WellFormed(fmt, slots) /\ MEMORY \in Nat /\ size \in Nat /\ size <= MEMORY
    /\ fits => Len(Whole(fmt, slots)) < size

\* x is the scan at a place and y after the next character.
NextScan(x, y, fmt, slots, rd) ==
    /\ x = Scan(fmt, slots)[rd] /\ y = Scan(fmt, slots)[rd + 1]
    /\ rd + 1 \in 0 .. Len(fmt) /\ rd \in Nat /\ fmt[rd + 1] \in Char
    /\ ScanType(x, rd) /\ ScanType(y, rd + 1)
    /\ IF Converts(x, fmt[rd + 1]) THEN ReadConversion(y, x, fmt[rd + 1], slots)
       ELSE ReadCharacter(y, x, fmt[rd + 1])

\* The state of the scan at a place and after the next character.
LEMMA ScanNext ==
    ASSUME Induction, NEW fmt, NEW slots, WellFormed(fmt, slots),
           NEW rd, rd \in 0 .. Len(fmt), rd < Len(fmt)
    PROVE  \E x, y : NextScan(x, y, fmt, slots, rd)
  <1>1. Len(fmt) \in Nat /\ fmt \in Seq(Char)
    BY DEF WellFormed
  <1>2. rd + 1 \in 0 .. Len(fmt) /\ rd + 1 \in 1 .. Len(fmt) /\ rd \in Nat /\ (rd + 1) - 1 = rd
    BY <1>1
  <1>3. fmt[rd + 1] \in Char
    BY <1>1, <1>2
  <1>4. ScanType(Scan(fmt, slots)[rd], rd) /\ ScanType(Scan(fmt, slots)[rd + 1], rd + 1)
    BY Zenon, <1>2, ScanTypes
  <1>5. \A k \in 1 .. Len(fmt) :
          Scan(fmt, slots)[k] = ScanStep(Scan(fmt, slots)[k - 1], fmt[k], slots)
    BY Zenon, <1>1, ScanRule
  <1>6. Scan(fmt, slots)[rd + 1] = ScanStep(Scan(fmt, slots)[rd], fmt[rd + 1], slots)
    BY Zenon, <1>2, <1>5
  <1>. DEFINE x == Scan(fmt, slots)[rd]
              y == Scan(fmt, slots)[rd + 1]
  <1>7. y = ScanStep(x, fmt[rd + 1], slots) /\ ScanType(x, rd) /\ ScanType(y, rd + 1)
    BY Zenon, <1>4, <1>6
  <1>8. x = Scan(fmt, slots)[rd] /\ y = Scan(fmt, slots)[rd + 1]
    OBVIOUS
  <1>. HIDE DEF x, y
  <1>9. IF Converts(x, fmt[rd + 1]) THEN ReadConversion(y, x, fmt[rd + 1], slots)
        ELSE ReadCharacter(y, x, fmt[rd + 1])
    BY Zenon, <1>7, StepCases
  <1>10. NextScan(x, y, fmt, slots, rd)
    BY Zenon, <1>2, <1>3, <1>7, <1>8, <1>9 DEF NextScan
  <1>. QED
    BY Zenon, <1>10

\* The text so far is a string.
LEMMA SofarType ==
    ASSUME NEW x, NEW k, ScanType(x, k)
    PROVE  Sofar(x) \in Seq(Char) /\ Len(Sofar(x)) \in Nat
  <1>1. x.out \in Seq(Char) /\ x.percent \in BOOLEAN /\ 63 \in Char
    BY DEF ScanType, Char
  <1>. QED
    BY <1>1 DEF Sofar

\* A turn that stores a character keeps to the meaning of the format.
LEMMA CharacterTurn ==
    ASSUME Induction, NEW rd, NEW us, NEW st, NEW bf, NEW fmt, NEW slots, NEW size,
           NEW under, NEW fits, Room(fmt, slots, size, fits),
           LoopAt(rd, us, st, bf, fmt, slots, size, under, fits),
           rd < Len(fmt), NEW c,
           \/ c = fmt[rd + 1] /\ c # 37
           \/ c = 63 /\ fmt[rd + 1] = 37 /\ rd + 1 < Len(fmt)
              /\ fmt[(rd + 1) + 1] \notin {113, 115, 120}
    PROVE  LoopAt(rd + 1, us, st + 1, Store(bf, st, <<c>>), fmt, slots, size, under, fits)
  <1>1. WellFormed(fmt, slots) /\ MEMORY \in Nat /\ size \in Nat /\ rd \in 0 .. Len(fmt)
    BY Zenon DEF Room, LoopAt
  <1>2. PICK x, y : NextScan(x, y, fmt, slots, rd)
    BY <1>1, ScanNext
  <1>. DEFINE t == Sofar(x)
  <1>3. /\ us = x.used /\ st = Len(t)
        /\ x.percent => fmt[rd + 1] \notin {113, 115, 120}
        /\ fits => bf = Holding(t, size, under)
    BY Zenon, <1>2 DEF LoopAt, NextScan
  <1>4. ReadCharacter(y, x, fmt[rd + 1]) /\ ScanType(x, rd)
    BY Zenon, <1>2, <1>3 DEF NextScan, Converts
  <1>5. t \in Seq(Char) /\ Len(t) \in Nat
    BY <1>4, SofarType
  <1>. HIDE DEF t
  <1>6. y.used = x.used /\ Sofar(y) = Append(t, c)
    <2>1. CASE c = fmt[rd + 1] /\ c # 37
      <3>1. y.out = Append(t, c) /\ y.percent = FALSE /\ y.used = x.used
        BY Zenon, <2>1, <1>4 DEF ReadCharacter, t
      <3>. QED
        BY Zenon, <3>1 DEF Sofar
    <2>2. CASE c = 63 /\ fmt[rd + 1] = 37
      <3>1. y.out = t /\ y.percent = TRUE /\ y.used = x.used
        BY Zenon, <2>2, <1>4 DEF ReadCharacter, t
      <3>. QED
        BY Zenon, <3>1, <2>2 DEF Sofar
    <2>. QED
      BY Zenon, <2>1, <2>2
  <1>7. st + 1 = Len(Append(t, c))
    BY <1>3, <1>5
  <1>8. y.percent => rd + 1 < Len(fmt) /\ fmt[(rd + 1) + 1] \notin {113, 115, 120}
    BY Zenon, <1>4 DEF ReadCharacter
  <1>9. fits => Store(bf, st, <<c>>) = Holding(Append(t, c), size, under)
    <2>1. Store(Holding(t, size, under), Len(t), <<c>>) = Holding(Append(t, c), size, under)
      BY <1>1, <1>5, PutCharacter
    <2>. QED
      BY <1>3, <2>1
  <1>10. y = Scan(fmt, slots)[rd + 1] /\ rd + 1 \in 0 .. Len(fmt)
    BY Zenon, <1>2 DEF NextScan
  <1>11. /\ us = y.used /\ st + 1 = Len(Sofar(y))
         /\ fits => Store(bf, st, <<c>>) = Holding(Sofar(y), size, under)
    BY <1>3, <1>6, <1>7, <1>9
  <1>. QED
    BY Zenon, <1>8, <1>10, <1>11 DEF LoopAt


\* A turn that appends a number or a string keeps to the meaning of the format.
LEMMA ConversionTurn ==
    ASSUME Induction, NEW rd, NEW us, NEW st, NEW bf, NEW fmt, NEW slots, NEW size,
           NEW under, NEW fits, Room(fmt, slots, size, fits),
           LoopAt(rd, us, st, bf, fmt, slots, size, under, fits),
           rd + 1 < Len(fmt), fmt[rd + 1] = 37, fmt[rd + 2] \in {113, 115, 120},
           NEW p, p = Printed(slots[us + 1], fmt[rd + 2])
    PROVE  LoopAt(rd + 2, us + 1, st + Len(p), strcat(bf, st, p), fmt, slots, size, under, fits)
  <1>1. /\ WellFormed(fmt, slots) /\ MEMORY \in Nat /\ size \in Nat /\ size <= MEMORY
        /\ rd \in 0 .. Len(fmt) /\ (fits => Len(Whole(fmt, slots)) < size)
    BY DEF Room, LoopAt
  <1>2. Len(fmt) \in Nat /\ Len(slots) = Len(fmt) /\ slots \in Seq(Arg)
    BY <1>1 DEF WellFormed
  <1>3. /\ rd < Len(fmt) /\ rd + 1 \in 0 .. Len(fmt) /\ (rd + 1) + 1 = rd + 2
        /\ rd + 2 \in 0 .. Len(fmt) /\ rd \in Nat
    BY <1>1, <1>2
  <1>4. PICK x, y : NextScan(x, y, fmt, slots, rd)
    BY <1>1, <1>3, ScanNext
  <1>5. PICK y2, z : NextScan(y2, z, fmt, slots, rd + 1)
    BY <1>1, <1>3, ScanNext
  <1>. DEFINE t == Sofar(x)
  <1>6. /\ us = x.used /\ st = Len(t) /\ ScanType(x, rd)
        /\ fits => bf = Holding(t, size, under)
    BY <1>4 DEF LoopAt, NextScan
  <1>7. y.out = t /\ y.percent = TRUE /\ y.used = us
    <2>1. ReadCharacter(y, x, 37)
      BY <1>4 DEF NextScan, Converts
    <2>. QED
      BY <2>1, <1>6 DEF ReadCharacter
  <1>8. y2 = y /\ z = Scan(fmt, slots)[rd + 2]
    BY <1>3, <1>4, <1>5 DEF NextScan
  <1>9. z.out = t \o p /\ z.used = us + 1 /\ z.percent = FALSE
    <2>1. ReadConversion(z, y, fmt[rd + 2], slots)
      BY <1>3, <1>5, <1>7, <1>8 DEF NextScan, Converts
    <2>. QED
      BY <2>1, <1>7 DEF ReadConversion
  <1>10. t \in Seq(Char) /\ Len(t) \in Nat
    BY <1>6, SofarType
  <1>11. p \in Seq(Char)
    <2>1. slots[us + 1] \in Arg
      BY <1>2, <1>3, <1>6 DEF ScanType
    <2>. QED
      BY <2>1, PrintedType
  <1>12. Sofar(z) = t \o p
    BY <1>9 DEF Sofar
  <1>. HIDE DEF t
  <1>13. Len(t \o p) = Len(t) + Len(p) /\ Len(p) \in Nat
    BY <1>10, <1>11
  <1>14. fits => Len(t) + Len(p) < size
    <2>1. Len(z.out) <= Len(Whole(fmt, slots)) /\ ScanType(Scan(fmt, slots)[Len(fmt)], Len(fmt))
      <3>1. Len(fmt) \in 0 .. Len(fmt)
        BY <1>2
      <3>. QED
        <4>1. ScanType(Scan(fmt, slots)[Len(fmt)], Len(fmt))
          BY ZenonT(40), <3>1, <1>1, ScanTypes
        <4>2. Len(Scan(fmt, slots)[rd + 2].out) <= Len(Scan(fmt, slots)[Len(fmt)].out)
          BY ZenonT(40), <1>1, <1>3, ScanTypes
        <4>. QED
          BY Zenon, <4>1, <4>2, <1>8 DEF Whole
    <2>2. Len(Whole(fmt, slots)) \in Nat
      BY <2>1 DEF ScanType, Whole
    <2>3. Len(t) + Len(p) <= Len(Whole(fmt, slots)) /\ Len(t) + Len(p) \in Nat
      BY <2>1, <1>9, <1>10, <1>13
    <2>. QED
      BY <1>1, <2>2, <2>3
  <1>15. ASSUME fits PROVE strcat(bf, st, p) = Holding(t \o p, size, under)
    <2>1. Len(t) + Len(p) < size
      BY <1>14, <1>15
    <2>2. strcat(Holding(t, size, under), Len(t), p) = Holding(t \o p, size, under)
      BY <1>1, <1>10, <1>11, <2>1, PutString
    <2>3. bf = Holding(t, size, under) /\ st = Len(t)
      BY <1>6, <1>15
    <2>. QED
      BY <2>2, <2>3
  <1>16. /\ us + 1 = z.used /\ st + Len(p) = Len(Sofar(z)) /\ ~ z.percent
         /\ fits => strcat(bf, st, p) = Holding(Sofar(z), size, under)
    BY <1>6, <1>9, <1>12, <1>13, <1>15
  <1>. QED
    BY <1>3, <1>8, <1>16 DEF LoopAt

\* The text so far, with the '?' of an unknown type, is a part of the whole.
LEMMA SofarFits ==
    ASSUME Induction, NEW fmt, NEW slots, WellFormed(fmt, slots), NEW rd \in 0 .. Len(fmt),
           Scan(fmt, slots)[rd].percent =>
             rd < Len(fmt) /\ fmt[rd + 1] \notin {113, 115, 120}
    PROVE  /\ Len(Sofar(Scan(fmt, slots)[rd])) <= Len(Whole(fmt, slots))
           /\ Len(Sofar(Scan(fmt, slots)[rd])) \in Nat /\ Len(Whole(fmt, slots)) \in Nat
  <1>. DEFINE x == Scan(fmt, slots)[rd]
  <1>1. Len(fmt) \in Nat /\ Len(fmt) \in 0 .. Len(fmt)
    BY DEF WellFormed
  <1>2. ScanType(x, rd) /\ Len(x.out) <= Len(Whole(fmt, slots))
    BY ScanTypes DEF Whole
  <1>3. ScanType(Scan(fmt, slots)[Len(fmt)], Len(fmt))
    BY <1>1, ScanTypes
  <1>4. Len(Whole(fmt, slots)) \in Nat
    BY <1>3 DEF ScanType, Whole
  <1>5. Len(Sofar(x)) \in Nat
    BY <1>2, SofarType
  <1>6. CASE x.percent
    <2>1. rd < Len(fmt) /\ fmt[rd + 1] \notin {113, 115, 120}
      BY <1>6
    <2>2. PICK x2, y : NextScan(x2, y, fmt, slots, rd)
      BY <2>1, ScanNext
    <2>3. x2 = x /\ ScanType(y, rd + 1) /\ rd + 1 \in 0 .. Len(fmt) /\ y = Scan(fmt, slots)[rd + 1]
      BY <2>2 DEF NextScan
    <2>4. ReadCharacter(y, x, fmt[rd + 1])
      BY <2>1, <2>2, <2>3 DEF NextScan, Converts
    <2>5. Len(y.out) <= Len(Whole(fmt, slots))
      BY <2>3, ScanTypes DEF Whole
    <2>6. Sofar(x) \in Seq(Char) /\ Len(y.out) \in Nat
      BY <1>2, <2>3, SofarType DEF ScanType
    <2>. HIDE DEF x
    <2>7. Len(Sofar(x)) <= Len(y.out)
      BY <2>4, <2>6 DEF ReadCharacter
    <2>8. Len(Sofar(x)) <= Len(Whole(fmt, slots))
      BY <1>4, <1>5, <2>5, <2>6, <2>7
    <2>. QED
      BY <1>4, <1>5, <2>8 DEF x
  <1>7. CASE ~ x.percent
    BY <1>2, <1>4, <1>5, <1>7 DEF Sofar
  <1>. QED
    BY <1>6, <1>7

LoopOver(rd, fmt) == rd = Len(fmt) \/ (rd + 1 = Len(fmt) /\ fmt[rd + 1] = 37)
LoopFits(rd, us, st, bf, fmt, slots, size, under) ==
    Room(fmt, slots, size, TRUE) /\ LoopAt(rd, us, st, bf, fmt, slots, size, under, TRUE)
LoopResult(rd, st, bf, fmt) == IF rd = Len(fmt) THEN Store(bf, st, <<0>>) ELSE bf

\* Where sprintf_internal returns, the text so far is the whole.
LEMMA LoopEnded ==
    ASSUME Induction, NEW rd, NEW us, NEW st, NEW bf, NEW fmt, NEW slots, NEW size,
           NEW under, LoopFits(rd, us, st, bf, fmt, slots, size, under), LoopOver(rd, fmt)
    PROVE  LoopResult(rd, st, bf, fmt) = Holding(Whole(fmt, slots), size, under)
  <1>1. /\ WellFormed(fmt, slots) /\ MEMORY \in Nat /\ size \in Nat
        /\ rd \in 0 .. Len(fmt) /\ Len(Whole(fmt, slots)) < size
    BY DEF LoopFits, Room, LoopAt
  <1>2. Len(fmt) \in Nat
    BY <1>1 DEF WellFormed
  <1>. DEFINE x == Scan(fmt, slots)[rd]
              t == Sofar(x)
  <1>3. st = Len(t) /\ bf = Holding(t, size, under) /\ (x.percent => rd < Len(fmt))
    BY DEF LoopFits, LoopAt
  <1>4. t \in Seq(Char)
    BY <1>1, ScanTypes, SofarType
  <1>. HIDE DEF x, t
  <1>5. CASE rd = Len(fmt)
    <2>1. t = Whole(fmt, slots)
      <3>1. ~ x.percent
        BY <1>2, <1>3, <1>5
      <3>. QED
        BY <3>1, <1>5 DEF Whole, Sofar, t, x
    <2>2. Store(Holding(t, size, under), Len(t), <<0>>) = Holding(t, size, under)
      BY <1>1, <1>4, <2>1, PutNull
    <2>. QED
      BY <1>3, <1>5, <2>1, <2>2 DEF LoopResult
  <1>6. CASE rd # Len(fmt)
    <2>1. rd + 1 = Len(fmt) /\ fmt[rd + 1] = 37 /\ rd < Len(fmt)
      BY <1>1, <1>2, <1>6 DEF LoopOver
    <2>2. PICK x2, y : NextScan(x2, y, fmt, slots, rd)
      BY <1>1, <2>1, ScanNext
    <2>3. x2 = x /\ y = Scan(fmt, slots)[Len(fmt)]
      BY <2>1, <2>2 DEF NextScan, x
    <2>4. ReadCharacter(y, x, 37)
      BY <2>1, <2>2, <2>3 DEF NextScan, Converts
    <2>5. y.out = t
      BY <2>4 DEF ReadCharacter, t
    <2>. QED
      BY <1>3, <1>6, <2>3, <2>5 DEF Whole, LoopResult
  <1>. QED
    BY <1>5, <1>6


-----------------------------------------------------------------------------
(* The stamp.                                                                *)

\* What a quotient is.
LEMMA Quotient ==
    ASSUME NEW a \in Nat, NEW d \in Nat, d > 0
    PROVE  /\ a \div d \in Nat /\ d * (a \div d) <= a /\ a < d * (a \div d) + d
           /\ a % d \in Nat /\ a = d * (a \div d) + (a % d)
  <1>. DEFINE q == a \div d
              r == a % d
  <1>1. q \in Int /\ r \in 0 .. d - 1 /\ a = d * q + r
    BY Z3
  <1>. HIDE DEF q, r
  <1>2. q >= 0
    <2>. SUFFICES ASSUME q <= -1 PROVE FALSE
      BY <1>1
    <2>1. d * q <= -d
      BY <1>1
    <2>. QED
      BY <1>1, <2>1
  <1>3. d * q \in Int
    BY <1>1
  <1>. QED
    BY <1>1, <1>2, <1>3 DEF q, r

\* A number whose multiple is no more than another's is no more than it.
LEMMA Cancel ==
    ASSUME NEW a \in Nat, NEW c \in Nat, NEW d \in Nat, d > 0
    PROVE  d * a < d * c + d => a <= c
  <1>. SUFFICES ASSUME a >= c + 1 PROVE d * a >= d * c + d
    OBVIOUS
  <1>. QED
    BY Z3

\* timer_read_systemcounter_usec divides twice: the result is the time in
\* microseconds when the frequency is a whole number of MHz, and otherwise no less.
LEMMA Clock ==
    ASSUME NEW count \in Nat, NEW f \in Nat, NEW mhz \in Nat, mhz > 0, f >= mhz
    PROVE  /\ count \div (f \div mhz) \in Nat
           /\ count \div (f \div mhz) >= (count * mhz) \div f
           /\ f % mhz = 0 => count \div (f \div mhz) = (count * mhz) \div f
  <1>. DEFINE d == f \div mhz
              u == count \div d
              w == (count * mhz) \div f
  <1>1. d \in Nat /\ mhz * d <= f /\ f < mhz * d + mhz /\ (f % mhz = 0 => f = mhz * d)
    BY Quotient
  <1>. HIDE DEF d
  <1>2. d > 0
    <2>. SUFFICES ASSUME d = 0 PROVE FALSE
      BY <1>1
    <2>1. mhz * d = 0
      BY <1>1
    <2>. QED
      BY <1>1, <2>1
  <1>3. u \in Nat /\ d * u <= count /\ count < d * u + d
    BY <1>1, <1>2, Quotient
  <1>4. w \in Nat /\ f * w <= count * mhz /\ count * mhz < f * w + f
    <2>1. count * mhz \in Nat /\ f > 0
      OBVIOUS
    <2>. QED
      BY <2>1, Quotient
  <1>. HIDE DEF u, w
  <1>5. w <= u
    <2>1. (mhz * d) * w <= f * w
      BY <1>1, <1>4
    <2>2. (mhz * d) * w = mhz * (d * w) /\ count * mhz = mhz * count /\ d * w \in Nat
      BY <1>1, <1>4
    <2>3. mhz * (d * w) <= mhz * count
      <3>1. /\ (mhz * d) * w \in Int /\ f * w \in Int /\ count * mhz \in Int
        BY <1>1, <1>4
      <3>. QED
        BY <2>1, <2>2, <3>1, <1>4
    <2>4. d * w <= count
      <3>. DEFINE k == d * w
      <3>1. k \in Nat /\ mhz * k <= mhz * count
        BY <2>2, <2>3
      <3>. HIDE DEF k
      <3>2. mhz * k < mhz * count + mhz
        <4>1. mhz * k \in Int /\ mhz * count \in Int
          BY <3>1
        <4>. QED
          BY <3>1, <4>1
      <3>. QED
        BY <3>1, <3>2, Cancel DEF k
    <2>5. d * w < d * u + d
      <3>1. d * w \in Int /\ d * u \in Int
        BY <1>1, <1>3, <1>4
      <3>. QED
        BY <2>4, <3>1, <1>1, <1>3
    <2>. QED
      BY <1>1, <1>2, <1>3, <1>4, <2>5, Cancel
  <1>6. ASSUME f % mhz = 0 PROVE u <= w
    <2>1. f = mhz * d
      BY <1>1, <1>6
    <2>2. f * u = mhz * (d * u) /\ d * u \in Nat
      BY <1>1, <1>3, <2>1
    <2>3. mhz * (d * u) <= mhz * count
      <3>. DEFINE k == d * u
      <3>1. k \in Nat /\ k <= count
        BY <1>3, <2>2
      <3>. HIDE DEF k
      <3>2. mhz * k <= mhz * count
        BY <3>1
      <3>. QED
        BY <3>2 DEF k
    <2>4. f * u < f * w + f
      <3>1. count * mhz = mhz * count /\ f * u \in Int /\ f * w \in Int /\ count * mhz \in Int
        BY <1>3, <1>4
      <3>. QED
        BY <3>1, <2>2, <2>3, <1>4
    <2>. QED
      BY <1>3, <1>4, <2>4, Cancel
  <1>. QED
    BY <1>3, <1>4, <1>5, <1>6 DEF u, w, d


-----------------------------------------------------------------------------
(* The inductive invariant.                                                  *)

\* klog's call of sprintf, and what it means.
PrefixFormat == <<91, 37, 113, 93, 32>>
PrefixSlots == [i \in 1 .. 5 |-> [num |-> timer_read_systemcounter_usec, str |-> <<>>]]
Stamped == <<91>> \o Stamp \o <<93, 32>>

Inputs == call \in Call /\ freq \in Frequency /\ cntpct \in Counter

Size == IF place = "text" THEN TEXT ELSE PREFIX

\* The buffers in turn: each is untouched, then holds what was formatted.
IInv ==
    /\ Inputs
    /\ place \in {"klogf", "text", "prefix", "end"}
    /\ place = "text" => format = call.format /\ args = call.args
    /\ place = "prefix" => format = PrefixFormat /\ args = PrefixSlots
    /\ place \in {"text", "prefix"} =>
         LoopAt(read, used, str, buf, format, args, Size, junk, Fits)
    /\ place \in {"klogf", "text"} => text = junk
    /\ place # "end" => prefix = junk /\ line = junk
    /\ place \in {"prefix", "end"} /\ Fits => text = Holding(Message, TEXT, junk)
    /\ place = "end" /\ Fits =>
         /\ prefix = Holding(Stamped, PREFIX, junk)
         /\ \A i \in Address : i >= LINE => line[i] = junk[i]
         /\ console = Stamped \o Message \o <<10>>

\* The clock gives a number, as the timer's frequency is at least one MHz.
LEMMA Microseconds ==
    ASSUME Inputs
    PROVE  /\ timer_read_systemcounter_usec \in Nat
           /\ timer_read_systemcounter_usec >= (cntpct * MHZ) \div freq
           /\ freq % MHZ = 0 => timer_read_systemcounter_usec = (cntpct * MHZ) \div freq
  <1>1. /\ cntpct \in Nat /\ freq \in Nat /\ MHZ \in Nat /\ MHZ > 0 /\ freq >= MHZ
    BY LogAssumption DEF Inputs
  <1>. QED
    BY <1>1, Clock DEF timer_read_systemcounter_usec

\* The stamp is a string of digits, which read back as the time.
LEMMA StampDigits ==
    ASSUME Induction, Inputs
    PROVE  /\ Stamp \in Seq(Char)
           /\ Denotes(Stamp, 10, timer_read_systemcounter_usec)
  <1>1. timer_read_systemcounter_usec \in Nat /\ 10 \in 2 .. 16
    BY Microseconds
  <1>. QED
    BY Zenon, <1>1, NumberDigits DEF Stamp

\* A function on the first numbers is a sequence.
LEMMA FunctionIsSequence ==
    ASSUME NEW n \in Nat, NEW S, NEW f \in [1 .. n -> S]
    PROVE  f \in Seq(S) /\ Len(f) = n
  OBVIOUS

\* Both calls of sprintf_internal have a format and its slots.
LEMMA Formats ==
    ASSUME Inputs
    PROVE  WellFormed(call.format, call.args) /\ WellFormed(PrefixFormat, PrefixSlots)
  <1>1. WellFormed(call.format, call.args)
    BY LogAssumption DEF Inputs, WellFormed
  <1>2. PrefixFormat \in Seq(Char) /\ Len(PrefixFormat) = 5
    BY DEF PrefixFormat, Char
  <1>3. PrefixSlots \in Seq(Arg) /\ Len(PrefixSlots) = 5
    <2>1. timer_read_systemcounter_usec \in Nat
      BY Microseconds
    <2>2. [num |-> timer_read_systemcounter_usec, str |-> <<>>] \in Arg
      BY <2>1 DEF Arg
    <2>3. PrefixSlots \in [1 .. 5 -> Arg]
      BY <2>2 DEF PrefixSlots
    <2>. QED
      BY Zenon, <2>3, 5 \in Nat, FunctionIsSequence
  <1>. QED
    BY <1>1, <1>2, <1>3 DEF WellFormed

\* "[%q] " means the stamp in brackets and a space.
LEMMA PrefixMeans ==
    ASSUME Induction, Inputs
    PROVE  Whole(PrefixFormat, PrefixSlots) = Stamped
  <1>. DEFINE scan == Scan(PrefixFormat, PrefixSlots)
  <1>1. /\ Len(PrefixFormat) = 5
        /\ PrefixFormat[1] = 91 /\ PrefixFormat[2] = 37 /\ PrefixFormat[3] = 113
        /\ PrefixFormat[4] = 93 /\ PrefixFormat[5] = 32
    BY DEF PrefixFormat
  <1>2. /\ scan[0] = ScanStart
        /\ \A k \in 1 .. 5 : scan[k] = ScanStep(scan[k - 1], PrefixFormat[k], PrefixSlots)
    <2>1. Len(PrefixFormat) \in Nat
      BY <1>1
    <2>2. /\ scan[0] = ScanStart
          /\ \A k \in 1 .. Len(PrefixFormat) :
               scan[k] = ScanStep(scan[k - 1], PrefixFormat[k], PrefixSlots)
      BY Zenon, <2>1, ScanRule
    <2>. QED
      BY <1>1, <2>2
  <1>. HIDE DEF scan
  <1>3. /\ scan[1] = ScanStep(scan[0], 91, PrefixSlots)
        /\ scan[2] = ScanStep(scan[1], 37, PrefixSlots)
        /\ scan[3] = ScanStep(scan[2], 113, PrefixSlots)
        /\ scan[4] = ScanStep(scan[3], 93, PrefixSlots)
        /\ scan[5] = ScanStep(scan[4], 32, PrefixSlots)
    BY <1>1, <1>2
  <1>4. scan[1].out = <<91>> /\ scan[1].used = 0 /\ scan[1].percent = FALSE
    <2>1. scan[0].out = <<>> /\ scan[0].used = 0 /\ scan[0].percent = FALSE
      BY <1>2 DEF ScanStart
    <2>2. ReadCharacter(scan[1], scan[0], 91)
      BY <2>1, <1>3, StepCases DEF Converts
    <2>3. Append(<<>>, 91) = <<91>> /\ 91 # 37
      OBVIOUS
    <2>. QED
      BY ZenonT(40), <2>1, <2>2, <2>3 DEF ReadCharacter, Sofar
  <1>5. scan[2].out = <<91>> /\ scan[2].used = 0 /\ scan[2].percent = TRUE
    <2>1. ReadCharacter(scan[2], scan[1], 37)
      BY <1>4, <1>3, StepCases DEF Converts
    <2>. QED
      BY Zenon, <2>1, <1>4 DEF ReadCharacter, Sofar
  <1>6. Printed(PrefixSlots[1], 113) = Stamp
    BY DEF Printed, PrefixSlots, Stamp
  <1>7. scan[3].out = <<91>> \o Stamp /\ scan[3].percent = FALSE
    <2>1. ReadConversion(scan[3], scan[2], 113, PrefixSlots)
      BY <1>5, <1>3, StepCases DEF Converts
    <2>2. 0 + 1 = 1
      OBVIOUS
    <2>. QED
      BY Zenon, <2>1, <2>2, <1>5, <1>6 DEF ReadConversion
  <1>8. scan[4].out = Append(<<91>> \o Stamp, 93) /\ scan[4].percent = FALSE
    <2>1. ReadCharacter(scan[4], scan[3], 93) /\ 93 # 37
      BY <1>7, <1>3, StepCases DEF Converts
    <2>. QED
      BY ZenonT(40), <2>1, <1>7 DEF ReadCharacter, Sofar
  <1>9. scan[5].out = Append(Append(<<91>> \o Stamp, 93), 32)
    <2>1. ReadCharacter(scan[5], scan[4], 32) /\ 32 # 37
      BY <1>8, <1>3, StepCases DEF Converts
    <2>. QED
      BY Zenon, <2>1, <1>8 DEF ReadCharacter, Sofar
  <1>10. Append(Append(<<91>> \o Stamp, 93), 32) = <<91>> \o Stamp \o <<93, 32>>
    <2>. DEFINE a == <<91>> \o Stamp
    <2>1. a \in Seq(Char)
      <3>1. <<91>> \in Seq(Char) /\ Stamp \in Seq(Char)
        BY StampDigits DEF Char
      <3>. QED
        BY <3>1
    <2>. HIDE DEF a
    <2>2. Append(Append(a, 93), 32) = a \o <<93, 32>>
      BY <2>1
    <2>. QED
      BY <2>2 DEF a
  <1>. QED
    BY <1>1, <1>9, <1>10 DEF Whole, Stamped, scan


\* The sizes of the buffers.
LEMMA Sizes ==
    /\ MEMORY \in Nat /\ TEXT \in Nat /\ PREFIX \in Nat /\ LINE \in Nat
    /\ TEXT <= MEMORY /\ PREFIX <= MEMORY /\ LINE <= MEMORY
  BY LogAssumption

\* The message is a string.
LEMMA MessageType ==
    ASSUME Induction, Inputs
    PROVE  Message \in Seq(Char) /\ Message = Whole(call.format, call.args)
  <1>1. WellFormed(call.format, call.args)
    BY Zenon, Formats
  <1>2. Len(call.format) \in 0 .. Len(call.format)
    BY <1>1 DEF WellFormed
  <1>3. ScanType(Scan(call.format, call.args)[Len(call.format)], Len(call.format))
    BY <1>1, <1>2, ScanTypes
  <1>. QED
    BY <1>3 DEF ScanType, Message, Whole

\* What klog puts before the message.
LEMMA StampedType ==
    ASSUME Induction, Inputs
    PROVE  /\ Stamped \in Seq(Char) /\ Len(Stamped) = Len(Stamp) + 3 /\ Len(Stamp) \in Nat
  <1>1. Stamp \in Seq(Char) /\ <<91>> \in Seq(Char) /\ <<93, 32>> \in Seq(Char)
    BY StampDigits DEF Char
  <1>2. Len(<<91>>) = 1 /\ Len(<<93, 32>>) = 2
    OBVIOUS
  <1>. QED
    BY <1>1, <1>2 DEF Stamped

\* Both calls of sprintf_internal have room.
LEMMA Rooms ==
    ASSUME Induction, IInv, place \in {"text", "prefix"}
    PROVE  Room(format, args, Size, Fits)
  <1>1. Inputs
    BY DEF IInv
  <1>2. CASE place = "text"
    <2>1. format = call.format /\ args = call.args /\ Size = TEXT
      BY <1>2 DEF IInv, Size
    <2>2. Whole(format, args) = Message
      BY <1>1, <2>1, MessageType
    <2>3. Fits => Len(Whole(format, args)) < TEXT
      BY <2>2 DEF Fits
    <2>. QED
      BY <1>1, <2>1, <2>3, Formats, Sizes DEF Room
  <1>3. CASE place = "prefix"
    <2>1. format = PrefixFormat /\ args = PrefixSlots /\ Size = PREFIX
      BY <1>3 DEF IInv, Size
    <2>2. Len(Whole(format, args)) = Len(Stamp) + 3
      BY <1>1, <2>1, PrefixMeans, StampedType
    <2>3. Fits => Len(Whole(format, args)) < PREFIX
      BY <2>2 DEF Fits
    <2>. QED
      BY <1>1, <2>1, <2>3, Formats, Sizes DEF Room
  <1>. QED
    BY <1>2, <1>3

\* What depends on the inputs alone stays as it is.
LEMMA InputsStay ==
    ASSUME UNCHANGED input
    PROVE  /\ Fits' = Fits /\ Message' = Message /\ Stamped' = Stamped
           /\ PrefixSlots' = PrefixSlots /\ Inputs' = Inputs
           /\ junk' = junk /\ call' = call
  <1>1. call' = call /\ freq' = freq /\ cntpct' = cntpct /\ junk' = junk
    BY DEF input
  <1>2. Message' = Message
    BY <1>1 DEF Message
  <1>3. timer_read_systemcounter_usec' = timer_read_systemcounter_usec
    BY <1>1 DEF timer_read_systemcounter_usec
  <1>4. Stamp' = Stamp /\ PrefixSlots' = PrefixSlots
    BY <1>3 DEF Stamp, PrefixSlots
  <1>. QED
    BY <1>1, <1>2, <1>4 DEF Fits, Inputs, Stamped

\* sprintf_internal starts with an empty buffer.
LEMMA LoopStarts ==
    ASSUME Induction, MEMORY \in Nat, NEW fmt, NEW slots, WellFormed(fmt, slots),
           NEW size \in Nat, NEW under, NEW fits
    PROVE  LoopAt(0, 0, 0, memset(under, 0, size), fmt, slots, size, under, fits)
  <1>1. Len(fmt) \in Nat
    BY DEF WellFormed
  <1>2. Scan(fmt, slots)[0] = ScanStart
    BY <1>1, ScanRule
  <1>3. ScanStart.out = <<>> /\ ScanStart.used = 0 /\ ScanStart.percent = FALSE
    BY DEF ScanStart
  <1>4. Sofar(ScanStart) = <<>> /\ Len(<<>>) = 0
    BY <1>3 DEF Sofar
  <1>5. memset(under, 0, size) = Holding(<<>>, size, under)
    BY Cleared
  <1>6. 0 \in 0 .. Len(fmt)
    BY <1>1
  <1>. QED
    BY <1>2, <1>3, <1>4, <1>5, <1>6 DEF LoopAt


\* The invariant holds before klogf is called.
LEMMA LogInit == Init => IInv
  BY DEF Init, IInv, Inputs

\* A turn of the loop in either call keeps the invariant.
LEMMA Turns ==
    ASSUME Induction, IInv, Ordinary \/ Conversion \/ Unknown PROVE IInv'
  <1>1. /\ place \in {"text", "prefix"} /\ UNCHANGED <<input, place, format, args, buffers>>
    BY DEF Ordinary, Conversion, Unknown, Percent, Put
  <1>2. Room(format, args, Size, Fits)
    BY Zenon, <1>1, Rooms
  <1>3. LoopAt(read, used, str, buf, format, args, Size, junk, Fits)
    BY Zenon, <1>1 DEF IInv
  <1>4. /\ Fits' = Fits /\ Message' = Message /\ Stamped' = Stamped
        /\ PrefixSlots' = PrefixSlots /\ Inputs' = Inputs /\ junk' = junk /\ call' = call
    BY Zenon, <1>1, InputsStay
  <1>5. /\ place' = place /\ format' = format /\ args' = args /\ Size' = Size
        /\ text' = text /\ prefix' = prefix /\ line' = line /\ console' = console
    BY <1>1 DEF buffers, Size
  <1>6. LoopAt(read', used', str', buf', format, args, Size, junk, Fits)
    <2>1. CASE Ordinary
      <3>. DEFINE c == format[read + 1]
      <3>1. /\ read < Len(format) /\ c # 37
            /\ read' = read + 1 /\ used' = used /\ str' = str + 1 /\ buf' = Store(buf, str, <<c>>)
        BY <2>1 DEF Ordinary, Put
      <3>2. LoopAt(read + 1, used, str + 1, Store(buf, str, <<c>>), format, args, Size, junk, Fits)
        BY <1>2, <1>3, <3>1, CharacterTurn
      <3>. QED
        BY <3>1, <3>2
    <2>2. CASE Unknown
      <3>1. /\ read + 1 < Len(format) /\ format[read + 1] = 37
            /\ format[read + 2] \notin {113, 115, 120}
            /\ read' = read + 1 /\ used' = used /\ str' = str + 1 /\ buf' = Store(buf, str, <<63>>)
        BY <2>2 DEF Unknown, Percent, Put
      <3>2. read \in Nat /\ Len(format) \in Nat
        BY <1>2, <1>3 DEF LoopAt, Room, WellFormed
      <3>3. read < Len(format) /\ (read + 1) + 1 = read + 2
        BY <3>1, <3>2
      <3>4. LoopAt(read + 1, used, str + 1, Store(buf, str, <<63>>), format, args, Size, junk, Fits)
        BY <1>2, <1>3, <3>1, <3>3, CharacterTurn
      <3>. QED
        BY <3>1, <3>4
    <2>3. CASE Conversion
      <3>. DEFINE p == Printed(args[used + 1], format[read + 2])
      <3>1. /\ read + 1 < Len(format) /\ format[read + 1] = 37
            /\ format[read + 2] \in {113, 115, 120}
            /\ read' = read + 2 /\ used' = used + 1 /\ str' = str + Len(p)
            /\ buf' = strcat(buf, str, p)
        BY <2>3 DEF Conversion, Percent
      <3>2. LoopAt(read + 2, used + 1, str + Len(p), strcat(buf, str, p), format, args, Size,
                   junk, Fits)
        BY <1>2, <1>3, <3>1, ConversionTurn
      <3>. QED
        BY <3>1, <3>2
    <2>. QED
      BY <2>1, <2>2, <2>3
  <1>. QED
    BY <1>1, <1>4, <1>5, <1>6 DEF IInv

\* klogf clears its buffer and starts to format.
LEMMA KlogfStep == ASSUME Induction, IInv, klogf PROVE IInv'
  <1>1. /\ place = "klogf" /\ place' = "text" /\ UNCHANGED <<input, buffers>>
        /\ format' = call.format /\ args' = call.args /\ read' = 0 /\ used' = 0 /\ str' = 0
        /\ buf' = memset(junk, 0, TEXT)
    BY DEF klogf, sprintf
  <1>2. /\ Fits' = Fits /\ Message' = Message /\ Stamped' = Stamped
        /\ PrefixSlots' = PrefixSlots /\ Inputs' = Inputs /\ junk' = junk /\ call' = call
    BY Zenon, <1>1, InputsStay
  <1>3. Inputs /\ text = junk /\ prefix = junk /\ line = junk
    BY <1>1 DEF IInv
  <1>4. LoopAt(0, 0, 0, memset(junk, 0, TEXT), call.format, call.args, TEXT, junk, Fits)
    BY <1>3, Sizes, Formats, LoopStarts
  <1>5. Size' = TEXT /\ text' = text /\ prefix' = prefix /\ line' = line
    BY <1>1 DEF Size, buffers
  <1>6. LoopAt(read', used', str', buf', format', args', Size', junk', Fits')
    BY <1>1, <1>2, <1>4, <1>5
  <1>. QED
    BY <1>1, <1>2, <1>3, <1>5, <1>6 DEF IInv

\* klogf has its message, and klog starts to format the prefix.
LEMMA KlogStep == ASSUME Induction, IInv, klog PROVE IInv'
  <1>1. /\ place = "text" /\ place' = "prefix" /\ UNCHANGED <<input, line, prefix, console>>
        /\ Ended /\ text' = Result
        /\ format' = PrefixFormat /\ args' = PrefixSlots /\ read' = 0 /\ used' = 0 /\ str' = 0
        /\ buf' = memset(junk, 0, PREFIX)
    BY DEF klog, sprintf, PrefixFormat, PrefixSlots
  <1>2. /\ Fits' = Fits /\ Message' = Message /\ Stamped' = Stamped
        /\ PrefixSlots' = PrefixSlots /\ Inputs' = Inputs /\ junk' = junk /\ call' = call
    BY Zenon, <1>1, InputsStay
  <1>3. /\ Inputs /\ prefix = junk /\ line = junk /\ format = call.format /\ args = call.args
        /\ LoopAt(read, used, str, buf, format, args, Size, junk, Fits)
    BY <1>1 DEF IInv
  <1>4. Room(format, args, Size, Fits) /\ Size = TEXT
    BY <1>1, Rooms DEF Size
  <1>5. ASSUME Fits PROVE text' = Holding(Message, TEXT, junk)
    <2>1. Result = Holding(Whole(format, args), Size, junk)
      <3>1. LoopOver(read, format)
        BY <1>1 DEF Ended, LoopOver
      <3>3. LoopFits(read, used, str, buf, format, args, Size, junk)
        BY <1>3, <1>4, <1>5 DEF LoopFits, LoopAt, Room
      <3>2. LoopResult(read, str, buf, format) = Holding(Whole(format, args), Size, junk)
        BY <3>1, <3>3, LoopEnded
      <3>. QED
        BY <3>2 DEF Result, LoopResult
    <2>. QED
      BY <1>1, <1>3, <1>4, <2>1, MessageType
  <1>6. LoopAt(0, 0, 0, memset(junk, 0, PREFIX), PrefixFormat, PrefixSlots, PREFIX, junk, Fits)
    BY <1>3, Sizes, Formats, LoopStarts
  <1>7. Size' = PREFIX
    BY <1>1 DEF Size
  <1>8. LoopAt(read', used', str', buf', format', args', Size', junk', Fits')
    BY <1>1, <1>2, <1>6, <1>7
  <1>. QED
    BY <1>1, <1>2, <1>3, <1>5, <1>8 DEF IInv


\* klog joins prefix, message and newline in its buffer, and prints them.
LEMMA PutStringStep == ASSUME Induction, IInv, put_string PROVE IInv'
  <1>1. /\ place = "prefix" /\ place' = "end" /\ UNCHANGED <<input, frame, text>>
        /\ Ended /\ prefix' = Result
        /\ line' = strcat(strcat(strcpy(junk, 0, String(prefix', 0)), 0, String(text, 0)),
                          0, <<10>>)
        /\ console' = String(line', 0)
    BY DEF put_string
  <1>2. /\ Fits' = Fits /\ Message' = Message /\ Stamped' = Stamped
        /\ PrefixSlots' = PrefixSlots /\ Inputs' = Inputs /\ junk' = junk /\ call' = call
    BY Zenon, <1>1, InputsStay
  <1>3. /\ Inputs /\ format = PrefixFormat /\ args = PrefixSlots
        /\ LoopAt(read, used, str, buf, format, args, Size, junk, Fits)
        /\ Fits => text = Holding(Message, TEXT, junk)
    BY <1>1 DEF IInv
  <1>4. Room(format, args, Size, Fits) /\ Size = PREFIX
    BY <1>1, Rooms DEF Size
  <1>5. ASSUME Fits
        PROVE  /\ prefix' = Holding(Stamped, PREFIX, junk)
               /\ \A i \in Address : i >= LINE => line'[i] = junk[i]
               /\ console' = Stamped \o Message \o <<10>>
    <2>1. prefix' = Holding(Stamped, PREFIX, junk)
      <3>1. LoopOver(read, format)
        BY <1>1 DEF Ended, LoopOver
      <3>3. LoopFits(read, used, str, buf, format, args, Size, junk)
        BY <1>3, <1>4, <1>5 DEF LoopFits, LoopAt, Room
      <3>2. LoopResult(read, str, buf, format) = Holding(Whole(format, args), Size, junk)
        BY <3>1, <3>3, LoopEnded
      <3>5. Whole(format, args) = Stamped
        BY <1>3, PrefixMeans
      <3>. QED
        BY <1>1, <1>4, <3>2, <3>5 DEF Result, LoopResult
    <2>2. /\ Message \in Seq(Char) /\ Stamped \in Seq(Char) /\ <<10>> \in Seq(Char)
          /\ Len(<<10>>) = 1 /\ Len(Message) \in Nat /\ Len(Stamped) \in Nat
      BY <1>3, MessageType, StampedType DEF Char
    <2>3. /\ Len(Stamped) < PREFIX /\ Len(Message) < TEXT
          /\ Len(Stamped) + Len(Message) + 1 < LINE
      BY <1>3, <1>5, <2>2, StampedType DEF Fits
    <2>4. String(prefix', 0) = Stamped
      <3>1. Reads(Holding(Stamped, PREFIX, junk), Stamped)
        BY <2>2, <2>3, Sizes, HoldingReads
      <3>. QED
        BY <2>1, <2>2, <3>1, Sizes, StringRead
    <2>5. String(text, 0) = Message
      <3>1. Reads(Holding(Message, TEXT, junk), Message)
        BY <2>2, <2>3, Sizes, HoldingReads
      <3>. QED
        BY <1>3, <1>5, <2>2, <3>1, Sizes, StringRead
    <2>. DEFINE l1 == strcpy(junk, 0, Stamped)
                l2 == strcat(l1, 0, Message)
                nl == <<10>>
                l3 == strcat(l2, 0, nl)
                sm == Stamped \o Message
    <2>6. line' = l3
      BY <1>1, <2>4, <2>5
    <2>7. sm \in Seq(Char) /\ Len(sm) = Len(Stamped) + Len(Message)
      BY <2>2
    <2>14. nl \in Seq(Char) /\ Len(nl) = 1
      BY <2>2
    <2>8. /\ Len(Stamped) < MEMORY /\ Len(Stamped) + Len(Message) < MEMORY
          /\ Len(sm) + Len(nl) < MEMORY
      <3>. HIDE DEF sm, nl
      <3>. QED
        BY <2>2, <2>3, <2>7, <2>14, Sizes
    <2>9. Reads(l1, Stamped) /\ \A i \in Address : i > Len(Stamped) => l1[i] = junk[i]
      BY <2>2, <2>8, Sizes, CopyReads
    <2>. HIDE DEF l1
    <2>10. /\ Reads(l2, sm)
           /\ \A i \in Address : i > Len(Stamped) + Len(Message) => l2[i] = l1[i]
      BY <2>2, <2>8, <2>9, Sizes, CatReads
    <2>. HIDE DEF l2, sm, nl
    <2>11. /\ Reads(l3, sm \o nl)
           /\ \A i \in Address : i > Len(sm) + Len(nl) => l3[i] = l2[i]
      BY <2>7, <2>8, <2>10, <2>14, Sizes, CatReads
    <2>. HIDE DEF l3
    <2>12. String(l3, 0) = sm \o nl
      <3>1. sm \o nl \in Seq(Char)
        BY <2>7, <2>14
      <3>. QED
        BY <2>11, <3>1, Sizes, StringRead
    <2>13. ASSUME NEW i \in Address, i >= LINE PROVE l3[i] = junk[i]
      <3>1. /\ i > Len(sm) + Len(nl) /\ i > Len(Stamped) + Len(Message) /\ i > Len(Stamped)
        BY <2>2, <2>3, <2>7, <2>13, <2>14, Sizes DEF Address
      <3>. QED
        BY <3>1, <2>9, <2>10, <2>11
    <2>. QED
      BY <1>1, <2>1, <2>6, <2>12, <2>13 DEF sm, nl
  <1>6. text' = text
    BY <1>1
  <1>. QED
    BY <1>1, <1>2, <1>3, <1>5, <1>6 DEF IInv

\* Every step of klogf and klog keeps the invariant.
LEMMA LogNext == ASSUME Induction, IInv, [Next]_vars PROVE IInv'
  <1>1. CASE UNCHANGED vars
    <2>1. UNCHANGED input
      BY <1>1 DEF vars
    <2>2. /\ Fits' = Fits /\ Message' = Message /\ Stamped' = Stamped
          /\ PrefixSlots' = PrefixSlots /\ Inputs' = Inputs /\ junk' = junk /\ call' = call
      BY Zenon, <2>1, InputsStay
    <2>3. UNCHANGED <<place, format, args, read, used, buf, str, text, line, prefix, console>>
      BY <1>1 DEF vars, frame, buffers
    <2>4. Size' = Size
      BY <2>3 DEF Size
    <2>. QED
      BY <2>2, <2>3, <2>4 DEF IInv
  <1>. QED
    BY <1>1, KlogfStep, Turns, KlogStep, PutStringStep DEF Next, Done

\* The invariant says that lines are exact.
LEMMA ExactFromInvariant == ASSUME Induction, IInv PROVE LineIsExact
  <1>. SUFFICES ASSUME place = "end", Fits
                PROVE  /\ console = <<91>> \o Stamp \o <<93, 32>> \o Message \o <<10>>
                       /\ \A i \in DOMAIN call.args, base \in {10, 16} :
                            Denotes(uint64_to_string(call.args[i].num, base), base,
                                    call.args[i].num)
                       /\ Len(Stamp) > 1 => Stamp[1] # 48
                       /\ ValueOf(Stamp, 10) >= (cntpct * MHZ) \div freq
                       /\ freq % MHZ = 0 => ValueOf(Stamp, 10) = (cntpct * MHZ) \div freq
    BY DEF LineIsExact
  <1>1. Inputs /\ console = Stamped \o Message \o <<10>>
    BY DEF IInv
  <1>2. ASSUME NEW i \in DOMAIN call.args, NEW base \in {10, 16}
        PROVE  Denotes(uint64_to_string(call.args[i].num, base), base, call.args[i].num)
    <2>1. call.args[i].num \in Nat
      <3>1. call.args \in Seq(Arg)
        BY <1>1, LogAssumption DEF Inputs
      <3>2. i \in 1 .. Len(call.args)
        BY <3>1
      <3>3. call.args[i] \in Arg
        BY <3>1, <3>2
      <3>. QED
        BY <3>3 DEF Arg
    <2>2. base \in 2 .. 16
      OBVIOUS
    <2>. QED
      BY <2>1, <2>2, NumberDigits
  <1>3. /\ ValueOf(Stamp, 10) = timer_read_systemcounter_usec
        /\ Len(Stamp) > 1 => Stamp[1] # 48
    BY <1>1, StampDigits DEF Denotes
  <1>. QED
    BY <1>1, <1>2, <1>3, Microseconds DEF Stamped

\* The invariant says that writes stay inside.
LEMMA InsideFromInvariant == ASSUME Induction, IInv PROVE WritesStayInside
  <1>. SUFFICES ASSUME Fits, NEW i \in Address
                PROVE  /\ i >= TEXT => text[i] = junk[i] /\ (place = "text" => buf[i] = junk[i])
                       /\ i >= PREFIX =>
                            prefix[i] = junk[i] /\ (place = "prefix" => buf[i] = junk[i])
                       /\ i >= LINE => line[i] = junk[i]
    BY DEF WritesStayInside
  <1>1. Inputs
    BY DEF IInv
  <1>2. /\ Len(Message) \in Nat /\ Len(Stamped) \in Nat /\ i \in Nat
        /\ Len(Message) < TEXT /\ Len(Stamped) < PREFIX
    BY <1>1, MessageType, StampedType DEF Fits, Address
  <1>3. /\ i >= TEXT => Holding(Message, TEXT, junk)[i] = junk[i]
        /\ i >= PREFIX => Holding(Stamped, PREFIX, junk)[i] = junk[i]
    BY <1>2, Sizes DEF Holding
  <1>4. ASSUME place \in {"text", "prefix"}, i >= Size PROVE buf[i] = junk[i]
    <2>. DEFINE x == Scan(format, args)[read]
    <2>1. Room(format, args, Size, Fits)
      BY <1>4, Rooms
    <2>2. /\ LoopAt(read, used, str, buf, format, args, Size, junk, Fits)
      BY <1>4 DEF IInv
    <2>3. read \in 0 .. Len(format) /\ buf = Holding(Sofar(x), Size, junk)
          /\ (x.percent => read < Len(format) /\ format[read + 1] \notin {113, 115, 120})
      BY <2>2 DEF LoopAt
    <2>4. WellFormed(format, args) /\ Len(Whole(format, args)) < Size /\ Size \in Nat
      BY <2>1 DEF Room
    <2>5. Len(Sofar(x)) <= Len(Whole(format, args)) /\ Len(Sofar(x)) \in Nat
          /\ Len(Whole(format, args)) \in Nat
      BY <2>3, <2>4, SofarFits
    <2>. HIDE DEF x
    <2>. QED
      BY <1>2, <1>4, <2>3, <2>4, <2>5 DEF Holding
  <1>. QED
    BY <1>3, <1>4 DEF IInv, Size

-----------------------------------------------------------------------------
(* The induction the lemmas assume.                                          *)

FT == INSTANCE FiniteSetTheorems

\* A set of numbers that has 0 and every successor of its members has them all:
\* its members up to one that it lacks would inject into fewer.
LEMMA AllNumbers == Induction
  <1>. SUFFICES ASSUME NEW S \in SUBSET Nat, 0 \in S, \A k \in S : k + 1 \in S,
                       NEW m \in Nat, m \notin S
                PROVE  FALSE
    BY DEF Induction
  <1>. DEFINE A == S \cap (0 .. m)
              f == [k \in A |-> k + 1]
  <1>1. FT!IsFiniteSet(A)
    <2>1. FT!IsFiniteSet(0 .. m) /\ A \in SUBSET (0 .. m)
      BY FT!FS_Interval
    <2>. QED
      BY <2>1, FT!FS_Subset
  <1>2. \A k \in A : k \in Int /\ k + 1 \in A \ {0}
    OBVIOUS
  <1>3. 0 \in A
    OBVIOUS
  <1>. HIDE DEF A
  <1>4. f \in FT!Injection(A, A \ {0})
    BY <1>2 DEF FT!Injection, FT!IsInjective
  <1>5. /\ FT!IsFiniteSet(A \ {0}) /\ FT!Cardinality(A \ {0}) = FT!Cardinality(A) - 1
        /\ FT!Cardinality(A) \in Nat
    BY <1>1, <1>3, FT!FS_RemoveElement, FT!FS_CardinalityType
  <1>6. FT!Cardinality(A) <= FT!Cardinality(A \ {0})
    BY <1>4, <1>5, FT!FS_Injection
  <1>. QED
    BY <1>5, <1>6

-----------------------------------------------------------------------------
(* The log.                                                                  *)

\* uint64_to_string of any number, in any base it is called with, reads back as
\* that number and has no leading zero.
THEOREM NumbersReadBack ==
    \A num \in Nat, base \in 2 .. 16 : Denotes(uint64_to_string(num, base), base, num)
  BY AllNumbers, NumberDigits

\* What klog's buffers hold after each of its steps, for any call that fits.
THEOREM LogInvariance == Spec => []IInv
  <1>1. Init => IInv
    BY AllNumbers, LogInit
  <1>2. IInv /\ [Next]_vars => IInv'
    BY AllNumbers, LogNext
  <1>. QED
    BY <1>1, <1>2, PTL DEF Spec

\* A line that fits is printed exactly: its stamp, its text with every conversion
\* replaced by what its argument is, and a newline.
THEOREM LineExact == Spec => []LineIsExact
  <1>1. IInv => LineIsExact
    BY AllNumbers, ExactFromInvariant
  <1>. QED
    BY <1>1, LogInvariance, PTL

\* Printing a line that fits writes nothing beyond klogf's and klog's buffers.
THEOREM WritesInside == Spec => []WritesStayInside
  <1>1. IInv => WritesStayInside
    BY AllNumbers, InsideFromInvariant
  <1>. QED
    BY <1>1, LogInvariance, PTL

-----------------------------------------------------------------------------
(* The disk driver.                                                          *)

DiskTypes ==
    /\ req \in Request
    /\ mem \in [Buffer -> Data] /\ disk \in [Sector -> Data]
    /\ fmasked \in BOOLEAN /\ done \in BOOLEAN
    /\ irq \in BOOLEAN /\ awake \in BOOLEAN

\* What the request has to move is still where it was when it was made.
ToMove ==
    /\ desc = [addr |-> req.data, write |-> ~ req.write]
    /\ moved = IF req.write THEN mem[req.data] ELSE disk[req.sector]

Moved == status = "ok" => mem[req.data] = moved /\ disk[req.sector] = moved

\* The device has nothing to do and raises nothing.
Quiet == last = idx /\ irq = FALSE

\* The entry is published and the device has not taken it yet; or it has, and its
\* interrupt is pending until it has set done.
Unserved == idx = (last + 1) % UINT16_RANGE /\ irq = FALSE /\ ToMove
Served == last = idx /\ Moved

\* Until the first request sets the handler, the device has not been notified and
\* sleeps; afterwards it can take an entry before it is notified of it, but then
\* FIQ is masked until the new sync is registered.
DiskInv ==
    /\ DiskTypes
    /\ pc \in {"boot", "idle", "lost", "prepared", "published", "registered",
               "wait", "returned"}
    /\ pc \in {"boot", "lost"} => Quiet /\ handler = "none" /\ awake = FALSE
    /\ pc = "idle" => Quiet
    /\ pc = "returned" => Quiet /\ Moved
    /\ pc = "prepared" => Quiet /\ ToMove
    /\ pc \in {"idle", "returned", "prepared", "published"} =>
         \/ handler = "freed"
         \/ handler = "none" /\ awake = FALSE
    /\ pc \in {"prepared", "published"} => fmasked = (handler # "none")
    /\ pc = "published" => Unserved \/ (Served /\ irq = TRUE /\ fmasked = TRUE)
    /\ pc \in {"registered", "wait"} =>
         /\ handler = "live" /\ fmasked = FALSE
         /\ \/ Unserved /\ done = FALSE
            \/ Served /\ irq = TRUE /\ done = FALSE
            \/ Served /\ irq = FALSE /\ done = TRUE

\* In the initial state the device is quiet and no request was made.
LEMMA DiskInitInv == DiskInit => DiskInv
  BY DEF DiskInit, DiskInv, DiskTypes, Quiet, Request

\* Every step of driver, device and interrupt keeps the invariant.
LEMMA DiskNextInv == DiskInv /\ [DiskNext]_diskVars => DiskInv'
  <1>. SUFFICES ASSUME DiskInv, [DiskNext]_diskVars PROVE DiskInv'
    OBVIOUS
  <1>. USE DEF DiskInv, DiskTypes, Quiet, Unserved, Served, ToMove, Moved, driver, device
  <1>1. CASE disk_init
    BY <1>1 DEF disk_init
  <1>2. ASSUME NEW r \in Request, Prepare(r) PROVE DiskInv'
    <2>1. /\ pc' = "prepared" /\ pc = "idle" /\ req' = r
          /\ UNCHANGED <<idx, last, irq, handler, awake, fmasked, done, mem, disk>>
          /\ fmasked = (handler # "none")
      BY <1>2 DEF Prepare
    <2>2. ToMove'
      BY <1>2 DEF Prepare
    <2>3. DiskTypes'
      BY <2>1
    <2>. QED
      BY <2>1, <2>2, <2>3
  <1>3. CASE Publish
    BY <1>3 DEF Publish
  <1>4. CASE Register
    BY <1>4 DEF Register, gic_redistributor_set_handler
  <1>5. CASE Notify
    BY <1>5 DEF Notify
  <1>6. CASE Finish
    BY <1>6 DEF Finish
  <1>7. CASE Return
    BY <1>7 DEF Return
  <1>8. CASE UserMode
    BY <1>8 DEF UserMode
  <1>9. CASE disk_handle_interrupt_sync
    BY <1>9 DEF disk_handle_interrupt_sync
  <1>10. CASE Serve
    <2>1. pc \in {"published", "registered", "wait"} /\ Unserved /\ last # idx
      BY <1>10 DEF Serve
    <2>2. /\ last' = idx /\ irq' = TRUE
          /\ UNCHANGED <<pc, req, desc, idx, handler, done, fmasked, awake, moved>>
          /\ awake = TRUE
      BY <1>10, <2>1 DEF Serve
    <2>3. req.write \in BOOLEAN /\ req.data \in Buffer /\ req.sector \in Sector
      BY DEF Request
    <2>4. DiskTypes' /\ Moved'
      <3>1. CASE status' = "ok" /\ Transfer /\ req.write
        BY <3>1, <2>1, <2>2, <2>3 DEF Transfer
      <3>2. CASE status' = "ok" /\ Transfer /\ ~ req.write
        BY <3>2, <2>1, <2>2, <2>3 DEF Transfer
      <3>3. CASE status' = "error" /\ Spoil
        BY <3>3, <2>1, <2>2, <2>3 DEF Spoil
      <3>. QED
        BY <1>10, <3>1, <3>2, <3>3, <2>3 DEF Serve
    <2>. QED
      BY <2>1, <2>2, <2>4
  <1>11. CASE Sleep
    BY <1>11 DEF Sleep
  <1>12. CASE UNCHANGED diskVars
    BY <1>12 DEF diskVars
  <1>. QED
    BY <1>1, <1>2, <1>3, <1>4, <1>5, <1>6, <1>7, <1>8, <1>9, <1>10, <1>11, <1>12
       DEF DiskNext, Spin, Lost

\* The invariant that couples the driver's place with the device's.
THEOREM DiskInvariance == DiskSpec => []DiskInv
  BY DiskInitInv, DiskNextInv, PTL DEF DiskSpec

\* disk_create_request_sync returns with the data moved, unless the device says
\* that it could not.
THEOREM RequestMovesData == DiskSpec => []ReturnsWithDataMoved
  <1>1. DiskInv => ReturnsWithDataMoved
    BY DEF DiskInv, Moved, ReturnsWithDataMoved
  <1>. QED
    BY <1>1, DiskInvariance, PTL

\* An interrupt that is taken finds the handler of the request in progress.
THEOREM SyncIsLive == DiskSpec => []InterruptFindsSync
  <1>1. DiskInv => InterruptFindsSync
    BY DEF DiskInv, DiskTypes, Quiet, Unserved, InterruptFindsSync
  <1>. QED
    BY <1>1, DiskInvariance, PTL

DiskSizes == QUEUE_SIZE \in Nat \ {0} /\ UINT16_RANGE \in Nat \ {0, 1}

\* The words of the avail ring that the index has passed are written, and so is
\* the one that the device takes next; a device with an entry to take is awake from
\* the notification on.
RingInv ==
    /\ ring \in [Word -> {NULL, 0}] /\ idx \in Word /\ last \in Word
    /\ \A w \in Word : w < idx => ring[w] = 0
    /\ pc = "prepared" => ring[idx] = 0
    /\ pc \in {"published", "registered", "wait"} /\ last # idx =>
         \A w \in Word : w <= last => ring[w] = 0
    /\ pc = "wait" /\ last # idx => awake = TRUE

\* While disk_create_request_sync spins on sync->done, it is done, or an interrupt
\* is pending that can be taken, or the device is awake with an entry to take:
\* no order of driver, device and interrupt loses the wakeup.
WaitIsServed ==
    pc = "wait" =>
      \/ done
      \/ irq /\ ~ fmasked /\ handler # "none"
      \/ awake /\ last # idx /\ ring[last % QUEUE_SIZE] = 0

\* The avail ring is filled before the index passes it, whatever the index does at
\* the end of the ring and of its range.
LEMMA RingNext ==
    ASSUME DiskSizes, DiskInv, RingInv, [DiskNext]_diskVars PROVE RingInv'
  <1>1. \A w \in Word : w \in Nat /\ w < UINT16_RANGE
    BY DEF DiskSizes, Word
  <1>2. \A w \in Word : (w + 1) % UINT16_RANGE \in Word /\ (w + 1) % UINT16_RANGE <= w + 1
    BY <1>1 DEF DiskSizes, Word
  <1>3. CASE Publish
    <2>1. /\ pc = "prepared" /\ pc' = "published" /\ idx' = (idx + 1) % UINT16_RANGE
          /\ ring' = ring /\ last' = last /\ last = idx
      BY <1>3 DEF Publish, device, DiskInv, Quiet
    <2>2. \A w \in Word : w <= idx => ring[w] = 0
      BY <1>1, <2>1 DEF RingInv
    <2>3. idx' \in Word /\ idx' <= idx + 1
      BY <1>2, <2>1 DEF RingInv
    <2>4. \A w \in Word : w < idx' => ring[w] = 0
      BY <1>1, <2>2, <2>3 DEF RingInv
    <2>. QED
      BY <2>1, <2>2, <2>3, <2>4 DEF RingInv
  <1>4. ASSUME NEW r \in Request, Prepare(r) PROVE RingInv'
    BY <1>4 DEF Prepare, device, RingInv
  <1>5. CASE Serve
    <2>1. /\ last' = (last + 1) % UINT16_RANGE
          /\ UNCHANGED <<pc, ring, idx, awake>> /\ last # idx
      BY <1>5 DEF Serve, driver
    <2>2. pc \in {"published", "registered", "wait"} /\ idx = (last + 1) % UINT16_RANGE
      BY <2>1 DEF DiskInv, Quiet, Unserved, Served
    <2>. QED
      BY <2>1, <2>2 DEF RingInv
  <1>6. CASE Notify
    BY <1>6 DEF Notify, RingInv
  <1>7. CASE Sleep
    BY <1>7 DEF Sleep, driver, RingInv
  <1>8. CASE Register
    BY <1>8 DEF Register, device, RingInv
  <1>9. ASSUME \/ disk_init \/ Finish \/ Return \/ UserMode
               \/ disk_handle_interrupt_sync \/ UNCHANGED diskVars
        PROVE  RingInv'
    <2>1. /\ UNCHANGED <<ring, idx, last, awake>>
          /\ pc' \in {pc, "idle", "lost", "returned"}
      BY <1>9 DEF disk_init, Finish, Return, UserMode, device,
                  disk_handle_interrupt_sync, diskVars, driver
    <2>. QED
      BY <2>1 DEF RingInv
  <1>. QED
    BY <1>3, <1>4, <1>5, <1>6, <1>7, <1>8, <1>9 DEF DiskNext, Spin, Lost

\* No wakeup is lost, for any size of the queue and range of its index.
THEOREM NoLostWakeup == DiskSpec => []WaitIsServed
  <1>. DiskSizes
    BY VirtioAssumption DEF DiskSizes
  <1>1. DiskInit => RingInv
    BY DEF DiskInit, RingInv, DiskSizes, Word
  <1>2. DiskInv /\ RingInv /\ [DiskNext]_diskVars => RingInv'
    BY RingNext
  <1>3. DiskInv /\ RingInv => WaitIsServed
    <2>. SUFFICES ASSUME DiskInv, RingInv, pc = "wait", done = FALSE, irq = FALSE
                  PROVE  awake /\ last # idx /\ ring[last % QUEUE_SIZE] = 0
      BY DEF WaitIsServed, DiskInv, DiskTypes
    <2>1. idx = (last + 1) % UINT16_RANGE /\ last \in 0 .. UINT16_RANGE - 1
      BY DEF DiskInv, Unserved, Served, RingInv, Word
    <2>2. last # idx
      BY <2>1 DEF DiskSizes
    <2>3. last % QUEUE_SIZE \in Word /\ last % QUEUE_SIZE <= last
      BY <2>1 DEF DiskSizes, Word
    <2>. QED
      BY <2>2, <2>3 DEF RingInv
  <1>. QED
    BY <1>1, <1>2, <1>3, DiskInvariance, PTL DEF DiskSpec
=============================================================================
