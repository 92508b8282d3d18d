--------------------------- MODULE PrintingProofs ---------------------------
(***************************************************************************)
(* Proofs about the print functions, for all numbers: write_double with    *)
(* two decimals, the parts of the uptime for every length of a day, an     *)
(* hour and a minute, the colors, and which conversions are defined.       *)
(***************************************************************************)
EXTENDS Printing, SequenceTheorems, FiniteSetTheorems, WellFoundedInduction, TLAPS

-----------------------------------------------------------------------------
(***************************************************************************)
(* Division.                                                               *)
(***************************************************************************)

LEMMA DivMod ==
    ASSUME NEW a \in Nat, NEW b \in Nat, b > 0
    PROVE  /\ a \div b \in Nat /\ a % b \in 0 .. b - 1
           /\ b * (a \div b) + (a % b) = a
<1>1. a % b = a - b * (a \div b)
  OBVIOUS
<1>2. a \div b \in Nat /\ a % b \in 0 .. b - 1
  OBVIOUS
<1> QED
  BY <1>1, <1>2

LEMMA Monotone ==
    ASSUME NEW a \in Int, NEW b \in Int, NEW d \in Nat, a <= b
    PROVE  d * a <= d * b
OBVIOUS

-----------------------------------------------------------------------------
(***************************************************************************)
(* write_double.                                                           *)
(***************************************************************************)

LEMMA OneAndOne == ASSUME NEW a, NEW b PROVE <<a>> \o <<b>> = <<a, b>>
<1> DEFINE s == <<a>> \o <<b>>
           t == <<a, b>>
           S == {a, b}
<1>1. s \in Seq(S) /\ t \in Seq(S) /\ Len(s) = 2 /\ Len(t) = 2
  OBVIOUS
<1>2. s[1] = t[1] /\ s[2] = t[2]
  OBVIOUS
<1> HIDE DEF s, t, S
<1>3. s = t
  BY <1>1, <1>2, SeqEqual
<1> QED
  BY <1>3 DEF s, t

LEMMA Powers == 10 ^ 0 = 1 /\ 10 ^ 1 = 10 /\ 10 ^ 2 = 100
OBVIOUS

\* A number below a hundred has one digit or two.
LEMMA TwoDigits ==
    ASSUME NEW f \in 0 .. 99
    PROVE  fmt_ulong(f) = IF f < 10 THEN <<f>> ELSE <<f \div 10, f % 10>>
<1> DEFINE L == {l \in 1 .. 9 : f < 10 ^ l} \cup {10}
           len == Min(L)
<1>1. fmt_ulong(f) = [k \in 1 .. len |-> (f \div 10 ^ (len - k)) % 10]
  BY DEF fmt_ulong
<1>2. len = IF f < 10 THEN 1 ELSE 2
  <2>1. L \subseteq 1 .. 10
    OBVIOUS
  <2>2. CASE f < 10
    <3>1. 1 \in L /\ \A l \in L : 1 <= l
      BY <2>1, <2>2, Powers
    <3>2. len = 1
      BY <2>1, <3>1 DEF Min
    <3> QED
      BY <2>2, <3>2
  <2>3. CASE ~ (f < 10)
    <3>1. 2 \in L /\ 1 \notin L
      BY <2>3, Powers
    <3> HIDE DEF L
    <3>2. \A l \in L : 2 <= l
      BY <2>1, <3>1
    <3>3. \A x \in L : (\A y \in L : x <= y) => x = 2
      <4> SUFFICES ASSUME NEW x \in L, x <= 2 PROVE x = 2
        BY <3>1
      <4> QED
        BY <2>1, <3>2
    <3>4. len = 2
      BY <3>1, <3>2, <3>3 DEF Min
    <3> QED
      BY <2>3, <3>4
  <2> QED
    BY <2>2, <2>3
<1> HIDE DEF L, len
<1>3. CASE f < 10
  <2>1. len = 1
    BY <1>2, <1>3
  <2>2. fmt_ulong(f) = [k \in 1 .. 1 |-> (f \div 10 ^ (1 - k)) % 10]
    BY <1>1, <2>1
  <2>3. ASSUME NEW k \in 1 .. 1
        PROVE  (f \div 10 ^ (1 - k)) % 10 = f
    <3>1. 1 - k = 0
      OBVIOUS
    <3>2. 10 ^ (1 - k) = 1
      BY <3>1, Powers
    <3> QED
      BY <1>3, <3>2
  <2>4. fmt_ulong(f) = [k \in 1 .. 1 |-> f]
    BY <2>2, <2>3
  <2> QED
    BY <1>3, <2>4
<1>4. CASE ~ (f < 10)
  <2>1. len = 2
    BY <1>2, <1>4
  <2>2. fmt_ulong(f) = [k \in 1 .. 2 |-> (f \div 10 ^ (2 - k)) % 10]
    BY <1>1, <2>1
  <2>3. ASSUME NEW k \in 1 .. 2
        PROVE  (f \div 10 ^ (2 - k)) % 10 = IF k = 1 THEN f \div 10 ELSE f % 10
    <3>1. CASE k = 1
      <4>1. 2 - k = 1
        BY <3>1
      <4>2. 10 ^ (2 - k) = 10
        BY <4>1, Powers
      <4>3. (f \div 10) % 10 = f \div 10
        OBVIOUS
      <4> QED
        BY <3>1, <4>2, <4>3
    <3>2. CASE k = 2
      <4>1. 2 - k = 0
        BY <3>2
      <4>2. 10 ^ (2 - k) = 1
        BY <4>1, Powers
      <4>3. f \div 1 = f
        OBVIOUS
      <4> QED
        BY <3>2, <4>2, <4>3
    <3> QED
      BY <3>1, <3>2
  <2>4. fmt_ulong(f) = [k \in 1 .. 2 |-> IF k = 1 THEN f \div 10 ELSE f % 10]
    BY <2>2, <2>3
  <2> QED
    BY <1>4, <2>4
<1> QED
  BY <1>3, <1>4

\* The decimals are the digits of f with a zero before one of them.
LEMMA TwoDecimals ==
    ASSUME NEW f \in 0 .. 99, NEW frac,
           frac = Zeros(2 - Len(fmt_ulong(f))) \o fmt_ulong(f)
    PROVE  frac = <<f \div 10, f % 10>>
<1>1. CASE f < 10
  <2>1. fmt_ulong(f) = <<f>>
    BY <1>1, TwoDigits
  <2>2. Len(fmt_ulong(f)) = 1
    BY <2>1
  <2>3. Zeros(2 - Len(fmt_ulong(f))) = <<0>>
    BY <2>2 DEF Zeros
  <2>4. frac = <<0, f>>
    BY <2>1, <2>3, OneAndOne
  <2>5. f \div 10 = 0 /\ f % 10 = f
    BY <1>1
  <2> QED
    BY <2>4, <2>5
<1>2. CASE ~ (f < 10)
  <2>1. fmt_ulong(f) = <<f \div 10, f % 10>>
    BY <1>2, TwoDigits
  <2>2. Len(fmt_ulong(f)) = 2
    BY <2>1
  <2>3. Zeros(2 - Len(fmt_ulong(f))) = << >>
    BY <2>2 DEF Zeros
  <2>4. << >> \o <<f \div 10, f % 10>> = <<f \div 10, f % 10>>
    OBVIOUS
  <2> QED
    BY <2>1, <2>3, <2>4
<1> QED
  BY <1>1, <1>2

\* The text is the value rounded, or one less where rounding carries.
LEMMA WriteDouble ==
    ASSUME NEW num \in Nat, NEW d \in Nat, d > 0,
           NEW t, t = write_double(num, d, 2)
    PROVE  /\ Len(t.frac) = 2
           /\ \/ Near(num, d, Hundredths(t))
              \/ Near(num, d, Hundredths(t) + 100) /\ t.frac = <<0, 0>>
<1> DEFINE q == num \div d
           r == num % d
           x == (200 * num + d) \div (2 * d)
           y == (200 * num + d) % (2 * d)
           f == x % 100
<1>1. /\ q \in Nat /\ r \in Nat /\ r < d /\ d * q + r = num
      /\ x \in Nat /\ y \in Nat /\ y < 2 * d /\ (2 * d) * x + y = 200 * num + d
      /\ f \in 0 .. 99
  <2>1. q \in Nat /\ r \in 0 .. d - 1 /\ d * q + r = num
    BY DivMod
  <2>2. 200 * num + d \in Nat /\ 2 * d \in Nat /\ 2 * d > 0
    OBVIOUS
  <2>3. x \in Nat /\ y \in 0 .. 2 * d - 1 /\ (2 * d) * x + y = 200 * num + d
    BY <2>2, DivMod
  <2> QED
    BY <2>1, <2>3
<1>2. t.int = q /\ t.frac = <<f \div 10, f % 10>>
  <2>1. 2 * num * 10 ^ 2 = 200 * num
    BY Powers
  <2>2. t = [int |-> q, frac |-> Zeros(2 - Len(fmt_ulong(f))) \o fmt_ulong(f)]
    BY <2>1, Powers DEF write_double
  <2> HIDE DEF f, q
  <2>3. t.int = q /\ t.frac = Zeros(2 - Len(fmt_ulong(f))) \o fmt_ulong(f)
    BY <2>2
  <2>4. t.frac = <<f \div 10, f % 10>>
    BY <1>1, <2>3, TwoDecimals
  <2> QED
    BY <2>3, <2>4
<1>3. Hundredths(t) = 100 * q + f
  <2> HIDE DEF f, q
  <2>1. t.frac[1] = f \div 10 /\ t.frac[2] = f % 10
    BY <1>2
  <2>2. 10 * (f \div 10) + (f % 10) = f
    BY <1>1
  <2> QED
    BY <1>1, <1>2, <2>1, <2>2 DEF Hundredths
<1>4. Near(num, d, x)
  <2> HIDE DEF x, y, q, r, f
  <2>1. 2 * (100 * num - d * x) = y - d
    BY <1>1
  <2> QED
    BY <1>1, <2>1 DEF Near
<1>5. 100 * q <= x /\ x <= 100 * q + 100
  <2> HIDE DEF x, y, q, r, f
  <2>1. (2 * d) * x + y = (2 * d) * (100 * q) + 200 * r + d
    BY <1>1
  <2>2. ASSUME x + 1 <= 100 * q PROVE FALSE
    <3>1. (2 * d) * (x + 1) <= (2 * d) * (100 * q)
      BY <1>1, <2>2, Monotone
    <3>2. (2 * d) * (x + 1) = (2 * d) * x + 2 * d
      BY <1>1
    <3> QED
      BY <1>1, <2>1, <3>1, <3>2
  <2>3. ASSUME 100 * q + 101 <= x PROVE FALSE
    <3>1. (2 * d) * (100 * q + 101) <= (2 * d) * x
      BY <1>1, <2>3, Monotone
    <3>2. (2 * d) * (100 * q + 101) = (2 * d) * (100 * q) + 202 * d
      BY <1>1
    <3> QED
      BY <1>1, <2>1, <3>1, <3>2
  <2> QED
    BY <1>1, <2>2, <2>3
<1>6. x = 100 * q + f \/ (x = 100 * q + 100 /\ f = 0)
  <2> HIDE DEF q, r, y
  <2>1. PICK z \in 0 .. 100 : x = 100 * q + z
    <3> HIDE DEF x, f
    <3>1. x - 100 * q \in 0 .. 100 /\ x = 100 * q + (x - 100 * q)
      BY <1>1, <1>5
    <3> QED
      BY <3>1
  <2>2. (100 * q + z) % 100 = z % 100
    BY <1>1
  <2>3. f = z % 100
    BY <1>1, <2>1, <2>2
  <2> HIDE DEF x, f
  <2>4. z = 100 => z % 100 = 0
    OBVIOUS
  <2>5. z < 100 => z % 100 = z
    BY <2>1
  <2> QED
    BY <2>1, <2>3, <2>4, <2>5
<1>7. f = 0 => t.frac = <<0, 0>>
  <2> HIDE DEF f
  <2> QED
    BY <1>2
<1>8. Len(t.frac) = 2
  BY <1>2
<1> HIDE DEF x, f, q
<1> QED
  BY <1>1, <1>3, <1>4, <1>6, <1>7, <1>8

-----------------------------------------------------------------------------
(***************************************************************************)
(* uptime_print_human.                                                     *)
(***************************************************************************)

Units == {"d", "h", "m", "s"}

\* Amount of any text.
AmountIn(t, unit) ==
    LET ks == {k \in DOMAIN t : t[k].unit = unit}
    IN IF ks = {} THEN 0 ELSE t[CHOOSE k \in ks : TRUE].val

\* Parts of these units, each smaller than the unit before it.
Good(t, units) ==
    /\ t \in Seq([val : Nat, unit : Units])
    /\ \A k \in 1 .. Len(t) :
          t[k].unit \in units /\ (t[k].val = 0 => t[k].unit = "s")
    /\ \A k \in 2 .. Len(t) :
          t[k].val * Seconds(t[k].unit) < Seconds(t[k - 1].unit)

\* v of the unit u are less than one of each of units.
Smaller(v, u, units) == \A w \in units : v * Seconds(u) < Seconds(w)

With(t, v, u) == t \o <<[val |-> v, unit |-> u]>>

\* s has v of the unit u, and what t has of the other units.
Adds(s, t, v, u) ==
    /\ AmountIn(s, u) = v
    /\ \A w \in Units \ {u} : AmountIn(s, w) = AmountIn(t, w)

\* Only the last part has the unit u.
OnlyLast(t, u) == \A k \in 1 .. Len(t) : t[k].unit = u => k = Len(t)

LEMMA SecondsOf ==
    /\ Seconds("d") = day /\ Seconds("h") = hour
    /\ Seconds("m") = minute /\ Seconds("s") = 1
BY DEF Seconds

\* A part of another unit is written behind them.
LEMMA PartWritten ==
    ASSUME NEW t, NEW units \in SUBSET Units, Good(t, units),
           NEW u \in Units \ units, NEW v \in Nat, v = 0 => u = "s",
           Smaller(v, u, units),
           NEW s, s = With(t, v, u)
    PROVE  /\ Good(s, units \cup {u})
           /\ Adds(s, t, v, u)
           /\ OnlyLast(s, u)
<1> DEFINE P == [val : Nat, unit : Units]
           p == [val |-> v, unit |-> u]
<1>1. /\ t \in Seq(P) /\ <<p>> \in Seq(P) /\ Len(<<p>>) = 1 /\ <<p>>[1] = p
      /\ Len(t) \in Nat
  BY DEF Good
<1> HIDE DEF P
<1>2. /\ s \in Seq(P) /\ Len(s) = Len(t) + 1
      /\ \A k \in 1 .. Len(t) + 1 : s[k] = IF k <= Len(t) THEN t[k] ELSE p
  <2>1. /\ s \in Seq(P) /\ Len(s) = Len(t) + 1
        /\ \A k \in 1 .. Len(t) + 1 :
              s[k] = IF k <= Len(t) THEN t[k] ELSE <<p>>[k - Len(t)]
    BY <1>1, ConcatProperties DEF With
  <2> QED
    BY <1>1, <2>1
<1>3. p.val = v /\ p.unit = u
  OBVIOUS
<1>4. /\ \A k \in 1 .. Len(t) : s[k] = t[k]
      /\ s[Len(t) + 1].val = v /\ s[Len(t) + 1].unit = u
      /\ DOMAIN s = 1 .. Len(t) + 1 /\ DOMAIN t = 1 .. Len(t)
  <2> HIDE DEF p
  <2> QED
    BY <1>1, <1>2, <1>3
<1>5. \A k \in 1 .. Len(t) : t[k].unit \in units
  BY DEF Good
<1>6. Good(s, units \cup {u})
  <2>1. ASSUME NEW k \in 1 .. Len(s)
        PROVE  s[k].unit \in units \cup {u} /\ (s[k].val = 0 => s[k].unit = "s")
    <3>1. CASE k = Len(t) + 1
      BY <1>4, <3>1
    <3>2. CASE k \in 1 .. Len(t)
      BY <1>4, <3>2 DEF Good
    <3> QED
      BY <1>1, <1>2, <3>1, <3>2
  <2>2. ASSUME NEW k \in 2 .. Len(s)
        PROVE  s[k].val * Seconds(s[k].unit) < Seconds(s[k - 1].unit)
    <3>1. k - 1 \in 1 .. Len(t) /\ s[k - 1] = t[k - 1]
      BY <1>1, <1>2, <1>4
    <3>2. CASE k = Len(t) + 1
      BY <1>4, <1>5, <3>1, <3>2 DEF Smaller
    <3>3. CASE k \in 2 .. Len(t)
      <4>1. s[k] = t[k]
        BY <1>4, <3>3
      <4> QED
        BY <3>1, <3>3, <4>1 DEF Good
    <3> QED
      BY <1>1, <1>2, <3>2, <3>3
  <2> QED
    BY <1>2, <2>1, <2>2 DEF Good, P
<1>7. AmountIn(s, u) = v
  <2>1. {k \in DOMAIN s : s[k].unit = u} = {Len(t) + 1}
    BY <1>1, <1>4, <1>5
  <2> QED
    BY <1>4, <2>1 DEF AmountIn
<1>8. ASSUME NEW w \in Units \ {u}
      PROVE  AmountIn(s, w) = AmountIn(t, w)
  <2> DEFINE ks == {k \in DOMAIN s : s[k].unit = w}
             kt == {k \in DOMAIN t : t[k].unit = w}
             c == CHOOSE k \in kt : TRUE
  <2>1. ks = kt
    BY <1>1, <1>4
  <2>2. /\ AmountIn(t, w) = IF kt = {} THEN 0 ELSE t[c].val
        /\ AmountIn(s, w) = IF ks = {} THEN 0 ELSE s[CHOOSE k \in ks : TRUE].val
    BY DEF AmountIn
  <2>3. kt # {} => c \in kt
    OBVIOUS
  <2>4. \A k \in kt : s[k] = t[k]
    BY <1>4
  <2> HIDE DEF ks, kt
  <2>5. AmountIn(s, w) = IF kt = {} THEN 0 ELSE s[c].val
    BY <2>1, <2>2
  <2> HIDE DEF c
  <2> QED
    BY <2>2, <2>3, <2>4, <2>5
<1>9. \A k \in 1 .. Len(s) : s[k].unit = u => k = Len(s)
  BY <1>1, <1>2, <1>4, <1>5
<1> QED
  BY <1>6, <1>7, <1>8, <1>9 DEF Adds, OnlyLast

\* The same for a unit that is left out if there is none of it.
LEMMA PartLeftOut ==
    ASSUME NEW t, NEW units \in SUBSET Units, Good(t, units),
           NEW u \in Units \ units, NEW v \in Nat,
           Smaller(v, u, units),
           NEW s, s = IF v > 0 THEN With(t, v, u) ELSE t
    PROVE  /\ Good(s, units \cup {u})
           /\ Adds(s, t, v, u)
<1>1. CASE v > 0
  <2>1. s = With(t, v, u)
    BY <1>1
  <2>2. v = 0 => u = "s"
    BY <1>1
  <2> QED
    BY <2>1, <2>2, PartWritten
<1>2. CASE v = 0
  <2>1. t \in Seq([val : Nat, unit : Units])
    BY DEF Good
  <2>2. s = t
    BY <1>2
  <2>3. Good(t, units \cup {u})
    BY DEF Good
  <2>4. {k \in DOMAIN t : t[k].unit = u} = {}
    BY <2>1 DEF Good
  <2>5. AmountIn(t, u) = 0
    BY <2>4 DEF AmountIn
  <2> QED
    BY <1>2, <2>2, <2>3, <2>5 DEF Adds
<1> QED
  BY <1>1, <1>2

LEMMA Quotient ==
    ASSUME NEW a \in Nat, NEW b \in Nat, b > 0
    PROVE  /\ a \div b \in Nat /\ a \div b <= a
           /\ a >= b <=> a \div b > 0
           /\ (a \div b) * b <= a /\ (a \div b) * b + (a % b) = a
           /\ a % b \in Nat /\ a % b < b
           /\ (IF a >= b THEN a % b ELSE a) = a % b
<1> DEFINE q == a \div b
           r == a % b
<1>1. q \in Nat /\ r \in Nat /\ r < b /\ q * b + r = a
  <2>1. q \in Nat /\ r \in 0 .. b - 1 /\ b * q + r = a
    BY DivMod
  <2> HIDE DEF q, r
  <2> QED
    BY <2>1
<1> HIDE DEF q, r
<1>2. q <= a /\ q * b <= a
  <2>1. q * 1 <= q * b
    BY <1>1, Monotone
  <2> QED
    BY <1>1, <2>1
<1>3. a >= b <=> q > 0
  <2>1. q > 0 => q * b >= b
    <3>1. q > 0 => b * 1 <= b * q
      BY <1>1, Monotone
    <3> QED
      BY <1>1, <3>1
  <2>2. q = 0 => a = r
    BY <1>1
  <2> QED
    BY <1>1, <2>1, <2>2
<1>4. (IF a >= b THEN r ELSE a) = r
  <2>1. CASE a >= b
    BY <2>1
  <2>2. CASE ~ (a >= b)
    <3>1. q = 0
      BY <1>1, <1>3, <2>2
    <3> QED
      BY <1>1, <2>2, <3>1
  <2> QED
    BY <2>1, <2>2
<1> QED
  BY <1>1, <1>2, <1>3, <1>4 DEF q, r

LEMMA Lengths ==
    /\ day \in Nat /\ hour \in Nat /\ minute \in Nat /\ Wrap \in Nat
    /\ 1 < minute /\ minute <= hour /\ hour <= day /\ day < Wrap
<1>1. /\ day \in Nat /\ hour \in Nat /\ minute \in Nat /\ Wrap \in Nat
      /\ 1 < day /\ 1 < hour /\ 1 < minute /\ day < Wrap
      /\ day % hour = 0 /\ hour % minute = 0
  BY NumbersAssumption
<1>2. hour <= day
  <2>1. ASSUME day < hour PROVE FALSE
    <3>1. day % hour = day
      BY <1>1, <2>1
    <3> QED
      BY <1>1, <3>1
  <2> QED
    BY <1>1, <2>1
<1>3. minute <= hour
  <2>1. ASSUME hour < minute PROVE FALSE
    <3>1. hour % minute = hour
      BY <1>1, <2>1
    <3> QED
      BY <1>1, <3>1
  <2> QED
    BY <1>1, <2>1
<1> QED
  BY <1>1, <1>2, <1>3

\* What one of the tests of uptime_print_human writes.
Tested(a, b, u) == IF a >= b THEN <<Part(a \div b, u)>> ELSE << >>

LEMMA OneUnit ==
    ASSUME NEW t \in Seq([val : Nat, unit : Units]), NEW u \in Units,
           NEW a \in Nat, a < Wrap, NEW b \in Nat, b > 0
    PROVE  t \o Tested(a, b, u)
              = IF a \div b > 0 THEN With(t, a \div b, u) ELSE t
<1>1. a >= b <=> a \div b > 0
  BY Quotient
<1>2. a \div b \in Nat /\ a \div b < Wrap
  BY Quotient, Lengths
<1>3. Part(a \div b, u) = [val |-> a \div b, unit |-> u]
  <2> DEFINE q == a \div b
  <2>1. q % Wrap = q
    <3> HIDE DEF q
    <3> QED
      BY <1>2, Lengths DEF q
  <2> QED
    BY <2>1 DEF Part
<1>4. CASE a >= b
  BY <1>1, <1>3, <1>4 DEF With, Tested
<1>5. CASE ~ (a >= b)
  <2>1. t \o << >> = t
    BY ConcatEmptySeq
  <2> QED
    BY <1>1, <1>5, <2>1 DEF Tested
<1> QED
  BY <1>4, <1>5

\* An uptime that is not below zero is split up, and nothing is lost.
LEMMA Uptime ==
    ASSUME NEW ut \in Nat, ut < Wrap, NEW t, t = uptime_print_human(ut)
    PROVE  /\ AmountIn(t, "d") * day + AmountIn(t, "h") * hour
                 + AmountIn(t, "m") * minute + AmountIn(t, "s") = ut
           /\ \A k \in 1 .. Len(t) : t[k].val = 0 => k = Len(t)
           /\ \A k \in 2 .. Len(t) :
                 t[k].val * Seconds(t[k].unit) < Seconds(t[k - 1].unit)
<1> DEFINE D == ut \div day
           u1 == ut % day
           H == u1 \div hour
           u2 == u1 % hour
           M == u2 \div minute
           S == u2 % minute
           t0 == << >>
           t1 == IF D > 0 THEN With(t0, D, "d") ELSE t0
           t2 == IF H > 0 THEN With(t1, H, "h") ELSE t1
           t3 == IF M > 0 THEN With(t2, M, "m") ELSE t2
           t4 == With(t3, S, "s")
<1>1. /\ D \in Nat /\ u1 \in Nat /\ u1 < day /\ D * day + u1 = ut
      /\ u1 = IF ut >= day THEN ut % day ELSE ut
  BY Lengths, Quotient
<1>2. /\ H \in Nat /\ u2 \in Nat /\ u2 < hour /\ H * hour + u2 = u1
      /\ H * hour <= u1 /\ u2 = IF u1 >= hour THEN u1 % hour ELSE u1
  <2> HIDE DEF u1
  <2>1. u1 \in Nat /\ hour \in Nat /\ hour > 0
    BY <1>1, Lengths
  <2> QED
    BY <2>1, Quotient
<1>3. /\ M \in Nat /\ S \in Nat /\ S < minute /\ M * minute + S = u2
      /\ M * minute <= u2 /\ S = IF u2 >= minute THEN u2 % minute ELSE u2
  <2> HIDE DEF u2
  <2>1. u2 \in Nat /\ minute \in Nat /\ minute > 0
    BY <1>2, Lengths
  <2> QED
    BY <2>1, Quotient
<1>4. Good(t0, {}) /\ AmountIn(t0, "d") = 0
  BY DEF Good, AmountIn
<1>5. Good(t1, {"d"}) /\ Adds(t1, t0, D, "d")
  <2> HIDE DEF D, t0
  <2>1. Smaller(D, "d", {})
    BY DEF Smaller
  <2>2. {} \cup {"d"} = {"d"} /\ {} \in SUBSET Units /\ "d" \in Units \ {}
    BY DEF Units
  <2>3. Good(t1, {} \cup {"d"}) /\ Adds(t1, t0, D, "d")
    BY <1>1, <1>4, <2>1, <2>2, PartLeftOut
  <2> QED
    BY <2>2, <2>3
<1>6. Good(t2, {"d", "h"}) /\ Adds(t2, t1, H, "h")
  <2> HIDE DEF H, t1
  <2>1. Smaller(H, "h", {"d"})
    BY <1>1, <1>2, Lengths, SecondsOf DEF Smaller
  <2>2. /\ {"d"} \cup {"h"} = {"d", "h"} /\ {"d"} \in SUBSET Units
        /\ "h" \in Units \ {"d"}
    BY DEF Units
  <2>3. Good(t2, {"d"} \cup {"h"}) /\ Adds(t2, t1, H, "h")
    BY <1>2, <1>5, <2>1, <2>2, PartLeftOut
  <2> QED
    BY <2>2, <2>3
<1>7. Good(t3, {"d", "h", "m"}) /\ Adds(t3, t2, M, "m")
  <2> HIDE DEF M, t2
  <2>1. Smaller(M, "m", {"d", "h"})
    <3>1. M * minute < hour /\ M * minute < day
      <4> DEFINE x == M * minute
      <4>1. x \in Int /\ x <= u2
        BY <1>3, Lengths
      <4> HIDE DEF x, u2
      <4> QED
        BY <1>2, <4>1, Lengths DEF x
    <3> QED
      BY <3>1, SecondsOf DEF Smaller
  <2>2. /\ {"d", "h"} \cup {"m"} = {"d", "h", "m"} /\ {"d", "h"} \in SUBSET Units
        /\ "m" \in Units \ {"d", "h"}
    BY DEF Units
  <2>3. Good(t3, {"d", "h"} \cup {"m"}) /\ Adds(t3, t2, M, "m")
    BY <1>3, <1>6, <2>1, <2>2, PartLeftOut
  <2> QED
    BY <2>2, <2>3
<1>8. Good(t4, Units) /\ Adds(t4, t3, S, "s") /\ OnlyLast(t4, "s")
  <2> HIDE DEF S, t3
  <2>1. Smaller(S, "s", {"d", "h", "m"})
    <3>1. S * 1 = S /\ S < minute /\ S < hour /\ S < day
      BY <1>3, Lengths
    <3> QED
      BY <3>1, SecondsOf DEF Smaller
  <2>2. /\ {"d", "h", "m"} \cup {"s"} = Units /\ {"d", "h", "m"} \in SUBSET Units
        /\ "s" \in Units \ {"d", "h", "m"}
    BY DEF Units
  <2>3. t4 = With(t3, S, "s")
    OBVIOUS
  <2> HIDE DEF t4
  <2>4. /\ Good(t4, {"d", "h", "m"} \cup {"s"}) /\ Adds(t4, t3, S, "s")
        /\ OnlyLast(t4, "s")
    BY <1>3, <1>7, <2>1, <2>2, <2>3, PartWritten
  <2> QED
    BY <2>2, <2>4
<1>9. t = t4
  <2>1. t0 \in Seq([val : Nat, unit : Units])
    BY <1>4 DEF Good
  <2>2. t = ((Tested(ut, day, "d") \o Tested(u1, hour, "h"))
                 \o Tested(u2, minute, "m")) \o <<Part(S, "s")>>
    <3> HIDE DEF u1, u2, S, D, H, M
    <3> QED
      BY <1>1, <1>2, <1>3 DEF uptime_print_human, Tested, u1, u2, S
  <2>3. Tested(ut, day, "d") = t1
    <3>1. day \in Nat /\ day > 0
      BY Lengths
    <3>2. t0 \o Tested(ut, day, "d") = t1
      BY <2>1, <3>1, OneUnit DEF Units
    <3>3. \A p : << >> \o <<p>> = <<p>>
      OBVIOUS
    <3> QED
      BY <3>2, <3>3 DEF Tested
  <2>4. t1 \o Tested(u1, hour, "h") = t2
    <3> HIDE DEF t1, u1
    <3>1. /\ t1 \in Seq([val : Nat, unit : Units])
          /\ u1 \in Nat /\ u1 < Wrap /\ hour \in Nat /\ hour > 0
      BY <1>1, <1>5, Lengths DEF Good
    <3>2. "h" \in Units
      BY DEF Units
    <3> QED
      BY <3>1, <3>2, OneUnit
  <2>5. t2 \o Tested(u2, minute, "m") = t3
    <3> HIDE DEF t2, u2
    <3>1. /\ t2 \in Seq([val : Nat, unit : Units])
          /\ u2 \in Nat /\ u2 < Wrap /\ minute \in Nat /\ minute > 0
      BY <1>2, <1>6, Lengths DEF Good
    <3>2. "m" \in Units
      BY DEF Units
    <3> QED
      BY <3>1, <3>2, OneUnit
  <2>6. t3 \o <<Part(S, "s")>> = t4
    <3>1. S % Wrap = S
      <4> HIDE DEF S
      <4> QED
        BY <1>3, Lengths
    <3> HIDE DEF t3, S
    <3> QED
      BY <3>1 DEF Part, With
  <2> HIDE DEF t0, t1, t2, t3, t4, u1, u2, S
  <2> QED
    BY <2>2, <2>3, <2>4, <2>5, <2>6
<1> HIDE DEF t0, t1, t2, t3, t4, D, H, M, S, u1, u2
<1>10. /\ AmountIn(t, "d") = D /\ AmountIn(t, "h") = H
       /\ AmountIn(t, "m") = M /\ AmountIn(t, "s") = S
  BY <1>5, <1>6, <1>7, <1>8, <1>9 DEF Adds, Units
<1>11. D * day + H * hour + M * minute + S = ut
  BY <1>1, <1>2, <1>3, Lengths
<1> QED
  BY <1>8, <1>9, <1>10, <1>11 DEF Good, OnlyLast

\* An uptime below zero is written as seconds, modulo Wrap.
LEMMA UptimeBelowZero ==
    ASSUME NEW ut \in Int, ut < 0, NEW t, t = uptime_print_human(ut)
    PROVE  /\ AmountIn(t, "d") * day + AmountIn(t, "h") * hour
                 + AmountIn(t, "m") * minute + AmountIn(t, "s") = ut % Wrap
           /\ Len(t) = 1
<1> DEFINE p == Part(ut, "s")
<1>1. ~ (ut >= day) /\ ~ (ut >= hour) /\ ~ (ut >= minute)
  BY Lengths
<1>2. t = ((<< >> \o << >>) \o << >>) \o <<p>>
  <2> HIDE DEF p
  <2> QED
    BY <1>1 DEF uptime_print_human, p
<1>3. \A x : ((<< >> \o << >>) \o << >>) \o <<x>> = <<x>>
  OBVIOUS
<1>4. t = <<p>>
  BY <1>2, <1>3
<1>5. DOMAIN t = {1} /\ Len(t) = 1 /\ t[1].unit = "s" /\ t[1].val = ut % Wrap
  BY <1>4 DEF Part
<1> HIDE DEF p
<1>6. AmountIn(t, "d") = 0 /\ AmountIn(t, "h") = 0 /\ AmountIn(t, "m") = 0
  <2>1. \A u \in {"d", "h", "m"} : {k \in DOMAIN t : t[k].unit = u} = {}
    BY <1>5
  <2> QED
    BY <2>1 DEF AmountIn
<1>7. AmountIn(t, "s") = ut % Wrap
  <2>1. {k \in DOMAIN t : t[k].unit = "s"} = {1}
    BY <1>5
  <2> QED
    BY <1>5, <2>1 DEF AmountIn
<1>8. 0 * day + 0 * hour + 0 * minute + (ut % Wrap) = ut % Wrap
  <2>1. ut % Wrap \in Int
    BY Lengths
  <2> QED
    BY <2>1, Lengths
<1> QED
  BY <1>5, <1>6, <1>7, <1>8

-----------------------------------------------------------------------------
(***************************************************************************)
(* The actions.  A call is one of Calls, and it is not changed.            *)
(***************************************************************************)

IsCall == call \in Calls

LEMMA CallKept == IsCall /\ [Next]_vars => IsCall' /\ call' = call
<1> SUFFICES ASSUME IsCall, [Next]_vars PROVE call' = call
  BY DEF IsCall
<1> QED
  BY DEF Next, vars, Returned, PrintLoad, PrintRatio, PrintHuman, PrintUptime,
         PrintSmall, Color8, Xterm256, PrintRgb, Called

\* A step is one of the print functions, or changes nothing.
LEMMA OnePrints ==
    ASSUME [Next]_vars
    PROVE  \/ UNCHANGED vars
           \/ PrintLoad \/ PrintRatio \/ PrintHuman \/ PrintUptime
           \/ PrintSmall \/ Color8 \/ Xterm256 \/ PrintRgb
BY DEF Next, Returned

\* What load_print, fs_ratio_print and mem_ratio_print write is the value
\* rounded to two decimals, but for the carry that is lost.
THEOREM WrittenIsRounded == Spec => []WrongByCarryOnly
<1> DEFINE Inv == IsCall /\ WrongByCarryOnly
<1>1. Init => Inv
  BY DEF Init, IsCall, WrongByCarryOnly, Written
<1>2. Inv /\ [Next]_vars => Inv'
  <2> SUFFICES ASSUME Inv, [Next]_vars PROVE WrongByCarryOnly'
    BY CallKept
  <2>1. call' = call /\ call \in Calls
    BY CallKept DEF IsCall
  <2> DEFINE Goal(t, num, d) ==
        /\ Len(t.frac) = 2
        /\ \/ Near(num, d, Hundredths(t))
           \/ Near(num, d, Hundredths(t) + 100) /\ t.frac = <<0, 0>>
  <2>2. \A num, d \in Nat : d > 0 => Goal(write_double(num, d, 2), num, d)
    BY WriteDouble
  <2>3. WrongByCarryOnly' =
          (Written({"load"} \cup RatioRows)' =>
              Goal(out'[1], Fraction'[1], Fraction'[2]))
    BY DEF WrongByCarryOnly
  <2> HIDE DEF Goal
  <2>4. CASE UNCHANGED vars
    BY <2>4 DEF vars, WrongByCarryOnly, Written, Fraction
  <2>5. CASE PrintLoad
    <3>1. CASE call.val < 0
      BY <2>3, <2>5, <3>1 DEF PrintLoad, Stops, Written
    <3>2. CASE ~ (call.val < 0)
      <4>1. call.row = "load" /\ out' = <<write_double(call.val, den, 2)>>
        BY <2>5, <3>2 DEF PrintLoad, Writes, Called
      <4>2. call.val \in Nat
        BY <2>1, <3>2, <4>1, CallsAssumption DEF den
      <4>3. Fraction' = <<call.val, den>>
        BY <2>1, <4>1 DEF Fraction
      <4>4. Goal(write_double(call.val, den, 2), call.val, den)
        BY <2>2, <4>2 DEF den
      <4> QED
        BY <2>3, <4>1, <4>3, <4>4
    <3> QED
      BY <3>1, <3>2
  <2>6. CASE PrintRatio
    <3>1. call.row \in RatioRows /\ call.row # "load"
      BY <2>6 DEF PrintRatio, Called, RatioRows
    <3>2. call.free \in Nat /\ call.total \in Nat
      BY <2>1, <3>1, CallsAssumption
    <3>3. CASE call.total > 0
      <4>1. out' = <<write_double(call.free, call.total, 2)>>
        BY <2>6, <3>3 DEF PrintRatio, Writes
      <4>2. Fraction' = <<call.free, call.total>>
        BY <2>1, <3>1, <3>3 DEF Fraction
      <4>3. Goal(write_double(call.free, call.total, 2), call.free, call.total)
        BY <2>2, <3>2, <3>3
      <4> QED
        BY <2>3, <4>1, <4>2, <4>3
    <3>4. CASE ~ (call.total > 0) /\ call.row = "fsr"
      <4>1. out' = <<write_double(0, 1, 2)>>
        BY <2>6, <3>4 DEF PrintRatio, Writes
      <4>2. Fraction' = <<0, 1>>
        BY <2>1, <3>1, <3>2, <3>4 DEF Fraction
      <4>3. Goal(write_double(0, 1, 2), 0, 1)
        BY <2>2
      <4> QED
        BY <2>3, <4>1, <4>2, <4>3
    <3>5. CASE ~ (call.total > 0) /\ call.row # "fsr"
      BY <2>3, <2>6, <3>5 DEF PrintRatio, Stops, Written
    <3> QED
      BY <3>3, <3>4, <3>5
  <2>7. CASE PrintHuman \/ PrintUptime \/ PrintSmall \/ Color8 \/ Xterm256 \/ PrintRgb
    <3>1. call.row \notin {"load"} \cup RatioRows
      BY <2>7 DEF PrintHuman, PrintUptime, PrintSmall, Color8, Xterm256, PrintRgb,
                  Called, HumanRows, SmallRows, RatioRows, Rows8, Rows256, RowsRgb
    <3> QED
      BY <2>1, <2>3, <3>1 DEF Written
  <2> QED
    BY <2>4, <2>5, <2>6, <2>7, OnePrints
<1>3. Inv => WrongByCarryOnly
  OBVIOUS
<1> QED
  BY <1>1, <1>2, <1>3, PTL DEF Spec

\* The parts uptime_print_human writes add up to the uptime, for every length
\* of a day, an hour and a minute.
THEOREM UptimeAddsUp == Spec => []PartsAddUp
<1> DEFINE Inv == IsCall /\ PartsAddUp
<1>1. Init => Inv
  BY DEF Init, IsCall, PartsAddUp, Written
<1>2. Inv /\ [Next]_vars => Inv'
  <2> SUFFICES ASSUME Inv, [Next]_vars PROVE PartsAddUp'
    BY CallKept
  <2>1. call' = call /\ call \in Calls
    BY CallKept DEF IsCall
  <2>2. CASE UNCHANGED vars
    <3>1. UNCHANGED <<call, pc, out>>
      BY <2>2 DEF vars
    <3>2. \A unit : Amount(unit)' = Amount(unit)
      BY <3>1 DEF Amount
    <3> QED
      BY <3>1, <3>2 DEF PartsAddUp, Written
  <2>3. CASE PrintUptime
    <3>1. call.row = "ut+h" /\ out' = uptime_print_human(call.val)
      BY <2>3 DEF PrintUptime, Called, Writes
    <3>2. call.val \in Int /\ -Wrap <= call.val /\ call.val < Wrap
      BY <2>1, <3>1, CallsAssumption
    <3> DEFINE ut == call.val
               t == uptime_print_human(ut)
    <3>3. \A unit : Amount(unit)' = AmountIn(out', unit)
      BY DEF Amount, AmountIn
    <3>4. /\ AmountIn(t, "d") * day + AmountIn(t, "h") * hour
                + AmountIn(t, "m") * minute + AmountIn(t, "s") = ut % Wrap
          /\ \A k \in 1 .. Len(t) : t[k].val = 0 => k = Len(t)
          /\ \A k \in 2 .. Len(t) :
                t[k].val * Seconds(t[k].unit) < Seconds(t[k - 1].unit)
      <4>1. CASE ut >= 0
        <5>1. ut \in Nat /\ ut % Wrap = ut
          BY <3>2, <4>1, Lengths
        <5> HIDE DEF ut
        <5> QED
          BY <3>2, <5>1, Uptime DEF ut
      <4>2. CASE ut < 0
        <5> HIDE DEF ut
        <5>1. Len(t) = 1
          BY <3>2, <4>2, UptimeBelowZero DEF ut
        <5>2. AmountIn(t, "d") * day + AmountIn(t, "h") * hour
                + AmountIn(t, "m") * minute + AmountIn(t, "s") = ut % Wrap
          BY <3>2, <4>2, UptimeBelowZero DEF ut
        <5> HIDE DEF t
        <5> QED
          BY <5>1, <5>2
      <4> QED
        BY <3>2, <4>1, <4>2
    <3> HIDE DEF t
    <3> QED
      BY <2>1, <3>1, <3>3, <3>4 DEF PartsAddUp, t, ut
  <2>4. CASE PrintLoad \/ PrintRatio \/ PrintHuman \/ PrintSmall \/ Color8
                \/ Xterm256 \/ PrintRgb
    <3>1. call.row # "ut+h"
      BY <2>4 DEF PrintLoad, PrintRatio, PrintHuman, PrintSmall, Color8, Xterm256,
                  PrintRgb, Called, HumanRows, SmallRows, RatioRows, Rows8, Rows256,
                  RowsRgb
    <3> QED
      BY <2>1, <3>1 DEF PartsAddUp, Written
  <2> QED
    BY <2>2, <2>3, <2>4, OnePrints
<1>3. Inv => PartsAddUp
  OBVIOUS
<1> QED
  BY <1>1, <1>2, <1>3, PTL DEF Spec

-----------------------------------------------------------------------------
(***************************************************************************)
(* The colors of eight.                                                    *)
(***************************************************************************)

\* The string of color8 for a digit and a row.
LEMMA ColorOf ==
    ASSUME NEW row \in Rows8, NEW i \in 0 .. 7
    PROVE  color8(4 * i + offset[row]) =
              [layer |-> IF row \in {"8#", "8*"} THEN 3 ELSE 4,
               color |-> i,
               bright |-> row \in {"8*", "B*"}]
<1>1. \A o \in 0 .. 3 : (4 * i + o) % 4 = o /\ (4 * i + o) \div 4 = i
  OBVIOUS
<1>2. offset[row] = CASE row = "8#" -> 0 [] row = "8*" -> 1
                      [] row = "B#" -> 2 [] row = "B*" -> 3
  BY DEF offset
<1>3. CASE row = "8#"
  BY <1>1, <1>2, <1>3 DEF color8
<1>4. CASE row = "8*"
  BY <1>1, <1>2, <1>4 DEF color8
<1>5. CASE row = "B#"
  BY <1>1, <1>2, <1>5 DEF color8
<1>6. CASE row = "B*"
  BY <1>1, <1>2, <1>6 DEF color8
<1> QED
  BY <1>3, <1>4, <1>5, <1>6 DEF Rows8

LEMMA LastIsChar ==
    ASSUME NEW row, NEW tail \in Seq(Char)
    PROVE  LastChar(row, tail) \in Char
<1>1. CASE tail = << >>
  BY <1>1 DEF LastChar, Char
<1>2. CASE tail # << >>
  <2>1. Len(tail) \in 1 .. Len(tail)
    BY <1>2, EmptySeq
  <2>2. tail[Len(tail)] \in Char
    BY <2>1, ElementOfSeq
  <2> QED
    BY <1>2, <2>2 DEF LastChar, Last
<1> QED
  BY <1>1, <1>2

\* The last digit of the argument is the color of the layer that the row
\* names; only an 8 leaves the array.
THEOREM ColorShown == Spec => []RightColor
<1> DEFINE Inv == IsCall /\ RightColor
<1>1. Init => Inv
  BY DEF Init, IsCall, RightColor, Printed
<1>2. Inv /\ [Next]_vars => Inv'
  <2> SUFFICES ASSUME Inv, [Next]_vars PROVE RightColor'
    BY CallKept
  <2>1. call' = call /\ call \in Calls
    BY CallKept DEF IsCall
  <2>2. CASE UNCHANGED vars
    BY <2>2 DEF vars, RightColor, Printed
  <2>3. CASE Color8
    <3> DEFINE c == LastChar(call.row, call.tail)
               i == c - 48
    <3>1. call.row \in Rows8
      BY <2>3 DEF Color8, Called
    <3>2. c \in Char
      <4>1. call.tail \in Seq(Char)
        BY <2>1, <3>1, CallsAssumption
      <4> QED
        BY <4>1, LastIsChar
    <3>3. IF i < 0 \/ i > 8 THEN Writes(<< >>)
          ELSE IF i < 8 THEN Writes(<<color8(4 * i + offset[call.row])>>)
               ELSE Stops("overrun")
      BY <2>3 DEF Color8
    <3>4. RightColor' =
            (Printed(Rows8)' =>
               IF pc' = "overrun" THEN c = 56
               ELSE IF c \in 48 .. 55
               THEN out' = <<[layer |-> IF call.row \in {"8#", "8*"} THEN 3 ELSE 4,
                              color |-> i,
                              bright |-> call.row \in {"8*", "B*"}]>>
               ELSE out' = << >>)
      BY <2>1 DEF RightColor
    <3>5. CASE i < 0 \/ i > 8
      <4>1. out' = << >> /\ pc' = "done"
        BY <3>3, <3>5 DEF Writes
      <4>2. c \notin 48 .. 55
        <5> HIDE DEF c
        <5> QED
          BY <3>2, <3>5 DEF Char
      <4> HIDE DEF c, i
      <4> QED
        BY <3>4, <4>1, <4>2
    <3>6. CASE i \in 0 .. 7
      <4>1. i >= 0 /\ i < 8 /\ c \in 48 .. 55
        <5> HIDE DEF c
        <5> QED
          BY <3>2, <3>6 DEF Char
      <4>2. out' = <<color8(4 * i + offset[call.row])>> /\ pc' = "done"
        <5> HIDE DEF i
        <5> QED
          BY <3>3, <3>6, <4>1 DEF Writes
      <4>3. color8(4 * i + offset[call.row]) =
              [layer |-> IF call.row \in {"8#", "8*"} THEN 3 ELSE 4,
               color |-> i,
               bright |-> call.row \in {"8*", "B*"}]
        <5> HIDE DEF i
        <5> QED
          BY <3>1, <3>6, ColorOf
      <4> HIDE DEF c, i
      <4> QED
        BY <3>4, <4>1, <4>2, <4>3
    <3>7. CASE i = 8
      <4>1. c = 56
        <5> HIDE DEF c
        <5> QED
          BY <3>2, <3>7 DEF Char
      <4>2. pc' = "overrun"
        <5> HIDE DEF i
        <5> QED
          BY <3>3, <3>7 DEF Stops
      <4> HIDE DEF c, i
      <4> QED
        BY <3>4, <4>1, <4>2
    <3>8. i < 0 \/ i > 8 \/ i \in 0 .. 7 \/ i = 8
      <4> HIDE DEF c
      <4> QED
        BY <3>2 DEF Char
    <3> QED
      BY <3>5, <3>6, <3>7, <3>8
  <2>4. CASE PrintLoad \/ PrintRatio \/ PrintHuman \/ PrintUptime \/ PrintSmall
                \/ Xterm256 \/ PrintRgb
    <3>1. call.row \notin Rows8
      BY <2>4 DEF PrintLoad, PrintRatio, PrintHuman, PrintUptime, PrintSmall,
                  Xterm256, PrintRgb, Called, HumanRows, SmallRows, RatioRows,
                  Rows8, Rows256, RowsRgb
    <3> QED
      BY <2>1, <3>1 DEF RightColor, Printed
  <2> QED
    BY <2>2, <2>3, <2>4, OnePrints
<1>3. Inv => RightColor
  OBVIOUS
<1> QED
  BY <1>1, <1>2, <1>3, PTL DEF Spec

-----------------------------------------------------------------------------
(***************************************************************************)
(* write_uint64_human.                                                     *)
(***************************************************************************)

\* There is a function as scale is defined; it need not be found by induction,
\* since there is an end to the suffixes.
LEMMA Scales ==
    /\ DOMAIN scale = 0 .. 7
    /\ scale[0] = 1
    /\ \A k \in 1 .. 7 : scale[k] = base * scale[k - 1]
<1> DEFINE Body(f) == [k \in 0 .. sizeof_human_suf + 1 |->
                          IF k = 0 THEN 1 ELSE base * f[k - 1]]
           b2 == base * base
           b3 == base * b2
           b4 == base * b3
           b5 == base * b4
           b6 == base * b5
           b7 == base * b6
           g == [k \in 0 .. 7 |-> CASE k = 0 -> 1    [] k = 1 -> base
                                    [] k = 2 -> b2 [] k = 3 -> b3
                                    [] k = 4 -> b4 [] k = 5 -> b5
                                    [] k = 6 -> b6 [] k = 7 -> b7]
<1>1. 0 .. sizeof_human_suf + 1 = 0 .. 7
  BY DEF sizeof_human_suf
<1>2. \A k \in 0 .. 7 : g[k] = IF k = 0 THEN 1 ELSE base * g[k - 1]
  <2>1. base * 1 = base
    BY NumbersAssumption
  <2> HIDE DEF b2, b3, b4, b5, b6, b7
  <2>2. /\ g[0] = 1  /\ g[1] = base /\ g[2] = b2 /\ g[3] = b3
        /\ g[4] = b4 /\ g[5] = b5   /\ g[6] = b6 /\ g[7] = b7
    OBVIOUS
  <2> HIDE DEF g
  <2>3. /\ b2 = base * base /\ b3 = base * b2 /\ b4 = base * b3
        /\ b5 = base * b4   /\ b6 = base * b5 /\ b7 = base * b6
    BY DEF b2, b3, b4, b5, b6, b7
  <2>4. ASSUME NEW k \in 0 .. 7
        PROVE  g[k] = IF k = 0 THEN 1 ELSE base * g[k - 1]
    <3>1. \/ k = 0
          \/ k = 1 /\ k - 1 = 0
          \/ k = 2 /\ k - 1 = 1
          \/ k = 3 /\ k - 1 = 2
          \/ k = 4 /\ k - 1 = 3
          \/ k = 5 /\ k - 1 = 4
          \/ k = 6 /\ k - 1 = 5
          \/ k = 7 /\ k - 1 = 6
      OBVIOUS
    <3> QED
      BY <2>1, <2>2, <2>3, <3>1
  <2> QED
    BY <2>4
<1>3. g = Body(g)
  <2>1. g = [k \in 0 .. 7 |-> g[k]]
    OBVIOUS
  <2> HIDE DEF g
  <2>2. [k \in 0 .. 7 |-> g[k]]
           = [k \in 0 .. 7 |-> IF k = 0 THEN 1 ELSE base * g[k - 1]]
    BY <1>2
  <2> QED
    BY <1>1, <2>1, <2>2
<1>4. scale = CHOOSE f : f = Body(f)
  BY DEF scale
<1> HIDE DEF Body, g
<1>5. scale = Body(scale)
  BY <1>3, <1>4
<1>6. scale = [k \in 0 .. 7 |-> IF k = 0 THEN 1 ELSE base * scale[k - 1]]
  BY <1>1, <1>5 DEF Body
<1>7. DOMAIN scale = 0 .. 7
  BY <1>6
<1>8. \A k \in 0 .. 7 : scale[k] = IF k = 0 THEN 1 ELSE base * scale[k - 1]
  BY <1>6
<1> QED
  BY <1>7, <1>8

LEMMA ScalesPositive ==
    /\ \A k \in 0 .. 7 : scale[k] \in Nat /\ scale[k] > 0
<1> DEFINE P(k) == scale[k] \in Nat /\ scale[k] > 0
<1>1. P(0)
  BY Scales
<1>2. ASSUME NEW k \in 1 .. 7, P(k - 1) PROVE P(k)
  <2>1. scale[k] = base * scale[k - 1]
    BY Scales
  <2>2. base \in Nat /\ base > 0
    BY NumbersAssumption
  <2>3. \A a, b \in Nat : a > 0 /\ b > 0 => a * b \in Nat /\ a * b > 0
    OBVIOUS
  <2> QED
    BY <1>2, <2>1, <2>2, <2>3
<1> HIDE DEF P
<1>3. P(1) /\ P(2) /\ P(3) /\ P(4) /\ P(5) /\ P(6) /\ P(7)
  <2>1. P(1)
    BY <1>1, <1>2
  <2>2. P(2)
    BY <1>2, <2>1
  <2>3. P(3)
    BY <1>2, <2>2
  <2>4. P(4)
    BY <1>2, <2>3
  <2>5. P(5)
    BY <1>2, <2>4
  <2>6. P(6)
    BY <1>2, <2>5
  <2>7. P(7)
    BY <1>2, <2>6
  <2> QED
    BY <2>1, <2>2, <2>3, <2>4, <2>5, <2>6, <2>7
<1>4. \A k \in 0 .. 7 : P(k)
  BY <1>1, <1>3
<1> QED
  BY <1>4 DEF P

\* v is big after k rounds exactly if the size is twice the next scale.
LEMMA BigMeans ==
    ASSUME NEW v \in Nat, NEW p \in Nat, p > 0, NEW b \in Nat, b > 0
    PROVE  /\ (v \div p) \div b > 1 <=> v >= 2 * (b * p)
           /\ (v \div p) \div b > 1 <=> v \div p >= 2 * b
<1> DEFINE q == v \div p
           r == v % p
           q2 == q \div b
           r2 == q % b
<1>1. q \in Nat /\ r \in Nat /\ r < p /\ q * p + r = v
  BY Quotient
<1>2. q2 \in Nat /\ r2 \in Nat /\ r2 < b /\ q2 * b + r2 = q
  <2> HIDE DEF q
  <2> QED
    BY <1>1, Quotient
<1> HIDE DEF q, r, q2, r2
<1>3. q2 > 1 <=> q >= 2 * b
  <2>1. q2 >= 2 => b * 2 <= b * q2
    BY <1>2, Monotone
  <2>2. q2 <= 1 => b * q2 <= b * 1
    BY <1>2, Monotone
  <2> QED
    BY <1>2, <2>1, <2>2
<1>4. q >= 2 * b <=> v >= 2 * (b * p)
  <2>1. q >= 2 * b => p * (2 * b) <= p * q
    BY <1>1, Monotone
  <2>2. q + 1 <= 2 * b => p * (q + 1) <= p * (2 * b)
    BY <1>1, Monotone
  <2>3. p * (2 * b) = 2 * (b * p) /\ p * (q + 1) = q * p + p /\ p * q = q * p
    BY <1>1
  <2> QED
    BY <1>1, <2>1, <2>2, <2>3
<1> QED
  BY <1>3, <1>4 DEF q, q2

\* The loop ends at the last suffix, with a number that is not big any more.
LEMMA RoundsEnd ==
    ASSUME NEW v \in Nat, v < 2 * scale[5], NEW k, k = Rounds(v)
    PROVE  k \in 0 .. 4 /\ ~ Big(v, k) /\ (k > 0 => Big(v, k - 1))
<1> DEFINE K == {j \in 0 .. 7 : \A i \in 0 .. j - 1 : Big(v, i)}
<1>1. k = Max(K)
  BY Scales DEF Rounds
<1>2. 0 \in K /\ K \subseteq 0 .. 7
  OBVIOUS
<1>3. ~ Big(v, 4)
  <2>1. scale[5] = base * scale[4] /\ scale[4] \in Nat /\ scale[4] > 0
    BY Scales, ScalesPositive
  <2>2. base \in Nat /\ base > 0
    BY NumbersAssumption
  <2> QED
    BY <2>1, <2>2, BigMeans DEF Big, min
<1>4. K \subseteq 0 .. 4
  BY <1>3
<1>5. \E m \in K : \A j \in K : j <= m
  <2> DEFINE Top(m) == m \in K /\ \A j \in K : j <= m
  <2>1. \A j \in K : j \in Nat /\ (j = 0 \/ j = 1 \/ j = 2 \/ j = 3 \/ j = 4)
    BY <1>4
  <2> HIDE DEF K
  <2>2. CASE 4 \in K
    BY <2>1, <2>2
  <2>3. CASE 4 \notin K /\ 3 \in K
    BY <2>1, <2>3
  <2>4. CASE 4 \notin K /\ 3 \notin K /\ 2 \in K
    BY <2>1, <2>4
  <2>5. CASE 4 \notin K /\ 3 \notin K /\ 2 \notin K /\ 1 \in K
    BY <2>1, <2>5
  <2>6. CASE 4 \notin K /\ 3 \notin K /\ 2 \notin K /\ 1 \notin K
    BY <1>2, <2>1, <2>6
  <2> QED
    BY <2>2, <2>3, <2>4, <2>5, <2>6
<1>6. k \in K /\ \A j \in K : j <= k
  <2> HIDE DEF K
  <2>1. k = CHOOSE x \in K : \A y \in K : x >= y
    BY <1>1 DEF Max
  <2>2. \E m \in K : \A y \in K : m >= y
    BY <1>2, <1>5
  <2>3. k \in K /\ \A y \in K : k >= y
    BY <2>1, <2>2
  <2> QED
    BY <1>2, <2>3
<1>7. k \in 0 .. 4
  BY <1>4, <1>6
<1>8. ~ Big(v, k)
  <2> SUFFICES ASSUME Big(v, k) PROVE FALSE
    OBVIOUS
  <2>1. k + 1 \in K
    <3>1. \A i \in 0 .. k - 1 : Big(v, i)
      BY <1>6
    <3>2. \A i \in 0 .. k : i \in 0 .. k - 1 \/ i = k
      BY <1>7
    <3>3. \A i \in 0 .. k : Big(v, i)
      BY <3>1, <3>2
    <3>4. (k + 1) - 1 = k /\ k + 1 \in 0 .. 7
      BY <1>7
    <3> QED
      BY <3>3, <3>4
  <2> HIDE DEF K
  <2> QED
    BY <1>6, <1>7, <2>1
<1>9. k > 0 => Big(v, k - 1)
  <2>1. k > 0 => k - 1 \in 0 .. k - 1
    BY <1>7
  <2> QED
    BY <1>6, <2>1
<1> QED
  BY <1>7, <1>8, <1>9

LEMMA WriteHuman ==
    ASSUME NEW v \in Nat, v < 2 * scale[5],
           NEW t, t = write_uint64_human(v)
    PROVE  /\ t.suf \in 0 .. 4
           /\ t.number.int = v \div scale[t.suf]
           /\ t.number.int < 2 * base
           /\ t.suf > 0 => t.number.int >= 2
<1> DEFINE k == Rounds(v)
<1>1. t.suf = k /\ t.number.int = v \div scale[k]
  <2> HIDE DEF k
  <2>1. t = [number |-> write_double(v, scale[k], 2), suf |-> k]
    BY DEF write_uint64_human, k
  <2>2. write_double(v, scale[k], 2).int = v \div scale[k]
    BY DEF write_double
  <2> QED
    BY <2>1, <2>2
<1>2. k \in 0 .. 4 /\ ~ Big(v, k) /\ (k > 0 => Big(v, k - 1))
  BY RoundsEnd
<1> HIDE DEF k
<1>3. base \in Nat /\ base > 0
  BY NumbersAssumption
<1>4. scale[k] \in Nat /\ scale[k] > 0
  BY <1>2, ScalesPositive
<1>5. v \div scale[k] < 2 * base
  <2>1. ~ ((v \div scale[k]) \div base > 1)
    BY <1>2 DEF Big, min
  <2>2. ~ (v \div scale[k] >= 2 * base)
    BY <1>3, <1>4, <2>1, BigMeans
  <2>3. v \div scale[k] \in Nat
    BY <1>4, Quotient
  <2> DEFINE q == v \div scale[k]
  <2> HIDE DEF q
  <2> QED
    BY <1>3, <2>2, <2>3 DEF q
<1>6. ASSUME k > 0 PROVE v \div scale[k] >= 2
  <2>1. k \in 1 .. 7 /\ k - 1 \in 0 .. 7
    BY <1>2, <1>6
  <2>2. scale[k - 1] \in Nat /\ scale[k - 1] > 0 /\ scale[k] = base * scale[k - 1]
    BY <2>1, Scales, ScalesPositive
  <2>3. (v \div scale[k - 1]) \div base > 1
    BY <1>2, <1>6 DEF Big, min
  <2>4. v >= 2 * scale[k]
    BY <1>3, <2>2, <2>3, BigMeans
  <2> DEFINE q == v \div scale[k]
             r == v % scale[k]
  <2>5. q \in Nat /\ r \in Nat /\ r < scale[k] /\ q * scale[k] + r = v
    BY <1>4, Quotient
  <2> HIDE DEF q, r
  <2>6. q <= 1 => scale[k] * q <= scale[k] * 1
    BY <1>4, <2>5, Monotone
  <2>7. q >= 2
    BY <1>4, <2>4, <2>5, <2>6
  <2> QED
    BY <2>7 DEF q
<1> QED
  BY <1>1, <1>2, <1>5, <1>6

\* mem_total_human_print, fs_total_human_print and their like: the loop over
\* the suffixes stays within the array for what is below 2 * base^5.
THEOREM SuffixIsUnit == Spec => []SuffixNamesUnit
<1> DEFINE Inv == IsCall /\ SuffixNamesUnit
<1>1. Init => Inv
  BY DEF Init, IsCall, SuffixNamesUnit, Written
<1>2. Inv /\ [Next]_vars => Inv'
  <2> SUFFICES ASSUME Inv, [Next]_vars PROVE SuffixNamesUnit'
    BY CallKept
  <2>1. call' = call /\ call \in Calls
    BY CallKept DEF IsCall
  <2>2. CASE UNCHANGED vars
    BY <2>2 DEF vars, SuffixNamesUnit, Written
  <2>3. CASE PrintHuman
    <3>1. call.row \in HumanRows /\ out' = <<write_uint64_human(call.val)>>
      BY <2>3 DEF PrintHuman, Called, Writes
    <3>2. call.val \in Nat
      BY <2>1, <3>1, CallsAssumption
    <3>3. out'[1] = write_uint64_human(call.val)
      BY <3>1
    <3> QED
      BY <2>1, <3>2, <3>3, WriteHuman DEF SuffixNamesUnit
  <2>4. CASE PrintLoad \/ PrintRatio \/ PrintUptime \/ PrintSmall \/ Color8
                \/ Xterm256 \/ PrintRgb
    <3>1. call.row \notin HumanRows
      BY <2>4 DEF PrintLoad, PrintRatio, PrintUptime, PrintSmall, Color8, Xterm256,
                  PrintRgb, Called, HumanRows, SmallRows, RatioRows, Rows8, Rows256,
                  RowsRgb
    <3> QED
      BY <2>1, <3>1 DEF SuffixNamesUnit, Written
  <2> QED
    BY <2>2, <2>3, <2>4, OnePrints
<1>3. Inv => SuffixNamesUnit
  OBVIOUS
<1> QED
  BY <1>1, <1>2, <1>3, PTL DEF Spec

-----------------------------------------------------------------------------
(***************************************************************************)
(* Scanning.  Induction over the natural numbers is replaced by the        *)
(* smallest interval that holds an exception: the library's theorem is     *)
(* about operators, which the provers cannot instantiate.                  *)
(***************************************************************************)

LEMMA Induction ==
    ASSUME NEW S \in SUBSET Nat, 0 \in S, \A m \in S : m + 1 \in S
    PROVE  Nat \subseteq S
<1> SUFFICES ASSUME NEW n \in Nat, n \notin S PROVE FALSE
  OBVIOUS
<1> DEFINE Bad == {1 .. m : m \in (1 .. n) \ S}
           I == 1 .. n
<1>1. IsFiniteSet(I)
  BY FS_Interval
<1>2. Bad \in SUBSET (SUBSET I) /\ Bad # {}
  <2>1. n \in (1 .. n) \ S
    OBVIOUS
  <2>2. \A m \in 1 .. n : 1 .. m \subseteq 1 .. n
    OBVIOUS
  <2> QED
    BY <2>1, <2>2
<1>3. IsWellFoundedOn(StrictSubsetOrdering(I), FiniteSubsetsOf(I))
  <2> HIDE DEF I
  <2> QED
    BY <1>1, FS_StrictSubsetOrderingWellFounded
<1>4. Bad \subseteq FiniteSubsetsOf(I)
  <2> HIDE DEF Bad, I
  <2> QED
    BY <1>1, <1>2, FS_Subset DEF FiniteSubsetsOf
<1>5. PICK R \in Bad : \A Q \in Bad : ~ (<<Q, R>> \in StrictSubsetOrdering(I))
  <2> HIDE DEF Bad, I
  <2> QED
    BY <1>2, <1>3, <1>4, WFMin
<1>6. PICK m \in (1 .. n) \ S : R = 1 .. m
  BY <1>5
<1>7. m - 1 \notin S
  <2>1. m - 1 + 1 = m
    BY <1>6
  <2> QED
    BY <1>6, <2>1
<1>8. m - 1 \in (1 .. n) \ S
  <2>1. m - 1 # 0
    BY <1>7
  <2>2. m - 1 \in 1 .. n
    BY <1>6, <2>1
  <2> QED
    BY <1>7, <2>2
<1>9. 1 .. m - 1 \in Bad
  BY <1>8
<1>10. 1 .. m - 1 \subseteq 1 .. m /\ 1 .. m - 1 # 1 .. m
  <2>1. m \in 1 .. m /\ m \notin 1 .. m - 1
    BY <1>6
  <2>2. 1 .. m - 1 \subseteq 1 .. m
    BY <1>6
  <2> QED
    BY <2>1, <2>2
<1>11. <<1 .. m - 1, R>> \in StrictSubsetOrdering(I)
  <2>1. 1 .. m - 1 \in SUBSET I /\ R \in SUBSET I
    BY <1>2, <1>5, <1>9
  <2> DEFINE Q == 1 .. m - 1
  <2>2. Q \subseteq R /\ Q # R /\ Q \in SUBSET I
    BY <1>6, <1>10, <2>1
  <2> HIDE DEF Q, I
  <2>3. <<Q, R>> \in StrictSubsetOrdering(I)
    BY <2>1, <2>2 DEF StrictSubsetOrdering
  <2> QED
    BY <2>3 DEF Q
<1> QED
  BY <1>5, <1>9, <1>11

LEMMA MaxOf ==
    ASSUME NEW b \in Nat, NEW K \in SUBSET (0 .. b), K # {}
    PROVE  Max(K) \in K /\ \A j \in K : j <= Max(K)
<1> DEFINE S == {c \in Nat : \A L \in SUBSET (0 .. c) :
                                L # {} => \E m \in L : \A j \in L : m >= j}
<1>1. 0 \in S
  <2>1. 0 .. 0 = {0}
    OBVIOUS
  <2>2. ASSUME NEW L \in SUBSET (0 .. 0), L # {} PROVE \E m \in L : \A j \in L : m >= j
    <3>1. 0 \in L /\ \A j \in L : j = 0
      BY <2>1, <2>2
    <3>2. 0 >= 0
      OBVIOUS
    <3> QED
      BY <3>1, <3>2
  <2> QED
    BY <2>2
<1>2. ASSUME NEW c \in S PROVE c + 1 \in S
  <2>1. ASSUME NEW L \in SUBSET (0 .. c + 1), L # {}
        PROVE  \E m \in L : \A j \in L : m >= j
    <3>1. CASE c + 1 \in L
      <4>1. \A j \in L : c + 1 >= j
        OBVIOUS
      <4> QED
        BY <3>1, <4>1
    <3>2. CASE c + 1 \notin L
      <4>1. \A j \in L : j \in 0 .. c
        BY <3>2
      <4>2. L \in SUBSET (0 .. c)
        BY <4>1
      <4> QED
        BY <2>1, <4>2
    <3> QED
      BY <3>1, <3>2
  <2> QED
    BY <2>1
<1>3. b \in S
  <2>1. S \in SUBSET Nat
    OBVIOUS
  <2> HIDE DEF S
  <2> QED
    BY <1>1, <1>2, <2>1, Induction
<1>4. \E m \in K : \A j \in K : m >= j
  BY <1>3
<1>5. Max(K) \in K /\ \A j \in K : Max(K) >= j
  BY <1>4 DEF Max
<1> QED
  BY <1>5

\* Scanned stops at the end or at the first character that has no value.
LEMMA ScannedIs ==
    ASSUME NEW t, Len(t) \in Nat, NEW Value, NEW n, n = Scanned(t, Value)
    PROVE  /\ n \in 0 .. Len(t)
           /\ \A j \in 1 .. n : Value[t[j]] # {}
           /\ n < Len(t) => Value[t[n + 1]] = {}
<1> DEFINE K == {k \in 0 .. Len(t) : \A j \in 1 .. k : Value[t[j]] # {}}
<1>1. n = Max(K)
  BY DEF Scanned
<1>2. K \in SUBSET (0 .. Len(t)) /\ 0 \in K
  OBVIOUS
<1>3. n \in K /\ \A k \in K : k <= n
  <2> HIDE DEF K
  <2> QED
    BY <1>1, <1>2, MaxOf
<1>4. ASSUME n < Len(t), Value[t[n + 1]] # {} PROVE FALSE
  <2>1. n + 1 \in 0 .. Len(t)
    BY <1>3, <1>4
  <2>2. \A j \in 1 .. n + 1 : j \in 1 .. n \/ j = n + 1
    BY <1>3
  <2>3. n + 1 \in K
    BY <1>3, <1>4, <2>1, <2>2
  <2> HIDE DEF K
  <2> QED
    BY <1>2, <1>3, <2>3
<1> QED
  BY <1>3, <1>4

AllHave(t, Value) == \A j \in 1 .. Len(t) : Value[t[j]] # {}

LEMMA AllScanned ==
    ASSUME NEW t, Len(t) \in Nat, NEW Value
    PROVE  Scanned(t, Value) = Len(t) <=> AllHave(t, Value)
<1> DEFINE n == Scanned(t, Value)
<1>1. /\ n \in 0 .. Len(t)
      /\ \A j \in 1 .. n : Value[t[j]] # {}
      /\ n < Len(t) => Value[t[n + 1]] = {}
  BY ScannedIs
<1> HIDE DEF n
<1>2. n < Len(t) => n + 1 \in 1 .. Len(t)
  BY <1>1
<1>3. n = Len(t) <=> AllHave(t, Value)
  BY <1>1, <1>2 DEF AllHave
<1> QED
  BY <1>3 DEF n

\* n[k] is the number of the first k characters.
Reads(n, t, Value, radix) ==
    n = [k \in 0 .. Len(t) |-> IF k = 0 THEN 0 ELSE radix * n[k - 1] + The(Value[t[k]])]

LEMMA NumberIs ==
    ASSUME NEW t, Len(t) \in Nat, NEW Value, NEW radix
    PROVE  \E n : Reads(n, t, Value, radix) /\ Number(t, Value, radix) = n[Len(t)]
<1> DEFINE Body(n, l) ==
              [k \in 0 .. l |-> IF k = 0 THEN 0 ELSE radix * n[k - 1] + The(Value[t[k]])]
           S == {l \in Nat : \E n : n = Body(n, l)}
<1>1. 0 \in S
  <2> DEFINE n == [k \in 0 .. 0 |-> 0]
  <2>1. n = Body(n, 0)
    OBVIOUS
  <2> HIDE DEF n, Body
  <2> QED
    BY <2>1
<1>2. ASSUME NEW l \in S PROVE l + 1 \in S
  <2>1. PICK n : n = Body(n, l)
    OBVIOUS
  <2> DEFINE m == [k \in 0 .. l + 1 |->
                     IF k <= l THEN n[k] ELSE radix * n[l] + The(Value[t[l + 1]])]
  <2>2. ASSUME NEW k \in 0 .. l + 1
        PROVE  m[k] = IF k = 0 THEN 0 ELSE radix * m[k - 1] + The(Value[t[k]])
    <3>1. CASE k = 0
      BY <2>1, <3>1
    <3>2. CASE k \in 1 .. l
      <4>1. k - 1 \in 0 .. l + 1 /\ k - 1 <= l /\ k <= l /\ k \in 0 .. l /\ k # 0
        BY <3>2
      <4>2. n[k] = radix * n[k - 1] + The(Value[t[k]])
        BY <2>1, <4>1
      <4>3. m[k] = n[k] /\ m[k - 1] = n[k - 1]
        BY <4>1
      <4> QED
        BY <4>1, <4>2, <4>3
    <3>3. CASE k = l + 1
      <4>1. k - 1 = l /\ ~ (k <= l) /\ k # 0 /\ l \in 0 .. l + 1
        BY <3>3
      <4>2. m[l] = n[l] /\ m[k] = radix * n[l] + The(Value[t[l + 1]])
        BY <3>3, <4>1
      <4> QED
        BY <3>3, <4>1, <4>2
    <3> QED
      BY <3>1, <3>2, <3>3
  <2>3. m = [k \in 0 .. l + 1 |-> m[k]]
    OBVIOUS
  <2> HIDE DEF m
  <2>4. m = Body(m, l + 1)
    BY <2>2, <2>3
  <2> HIDE DEF Body
  <2> QED
    BY <2>4
<1>3. \E n : n = Body(n, Len(t))
  <2>1. S \in SUBSET Nat
    OBVIOUS
  <2>2. Len(t) \in S
    <3> HIDE DEF S
    <3> QED
      BY <1>1, <1>2, <2>1, Induction
  <2> HIDE DEF Body
  <2> QED
    BY <2>2
<1> DEFINE c == CHOOSE n : n = Body(n, Len(t))
<1>4. Number(t, Value, radix) = c[Len(t)]
  BY DEF Number
<1>5. c = Body(c, Len(t))
  <2> HIDE DEF Body
  <2> QED
    BY <1>3
<1>6. Reads(c, t, Value, radix)
  <2> HIDE DEF c
  <2> QED
    BY <1>5 DEF Reads
<1> HIDE DEF c
<1> QED
  BY <1>4, <1>6

LEMMA ReadsStep ==
    ASSUME NEW t, Len(t) \in Nat, NEW Value, NEW radix, NEW n,
           Reads(n, t, Value, radix)
    PROVE  /\ n[0] = 0
           /\ \A k \in 1 .. Len(t) : n[k] = radix * n[k - 1] + The(Value[t[k]])
BY DEF Reads

LEMMA NumberInNat ==
    ASSUME NEW t, Len(t) \in Nat, NEW Value, NEW radix \in Nat,
           \A k \in 1 .. Len(t) : The(Value[t[k]]) \in Nat
    PROVE  Number(t, Value, radix) \in Nat
<1>1. PICK n : Reads(n, t, Value, radix) /\ Number(t, Value, radix) = n[Len(t)]
  BY NumberIs
<1> DEFINE S == {k \in Nat : k <= Len(t) => n[k] \in Nat}
<1>2. 0 \in S
  BY <1>1, ReadsStep
<1>3. ASSUME NEW k \in S PROVE k + 1 \in S
  <2>1. CASE k + 1 <= Len(t)
    <3>1. k + 1 \in 1 .. Len(t) /\ (k + 1) - 1 = k /\ n[k] \in Nat
      BY <2>1
    <3>2. n[k + 1] = radix * n[k] + The(Value[t[k + 1]])
      BY <1>1, <3>1, ReadsStep
    <3>3. The(Value[t[k + 1]]) \in Nat
      BY <3>1
    <3>4. \A a, b \in Nat : radix * a + b \in Nat
      OBVIOUS
    <3>5. n[k + 1] \in Nat
      BY <3>1, <3>2, <3>3, <3>4
    <3> QED
      BY <3>5
  <2>2. CASE ~ (k + 1 <= Len(t))
    BY <2>2
  <2> QED
    BY <2>1, <2>2
<1>4. Len(t) \in S
  <2>1. S \in SUBSET Nat
    OBVIOUS
  <2> HIDE DEF S
  <2> QED
    BY <1>2, <1>3, <2>1, Induction
<1> QED
  BY <1>1, <1>4

-----------------------------------------------------------------------------
(***************************************************************************)
(* The colors of 256.                                                      *)
(***************************************************************************)

IsPiece(p, s, m, n) ==
    /\ Len(p) = n - m + 1
    /\ \A j \in 1 .. n - m + 1 : p[j] = s[m + j - 1]

LEMMA PieceOf ==
    ASSUME NEW S, NEW s \in Seq(S), NEW m \in 1 .. Len(s) + 1,
           NEW n \in m - 1 .. Len(s), NEW p, p = SubSeq(s, m, n)
    PROVE  IsPiece(p, s, m, n)
<1>1. m \in Int /\ n \in Int /\ \A i \in m .. n : s[i] \in S
  OBVIOUS
<1>2. /\ Len(SubSeq(s, m, n)) = IF m <= n THEN n - m + 1 ELSE 0
      /\ \A j \in 1 .. n - m + 1 : SubSeq(s, m, n)[j] = s[m + j - 1]
  BY <1>1, SubSeqProperties
<1>3. (IF m <= n THEN n - m + 1 ELSE 0) = n - m + 1
  OBVIOUS
<1> QED
  BY <1>2, <1>3 DEF IsPiece

LEMMA TheOf == ASSUME NEW S, S # {} PROVE The(S) \in S
BY DEF The

LEMMA DigitValues ==
    ASSUME NEW c \in Char, Digit[c] # {}
    PROVE  The(Digit[c]) \in 0 .. 9
<1>1. Digit[c] \subseteq 0 .. 9
  BY DEF Digit
<1> QED
  BY <1>1, TheOf

\* The number that was compared is the number that is written, unless it does
\* not fit in an unsigned long.
LEMMA WrittenIsCompared ==
    ASSUME NEW tail \in Seq(Char), ~ (ulong(tail) >= 256),
           NEW t, t = SubSeq(tail, 1, scan_ulong(tail))
    PROVE  Number(t, Digit, 10) < WrapLong => Number(t, Digit, 10) < 256
<1> DEFINE n == scan_ulong(tail)
           x == Number(t, Digit, 10)
<1>1. Len(tail) \in Nat
  OBVIOUS
<1>2. n \in 0 .. Len(tail) /\ \A j \in 1 .. n : Digit[tail[j]] # {}
  BY <1>1, ScannedIs DEF scan_ulong
<1> HIDE DEF n
<1>3. Len(t) = n /\ \A j \in 1 .. n : t[j] = tail[j]
  <2>1. t = SubSeq(tail, 1, n)
    BY DEF n
  <2>2. 1 \in 1 .. Len(tail) + 1 /\ n \in 1 - 1 .. Len(tail) /\ n - 1 + 1 = n
    BY <1>1, <1>2
  <2>3. IsPiece(t, tail, 1, n)
    BY <2>1, <2>2, PieceOf
  <2>4. \A j \in 1 .. n : 1 + j - 1 = j
    OBVIOUS
  <2> QED
    BY <2>2, <2>3, <2>4 DEF IsPiece
<1>4. \A j \in 1 .. Len(t) : The(Digit[t[j]]) \in Nat
  <2> SUFFICES ASSUME NEW j \in 1 .. n PROVE The(Digit[tail[j]]) \in Nat
    BY <1>3
  <2>1. tail[j] \in Char
    BY <1>1, <1>2
  <2>2. The(Digit[tail[j]]) \in 0 .. 9
    BY <1>2, <2>1, DigitValues
  <2> QED
    BY <2>2
<1>5. x \in Nat
  <2>1. n \in Nat
    BY <1>1, <1>2
  <2>2. Len(t) \in Nat
    BY <1>3, <2>1
  <2> QED
    BY <1>4, <2>2, NumberInNat
<1>6. ~ (x % WrapLong >= 256)
  BY DEF ulong, n
<1> HIDE DEF x
<1>7. WrapLong \in Nat /\ WrapLong > 256
  BY ColorAssumption
<1>8. x < WrapLong => x < 256
  BY <1>5, <1>6, <1>7
<1> QED
  BY <1>8 DEF x

\* 256#n and 256*n write a number below 256 only, for texts of any length.
THEOREM NumberFits == Spec => []NumberBelow256
<1> DEFINE Inv == IsCall /\ NumberBelow256
<1>1. Init => Inv
  BY DEF Init, IsCall, NumberBelow256, Written
<1>2. Inv /\ [Next]_vars => Inv'
  <2> SUFFICES ASSUME Inv, [Next]_vars PROVE NumberBelow256'
    BY CallKept
  <2>1. call' = call /\ call \in Calls
    BY CallKept DEF IsCall
  <2>2. CASE UNCHANGED vars
    BY <2>2 DEF vars, NumberBelow256, Written
  <2>3. CASE Xterm256
    <3> DEFINE n == scan_ulong(call.tail)
    <3>1. call.row \in Rows256
      BY <2>3 DEF Xterm256, Called
    <3>2. call.tail \in Seq(Char)
      BY <2>1, <3>1, CallsAssumption
    <3>3. CASE n = 0 \/ ulong(call.tail) >= 256
      <4>1. out' = << >>
        BY <2>3, <3>3 DEF Xterm256, Writes
      <4> QED
        BY <4>1 DEF NumberBelow256
    <3>4. CASE ~ (n = 0 \/ ulong(call.tail) >= 256)
      <4>1. out' = <<SubSeq(call.tail, 1, n)>>
        BY <2>3, <3>4 DEF Xterm256, Writes
      <4>2. out'[1] = SubSeq(call.tail, 1, n)
        BY <4>1
      <4>3. ~ (ulong(call.tail) >= 256)
        BY <3>4
      <4>4. Number(out'[1], Digit, 10) < WrapLong => Number(out'[1], Digit, 10) < 256
        BY <3>2, <4>2, <4>3, WrittenIsCompared
      <4> QED
        BY <4>4 DEF NumberBelow256
    <3> QED
      BY <3>3, <3>4
  <2>4. CASE PrintLoad \/ PrintRatio \/ PrintHuman \/ PrintUptime \/ PrintSmall
                \/ Color8 \/ PrintRgb
    <3>1. call.row \notin Rows256
      BY <2>4 DEF PrintLoad, PrintRatio, PrintHuman, PrintUptime, PrintSmall,
                  Color8, PrintRgb, Called, HumanRows, SmallRows, RatioRows,
                  Rows8, Rows256, RowsRgb
    <3> QED
      BY <2>1, <3>1 DEF NumberBelow256, Written
  <2> QED
    BY <2>2, <2>3, <2>4, OnePrints
<1>3. Inv => NumberBelow256
  OBVIOUS
<1> QED
  BY <1>1, <1>2, <1>3, PTL DEF Spec

-----------------------------------------------------------------------------
(***************************************************************************)
(* Numbers of users and their ids, in six digits.                          *)
(***************************************************************************)

LEMMA TenPowers ==
    /\ 10 ^ 0 = 1 /\ 10 ^ 1 = 10 /\ 10 ^ 2 = 100 /\ 10 ^ 3 = 1000
    /\ 10 ^ 4 = 10000 /\ 10 ^ 5 = 100000 /\ 10 ^ 6 = 1000000
OBVIOUS

\* Ten times a power of ten, up to a million.
LEMMA TenTimes ==
    ASSUME NEW j \in 0 .. 5
    PROVE  10 ^ (j + 1) = 10 * 10 ^ j /\ 10 ^ j \in Nat /\ 10 ^ j > 0
<1>1. CASE j = 0
  BY <1>1, TenPowers
<1>2. CASE j = 1
  BY <1>2, TenPowers
<1>3. CASE j = 2
  BY <1>3, TenPowers
<1>4. CASE j = 3
  BY <1>4, TenPowers
<1>5. CASE j = 4
  BY <1>5, TenPowers
<1>6. CASE j = 5
  BY <1>6, TenPowers
<1> QED
  BY <1>1, <1>2, <1>3, <1>4, <1>5, <1>6

Million == 1000000

IsText(t, u, len) ==
    /\ t = [k \in 1 .. len |-> (u \div 10 ^ (len - k)) % 10]
    /\ len <= 6 <=> u < Million
    /\ len <= 6 => u < 10 ^ len

\* The length of a number: six digits reach up to a million.
LEMMA Digits ==
    ASSUME NEW u \in Nat, NEW t, t = fmt_ulong(u)
    PROVE  \E len \in 1 .. 10 : IsText(t, u, len)
<1> DEFINE L == {l \in 1 .. 9 : u < 10 ^ l} \cup {10}
           len == Min(L)
<1>1. t = [k \in 1 .. len |-> (u \div 10 ^ (len - k)) % 10]
  BY DEF fmt_ulong
<1>2. L \subseteq 1 .. 10 /\ 10 \in L
  OBVIOUS
<1>3. len \in L /\ \A l \in L : len <= l
  <2> DEFINE K == {10 - l : l \in L}
  <2>1. K \in SUBSET (0 .. 10) /\ K # {}
    BY <1>2
  <2>2. Max(K) \in K /\ \A k \in K : k <= Max(K)
    <3> HIDE DEF K
    <3> QED
      BY <2>1, MaxOf
  <2>3. PICK m \in L : Max(K) = 10 - m
    BY <2>2
  <2>4. ASSUME NEW l \in L PROVE m <= l
    <3>1. 10 - l \in K
      OBVIOUS
    <3>2. 10 - l <= 10 - m
      BY <2>2, <2>3, <3>1
    <3>3. l \in Int /\ m \in Int
      BY <1>2, <2>3
    <3> QED
      BY <3>2, <3>3
  <2> HIDE DEF L, K
  <2>5. \E x \in L : \A y \in L : x <= y
    BY <2>3, <2>4
  <2> QED
    BY <2>5 DEF Min
<1>4. len <= 6 => u < 10 ^ len
  BY <1>3
<1>5. u < Million => len <= 6
  <2>1. u < Million => 6 \in L
    BY TenPowers DEF Million
  <2> HIDE DEF L
  <2> QED
    BY <1>3, <2>1
<1> HIDE DEF L, len
<1>6. len <= 6 => u < Million
  <2>1. len \in 1 .. 10
    BY <1>2, <1>3
  <2>2. len <= 6 => len = 1 \/ len = 2 \/ len = 3 \/ len = 4 \/ len = 5 \/ len = 6
    BY <2>1
  <2>3. len = 1 => u < Million
    BY <1>4, TenPowers DEF Million
  <2>4. len = 2 => u < Million
    BY <1>4, TenPowers DEF Million
  <2>5. len = 3 => u < Million
    BY <1>4, TenPowers DEF Million
  <2>6. len = 4 => u < Million
    BY <1>4, TenPowers DEF Million
  <2>7. len = 5 => u < Million
    BY <1>4, TenPowers DEF Million
  <2>8. len = 6 => u < Million
    BY <1>4, TenPowers DEF Million
  <2> QED
    BY <2>2, <2>3, <2>4, <2>5, <2>6, <2>7, <2>8
<1>7. len \in 1 .. 10
  BY <1>2, <1>3
<1>8. IsText(t, u, len)
  BY <1>1, <1>4, <1>5, <1>6 DEF IsText
<1> QED
  BY <1>7, <1>8

LEMMA DigitOfChar ==
    ASSUME NEW d \in 0 .. 9
    PROVE  48 + d \in Char /\ Digit[48 + d] = {d} /\ The(Digit[48 + d]) = d
<1>1. 48 + d \in Char
  BY DEF Char
<1>2. Digit[48 + d] = {e \in 0 .. 9 : 48 + d = 48 + e}
  BY <1>1 DEF Digit
<1>3. {e \in 0 .. 9 : 48 + d = 48 + e} = {d}
  OBVIOUS
<1>4. Digit[48 + d] = {d}
  BY <1>2, <1>3
<1>5. The({d}) \in {d}
  BY TheOf
<1> QED
  BY <1>1, <1>4, <1>5

\* What is written for up to six digits is read back.
LEMMA ReadBack ==
    ASSUME NEW u \in Nat, NEW len \in 1 .. 6, u < 10 ^ len,
           NEW s, s = [k \in 1 .. len |-> 48 + ((u \div 10 ^ (len - k)) % 10)]
    PROVE  /\ scan_ulong(s) = Len(s)
           /\ Number(s, Digit, 10) = u
<1> DEFINE d(k) == (u \div 10 ^ (len - k)) % 10
<1>1. Len(s) = len
  OBVIOUS
<1>2. ASSUME NEW k \in 1 .. len
      PROVE  /\ d(k) \in 0 .. 9 /\ s[k] = 48 + d(k)
             /\ Digit[s[k]] # {} /\ The(Digit[s[k]]) = d(k)
  <2>1. len - k \in 0 .. 5
    OBVIOUS
  <2>2. 10 ^ (len - k) \in Nat /\ 10 ^ (len - k) > 0
    BY <2>1, TenTimes
  <2>3. u \div 10 ^ (len - k) \in Nat
    BY <2>2, Quotient
  <2>4. d(k) \in 0 .. 9
    BY <2>3
  <2>5. s[k] = 48 + d(k)
    OBVIOUS
  <2> HIDE DEF d
  <2> QED
    BY <2>4, <2>5, DigitOfChar
<1>3. scan_ulong(s) = Len(s)
  <2>1. AllHave(s, Digit)
    BY <1>1, <1>2 DEF AllHave
  <2>2. Len(s) \in Nat
    BY <1>1
  <2> QED
    BY <2>1, <2>2, AllScanned DEF scan_ulong
<1>4. PICK n : Reads(n, s, Digit, 10) /\ Number(s, Digit, 10) = n[Len(s)]
  BY <1>1, NumberIs
<1> DEFINE P(k) == k <= len => n[k] = u \div 10 ^ (len - k)
<1>5. P(0)
  <2>1. n[0] = 0
    BY <1>1, <1>4, ReadsStep
  <2>2. len - 0 = len
    OBVIOUS
  <2>3. len - 1 \in 0 .. 5 /\ len - 1 + 1 = len
    OBVIOUS
  <2>4. 10 ^ len \in Nat /\ 10 ^ len > 0
    <3>1. 10 ^ (len - 1 + 1) = 10 * 10 ^ (len - 1) /\ 10 ^ (len - 1) \in Nat
          /\ 10 ^ (len - 1) > 0
      BY <2>3, TenTimes
    <3> QED
      BY <2>3, <3>1
  <2>5. u \div 10 ^ len = 0
    <3> DEFINE p == 10 ^ len
    <3>1. p \in Nat /\ p > 0 /\ u < p
      BY <2>4
    <3> HIDE DEF p
    <3>2. u \div p \in Nat /\ (u >= p <=> u \div p > 0)
      BY <3>1, Quotient
    <3>3. u \div p = 0
      BY <3>1, <3>2
    <3> QED
      BY <3>3 DEF p
  <2> QED
    BY <2>1, <2>2, <2>5
<1>6. ASSUME NEW k \in 1 .. 6, P(k - 1) PROVE P(k)
  <2> SUFFICES ASSUME k <= len PROVE n[k] = u \div 10 ^ (len - k)
    OBVIOUS
  <2> DEFINE p == 10 ^ (len - k)
             q == u \div p
  <2>1. k \in 1 .. len /\ len - k \in 0 .. 5 /\ len - (k - 1) = len - k + 1
        /\ k - 1 <= len
    OBVIOUS
  <2>2. p \in Nat /\ p > 0 /\ 10 ^ (len - k + 1) = 10 * p
    BY <2>1, TenTimes
  <2>3. n[k - 1] = u \div (10 * p)
    BY <1>6, <2>1, <2>2
  <2>4. n[k] = 10 * n[k - 1] + d(k)
    <3>1. n[k] = 10 * n[k - 1] + The(Digit[s[k]])
      <4>1. k \in 1 .. Len(s)
        BY <1>1, <2>1
      <4> QED
        BY <1>1, <1>4, <4>1, ReadsStep
    <3> QED
      BY <1>2, <2>1, <3>1
  <2>5. d(k) = q % 10
    OBVIOUS
  <2> HIDE DEF d, p
  <2>6. q \in Nat /\ q * p + (u % p) = u /\ u % p \in Nat /\ u % p < p
    BY <2>2, Quotient
  <2>7. u \div (10 * p) = q \div 10
    <3> DEFINE r == u % p
               a == q \div 10
               b == q % 10
               c == u \div (10 * p)
               e == u % (10 * p)
    <3>1. a \in Nat /\ b \in Nat /\ b < 10 /\ a * 10 + b = q
      <4> HIDE DEF q
      <4> QED
        BY <2>6
    <3>2. 10 * p \in Nat /\ 10 * p > 0
      BY <2>2
    <3>3. c \in Nat /\ e \in Nat /\ e < 10 * p /\ c * (10 * p) + e = u
      <4> DEFINE pp == 10 * p
      <4> HIDE DEF pp
      <4>1. u \div pp \in Nat /\ u % pp \in Nat /\ u % pp < pp
            /\ (u \div pp) * pp + (u % pp) = u
        BY <3>2, Quotient DEF pp
      <4> QED
        BY <4>1 DEF pp
    <3>4. q * p + r = u /\ r \in Nat /\ r < p
      BY <2>6
    <3> HIDE DEF q, r, a, b, c, e
    <3>5. (10 * p) * a + (p * b + r) = u
      <4>1. q * p = (a * 10 + b) * p
        BY <3>1
      <4>2. (a * 10 + b) * p = (10 * p) * a + p * b
        BY <2>2, <3>1
      <4>3. q * p \in Int /\ (10 * p) * a \in Int /\ p * b \in Int
        BY <2>2, <2>6, <3>1
      <4> QED
        BY <3>4, <4>1, <4>2, <4>3
    <3>6. p * b + r < 10 * p /\ p * b + r >= 0
      <4>1. p * b <= p * 9
        BY <2>2, <3>1, Monotone
      <4>2. p * b >= 0 /\ p * b \in Int
        BY <2>2, <3>1
      <4> DEFINE x == p * b
      <4>3. x <= p * 9 /\ x >= 0 /\ x \in Int
        BY <4>1, <4>2
      <4> HIDE DEF x
      <4>4. x + r < 10 * p /\ x + r >= 0
        BY <2>2, <3>4, <4>3
      <4> QED
        BY <4>4 DEF x
    <3>7. ASSUME a + 1 <= c PROVE FALSE
      <4>1. (10 * p) * (a + 1) <= (10 * p) * c
        <5>1. 10 * p \in Nat /\ a + 1 \in Int /\ c \in Int
          BY <2>2, <3>1, <3>3
        <5> QED
          BY <3>7, <5>1, Monotone
      <4>2. (10 * p) * (a + 1) = (10 * p) * a + 10 * p /\ (10 * p) * c = c * (10 * p)
        BY <2>2, <3>1, <3>3
      <4>3. (10 * p) * a \in Int /\ c * (10 * p) \in Int /\ p * b + r \in Int
        BY <2>2, <3>1, <3>3, <3>4
      <4> QED
        BY <3>2, <3>3, <3>5, <3>6, <4>1, <4>2, <4>3
    <3>8. ASSUME c + 1 <= a PROVE FALSE
      <4>1. (10 * p) * (c + 1) <= (10 * p) * a
        <5> DEFINE pp == 10 * p
                   cc == c + 1
        <5>1. pp \in Nat /\ cc \in Int /\ a \in Int /\ cc <= a
          BY <3>1, <3>2, <3>3, <3>8
        <5> HIDE DEF pp, cc
        <5>2. pp * cc <= pp * a
          BY <5>1, Monotone
        <5> QED
          BY <5>2 DEF pp, cc
      <4>2. (10 * p) * (c + 1) = c * (10 * p) + 10 * p
        BY <2>2, <3>3
      <4>3. (10 * p) * a \in Int /\ c * (10 * p) \in Int /\ p * b + r \in Int
        BY <2>2, <3>1, <3>3, <3>4
      <4> QED
        BY <3>2, <3>3, <3>5, <3>6, <4>1, <4>2, <4>3
    <3>9. c = a
      BY <3>1, <3>3, <3>7, <3>8
    <3> QED
      BY <3>9 DEF a, c
  <2>8. n[k] = q
    <3>1. 10 * (q \div 10) + (q % 10) = q
      <4> HIDE DEF q
      <4> QED
        BY <2>6
    <3> HIDE DEF q
    <3> QED
      BY <2>3, <2>4, <2>5, <2>7, <3>1
  <2> QED
    BY <2>8 DEF p
<1> HIDE DEF P
<1>7. P(1) /\ P(2) /\ P(3) /\ P(4) /\ P(5) /\ P(6)
  <2>1. P(1)
    BY <1>5, <1>6
  <2>2. P(2)
    BY <1>6, <2>1
  <2>3. P(3)
    BY <1>6, <2>2
  <2>4. P(4)
    BY <1>6, <2>3
  <2>5. P(5)
    BY <1>6, <2>4
  <2>6. P(6)
    BY <1>6, <2>5
  <2> QED
    BY <2>1, <2>2, <2>3, <2>4, <2>5, <2>6
<1>8. n[len] = u \div 10 ^ (len - len)
  <2>1. P(len)
    BY <1>7
  <2> QED
    BY <2>1 DEF P
<1>9. u \div 10 ^ (len - len) = u
  <2>1. len - len = 0 /\ u \div 1 = u
    OBVIOUS
  <2> QED
    BY <2>1, TenPowers
<1> QED
  BY <1>1, <1>3, <1>4, <1>8, <1>9

\* uid_print and nusers_print write a number that stands for the value, and
\* overrun their buffer exactly from a million on.
THEOREM SmallIsReadBack == Spec => []SmallReadsBack
<1> DEFINE Inv == IsCall /\ SmallReadsBack
<1>1. Init => Inv
  BY DEF Init, IsCall, SmallReadsBack, Printed
<1>2. Inv /\ [Next]_vars => Inv'
  <2> SUFFICES ASSUME Inv, [Next]_vars PROVE SmallReadsBack'
    BY CallKept
  <2>1. call' = call /\ call \in Calls
    BY CallKept DEF IsCall
  <2>2. CASE UNCHANGED vars
    BY <2>2 DEF vars, SmallReadsBack, Printed
  <2>3. CASE PrintSmall
    <3> DEFINE u == call.val
               text == fmt_ulong(u)
               s == [k \in DOMAIN text |-> 48 + text[k]]
    <3>1. call.row \in SmallRows
      BY <2>3 DEF PrintSmall, Called
    <3>2. u \in Nat
      BY <2>1, <3>1, CallsAssumption
    <3>3. IF Len(text) <= SmallBuf THEN Writes(<<s>>) ELSE Stops("overrun")
      BY <2>3 DEF PrintSmall
    <3>4. PICK len \in 1 .. 10 : IsText(text, u, len)
      <4> HIDE DEF u
      <4> QED
        BY <3>2, Digits
    <3> HIDE DEF u, text
    <3>5. /\ Len(text) = len /\ DOMAIN text = 1 .. len
          /\ \A k \in 1 .. len : text[k] = (u \div 10 ^ (len - k)) % 10
      BY <3>4 DEF IsText
    <3>6. (len <= 6 <=> u < Million) /\ (len <= 6 => u < 10 ^ len)
      BY <3>4 DEF IsText
    <3>7. SmallReadsBack' =
            (Printed(SmallRows)' =>
               IF u < Million
               THEN pc' = "done" /\ scan_ulong(out'[1]) = Len(out'[1])
                    /\ Number(out'[1], Digit, 10) = u
               ELSE pc' = "overrun")
      BY <2>1 DEF SmallReadsBack, Million, u
    <3>8. CASE u < Million
      <4>1. len \in 1 .. 6 /\ u < 10 ^ len
        BY <3>6, <3>8
      <4>2. s = [k \in 1 .. len |-> 48 + ((u \div 10 ^ (len - k)) % 10)]
        BY <3>5
      <4>3. scan_ulong(s) = Len(s) /\ Number(s, Digit, 10) = u
        <5> HIDE DEF s
        <5> QED
          BY <3>2, <4>1, <4>2, ReadBack
      <4> HIDE DEF s
      <4>4. out' = <<s>> /\ pc' = "done"
        BY <3>3, <3>5, <4>1 DEF Writes, SmallBuf
      <4>5. out'[1] = s
        BY <4>4
      <4> QED
        BY <3>7, <3>8, <4>3, <4>4, <4>5
    <3>9. CASE ~ (u < Million)
      <4>1. ~ (Len(text) <= SmallBuf)
        BY <3>5, <3>6, <3>9 DEF SmallBuf
      <4>2. pc' = "overrun"
        BY <3>3, <4>1 DEF Stops
      <4> QED
        BY <3>7, <3>9, <4>2
    <3> QED
      BY <3>8, <3>9
  <2>4. CASE PrintLoad \/ PrintRatio \/ PrintHuman \/ PrintUptime \/ Color8
                \/ Xterm256 \/ PrintRgb
    <3>1. call.row \notin SmallRows
      BY <2>4 DEF PrintLoad, PrintRatio, PrintHuman, PrintUptime, Color8, Xterm256,
                  PrintRgb, Called, HumanRows, SmallRows, RatioRows, Rows8, Rows256,
                  RowsRgb
    <3> QED
      BY <2>1, <3>1 DEF SmallReadsBack, Printed
  <2> QED
    BY <2>2, <2>3, <2>4, OnePrints
<1>3. Inv => SmallReadsBack
  OBVIOUS
<1> QED
  BY <1>1, <1>2, <1>3, PTL DEF Spec

-----------------------------------------------------------------------------
(***************************************************************************)
(* The colors in hex digits, if the variables are apart.                   *)
(***************************************************************************)

LEMMA HexValues ==
    ASSUME NEW c \in Char, Hex[c] # {}
    PROVE  The(Hex[c]) \in 0 .. 15
<1>1. Digit[c] \subseteq 0 .. 9
  BY DEF Digit
<1>2. Hex[c] \subseteq 0 .. 15
  BY <1>1 DEF Hex
<1> QED
  BY <1>2, TheOf

\* The three pieces of a text have one digit each, or two.
LEMMA ThreePieces ==
    ASSUME NEW tail \in Seq(Char), NEW w \in {1, 2}, Len(tail) = 3 * w
    PROVE  /\ IsPiece(Piece(tail, 1), tail, 1, w)
           /\ IsPiece(Piece(tail, 2), tail, w + 1, 2 * w)
           /\ IsPiece(Piece(tail, 3), tail, 2 * w + 1, 3 * w)
<1>1. Len(tail) \div 3 = w
  OBVIOUS
<1>2. /\ w * (1 - 1) + 1 = 1 /\ w * 1 = w
      /\ w * (2 - 1) + 1 = w + 1 /\ w * 2 = 2 * w
      /\ w * (3 - 1) + 1 = 2 * w + 1 /\ w * 3 = 3 * w
  OBVIOUS
<1>3. /\ Piece(tail, 1) = SubSeq(tail, 1, w)
      /\ Piece(tail, 2) = SubSeq(tail, w + 1, 2 * w)
      /\ Piece(tail, 3) = SubSeq(tail, 2 * w + 1, 3 * w)
  BY <1>1, <1>2 DEF Piece
<1>4. /\ 1 \in 1 .. Len(tail) + 1 /\ w \in 1 - 1 .. Len(tail)
      /\ w + 1 \in 1 .. Len(tail) + 1 /\ 2 * w \in w + 1 - 1 .. Len(tail)
      /\ 2 * w + 1 \in 1 .. Len(tail) + 1 /\ 3 * w \in 2 * w + 1 - 1 .. Len(tail)
  OBVIOUS
<1> DEFINE m2 == w + 1
           n2 == 2 * w
           m3 == 2 * w + 1
           n3 == 3 * w
<1>4a. /\ m2 \in 1 .. Len(tail) + 1 /\ n2 \in m2 - 1 .. Len(tail)
       /\ m3 \in 1 .. Len(tail) + 1 /\ n3 \in m3 - 1 .. Len(tail)
  BY <1>4
<1>5. IsPiece(Piece(tail, 1), tail, 1, w)
  BY <1>3, <1>4, PieceOf
<1>6. IsPiece(Piece(tail, 2), tail, m2, n2)
  <2>1. Piece(tail, 2) = SubSeq(tail, m2, n2)
    BY <1>3
  <2> HIDE DEF m2, n2
  <2> QED
    BY <1>4a, <2>1, PieceOf
<1>7. IsPiece(Piece(tail, 3), tail, m3, n3)
  <2>1. Piece(tail, 3) = SubSeq(tail, m3, n3)
    BY <1>3
  <2> HIDE DEF m3, n3
  <2> QED
    BY <1>4a, <2>1, PieceOf
<1> QED
  BY <1>5, <1>6, <1>7

AllHex(tail) == \A k \in DOMAIN tail : Hex[tail[k]] # {}

\* The check of rgb_print.
LEMMA FoundAll ==
    ASSUME NEW tail \in Seq(Char), NEW w \in {1, 2}, Len(tail) = 3 * w
    PROVE  Found(tail) = Len(tail) <=> AllHex(tail)
<1> DEFINE p == Piece(tail, 1)
           q == Piece(tail, 2)
           r == Piece(tail, 3)
<1>1. /\ Len(p) = w /\ Len(q) = w /\ Len(r) = w
      /\ \A j \in 1 .. w : p[j] = tail[j] /\ q[j] = tail[w + j] /\ r[j] = tail[2 * w + j]
  <2>1. /\ IsPiece(p, tail, 1, w) /\ IsPiece(q, tail, w + 1, 2 * w)
        /\ IsPiece(r, tail, 2 * w + 1, 3 * w)
    BY ThreePieces
  <2>2. w - 1 + 1 = w /\ 2 * w - (w + 1) + 1 = w /\ 3 * w - (2 * w + 1) + 1 = w
    OBVIOUS
  <2>3. \A j \in 1 .. w : 1 + j - 1 = j /\ w + 1 + j - 1 = w + j
                             /\ 2 * w + 1 + j - 1 = 2 * w + j
    OBVIOUS
  <2> HIDE DEF p, q, r
  <2>4. Len(p) = w /\ \A j \in 1 .. w : p[j] = tail[j]
    BY <2>1, <2>2, <2>3 DEF IsPiece
  <2>5. Len(q) = w /\ \A j \in 1 .. w : q[j] = tail[w + j]
    BY <2>1, <2>2, <2>3 DEF IsPiece
  <2>6. Len(r) = w /\ \A j \in 1 .. w : r[j] = tail[2 * w + j]
    BY <2>1, <2>2, <2>3 DEF IsPiece
  <2> QED
    BY <2>4, <2>5, <2>6
<1> DEFINE a == Scanned(p, Hex)
           b == Scanned(q, Hex)
           c == Scanned(r, Hex)
<1>2. Found(tail) = a + b + c
  BY DEF Found
<1> HIDE DEF p, q, r
<1>3. /\ a \in 0 .. w /\ (a = w <=> AllHave(p, Hex))
      /\ b \in 0 .. w /\ (b = w <=> AllHave(q, Hex))
      /\ c \in 0 .. w /\ (c = w <=> AllHave(r, Hex))
  <2>1. Len(p) \in Nat /\ Len(q) \in Nat /\ Len(r) \in Nat
    BY <1>1
  <2>2. a \in 0 .. Len(p) /\ b \in 0 .. Len(q) /\ c \in 0 .. Len(r)
    BY <2>1, ScannedIs
  <2>3. /\ a = Len(p) <=> AllHave(p, Hex)
        /\ b = Len(q) <=> AllHave(q, Hex)
        /\ c = Len(r) <=> AllHave(r, Hex)
    BY <2>1, AllScanned
  <2> QED
    BY <1>1, <2>2, <2>3
<1> HIDE DEF a, b, c
<1>4. Found(tail) = Len(tail) <=> a = w /\ b = w /\ c = w
  BY <1>2, <1>3
<1>5. AllHave(p, Hex) /\ AllHave(q, Hex) /\ AllHave(r, Hex) <=> AllHex(tail)
  <2>1. DOMAIN tail = 1 .. 3 * w
    OBVIOUS
  <2>2. /\ \A k \in 1 .. 3 * w : k \in 1 .. w \/ k - w \in 1 .. w \/ k - 2 * w \in 1 .. w
        /\ \A k \in Int : w + (k - w) = k /\ 2 * w + (k - 2 * w) = k
        /\ \A j \in 1 .. w : j \in 1 .. 3 * w /\ w + j \in 1 .. 3 * w
                                /\ 2 * w + j \in 1 .. 3 * w
    OBVIOUS
  <2>3. ASSUME AllHex(tail)
        PROVE  AllHave(p, Hex) /\ AllHave(q, Hex) /\ AllHave(r, Hex)
    BY <1>1, <2>1, <2>2, <2>3 DEF AllHave, AllHex
  <2>4. ASSUME AllHave(p, Hex), AllHave(q, Hex), AllHave(r, Hex)
        PROVE  AllHex(tail)
    <3>1. \A j \in 1 .. w : /\ Hex[tail[j]] # {} /\ Hex[tail[w + j]] # {}
                            /\ Hex[tail[2 * w + j]] # {}
      BY <1>1, <2>4 DEF AllHave
    <3>2. ASSUME NEW k \in 1 .. 3 * w PROVE Hex[tail[k]] # {}
      <4>1. CASE k \in 1 .. w
        BY <3>1, <4>1
      <4>2. CASE k - w \in 1 .. w
        <5>1. Hex[tail[w + (k - w)]] # {}
          BY <3>1, <4>2
        <5> QED
          BY <2>2, <5>1
      <4>3. CASE k - 2 * w \in 1 .. w
        <5>1. Hex[tail[2 * w + (k - 2 * w)]] # {}
          BY <3>1, <4>3
        <5> QED
          BY <2>2, <5>1
      <4> QED
        BY <2>2, <4>1, <4>2, <4>3
    <3> QED
      BY <2>1, <3>2 DEF AllHex
  <2> QED
    BY <2>3, <2>4
<1> QED
  BY <1>3, <1>4, <1>5

\* A number of one or two hex digits.
LEMMA TwoHexDigits ==
    ASSUME NEW p, NEW w \in {1, 2}, Len(p) = w,
           \A j \in 1 .. w : The(Hex[p[j]]) \in 0 .. 15
    PROVE  /\ w = 1 => Number(p, Hex, 16) \in 0 .. 15
           /\ w = 2 => Number(p, Hex, 16) \in 0 .. 255
<1>1. Len(p) \in Nat
  OBVIOUS
<1>2. PICK n : Reads(n, p, Hex, 16) /\ Number(p, Hex, 16) = n[Len(p)]
  BY <1>1, NumberIs
<1>3. n[0] = 0 /\ \A k \in 1 .. w : n[k] = 16 * n[k - 1] + The(Hex[p[k]])
  BY <1>1, <1>2, ReadsStep
<1>4. n[1] \in 0 .. 15
  <2>1. 1 \in 1 .. w /\ 1 - 1 = 0
    OBVIOUS
  <2>2. n[1] = 16 * 0 + The(Hex[p[1]]) /\ The(Hex[p[1]]) \in 0 .. 15
    BY <1>3, <2>1
  <2> QED
    BY <2>2
<1>5. w = 2 => n[2] \in 0 .. 255
  <2> SUFFICES ASSUME w = 2 PROVE n[2] \in 0 .. 255
    OBVIOUS
  <2>1. 2 \in 1 .. w /\ 2 - 1 = 1
    OBVIOUS
  <2>2. n[2] = 16 * n[1] + The(Hex[p[2]]) /\ The(Hex[p[2]]) \in 0 .. 15
    BY <1>3, <2>1
  <2> QED
    BY <1>4, <2>2
<1>6. CASE w = 1
  BY <1>2, <1>4, <1>6
<1>7. CASE w = 2
  BY <1>2, <1>5, <1>7
<1> QED
  BY <1>6, <1>7

\* scan_hex, if r is scanned or does not lie above what is.
LEMMA ScanHex ==
    ASSUME NEW vals, DOMAIN vals = {"r", "g", "b"}, NEW c, NEW t, NEW layout,
           c = "r" \/ "r" \notin Above(layout, c),
           NEW v, v = scan_hex(vals, c, layout, t)
    PROVE  /\ DOMAIN v = {"r", "g", "b"}
           /\ c # "r" => v["r"] = vals["r"]
           /\ c = "r" => v["r"] = vals["r"] * 16 ^ Scanned(t, Hex)
                                    + Number(SubSeq(t, 1, Scanned(t, Hex)), Hex, 16)
<1> DEFINE n == Scanned(t, Hex)
           x == vals[c] * 16 ^ n + Number(SubSeq(t, 1, n), Hex, 16)
<1>2. v = [d \in DOMAIN vals |->
             IF d = c THEN x
             ELSE IF d \in Above(layout, c) THEN vals[d] * 16 ^ n ELSE vals[d]]
  BY DEF scan_hex
<1> HIDE DEF x
<1>3. DOMAIN v = {"r", "g", "b"} /\ v["r"] = IF "r" = c THEN x ELSE vals["r"]
  BY <1>2
<1> QED
  BY <1>3 DEF x

\* The number that rgb_print formats into three bytes has three digits.
LEMMA RedFits ==
    ASSUME NEW layout, "r" \notin Above(layout, "g"), "r" \notin Above(layout, "b"),
           NEW tail \in Seq(Char), NEW w \in {1, 2}, Len(tail) = 3 * w, AllHex(tail)
    PROVE  Rgb(tail, layout)["r"] \in 0 .. 255
<1> DEFINE p == Piece(tail, 1)
           none == [c \in {"r", "g", "b"} |-> 0]
           red == scan_hex(none, "r", layout, p)
           green == scan_hex(red, "g", layout, Piece(tail, 2))
           blue == scan_hex(green, "b", layout, Piece(tail, 3))
           x == Number(p, Hex, 16)
<1>1. Len(p) = w /\ \A j \in 1 .. w : p[j] = tail[j]
  <2>1. IsPiece(p, tail, 1, w)
    BY ThreePieces
  <2>2. w - 1 + 1 = w /\ \A j \in 1 .. w : 1 + j - 1 = j
    OBVIOUS
  <2> HIDE DEF p
  <2> QED
    BY <2>1, <2>2 DEF IsPiece
<1>2. \A j \in 1 .. w : Hex[p[j]] # {} /\ The(Hex[p[j]]) \in 0 .. 15
  <2> HIDE DEF p
  <2>1. ASSUME NEW j \in 1 .. w PROVE Hex[p[j]] # {} /\ The(Hex[p[j]]) \in 0 .. 15
    <3>1. j \in DOMAIN tail /\ tail[j] \in Char
      OBVIOUS
    <3>2. Hex[tail[j]] # {}
      BY <3>1 DEF AllHex
    <3> QED
      BY <1>1, <3>1, <3>2, HexValues
  <2> QED
    BY <2>1
<1>3. (w = 1 => x \in 0 .. 15) /\ (w = 2 => x \in 0 .. 255)
  <2>1. Len(p) = w /\ \A j \in 1 .. w : The(Hex[p[j]]) \in 0 .. 15
    BY <1>1, <1>2
  <2>2. ASSUME w = 1 PROVE Number(p, Hex, 16) \in 0 .. 15
    <3> HIDE DEF p
    <3>1. 1 \in {1, 2} /\ Len(p) = 1 /\ \A j \in 1 .. 1 : The(Hex[p[j]]) \in 0 .. 15
      BY <2>1, <2>2
    <3> QED
      BY ONLY <3>1, TwoHexDigits, ZenonT(40)
  <2>3. ASSUME w = 2 PROVE Number(p, Hex, 16) \in 0 .. 255
    <3> HIDE DEF p
    <3>1. 2 \in {1, 2} /\ Len(p) = 2 /\ \A j \in 1 .. 2 : The(Hex[p[j]]) \in 0 .. 15
      BY <2>1, <2>3
    <3> QED
      BY ONLY <3>1, TwoHexDigits, ZenonT(40)
  <2> QED
    BY <2>2, <2>3 DEF x
<1>4. Scanned(p, Hex) = w
  <2> HIDE DEF p
  <2>1. AllHave(p, Hex) /\ Len(p) \in Nat
    BY <1>1, <1>2 DEF AllHave
  <2> QED
    BY <1>1, <2>1, AllScanned
<1>5. SubSeq(p, 1, w) = p
  <2>1. p \in Seq(Char)
    <3>1. \A i \in Int, j \in Int : 1 <= i /\ j <= Len(tail) => SubSeq(tail, i, j) \in Seq(Char)
      OBVIOUS
    <3>2. Len(tail) \div 3 = w /\ w * (1 - 1) + 1 = 1 /\ w * 1 = w /\ w <= Len(tail)
      OBVIOUS
    <3> QED
      BY <3>1, <3>2 DEF Piece
  <2> HIDE DEF p
  <2> QED
    BY <1>1, <2>1, SubSeqFull
<1> HIDE DEF p, x
<1>6. red["r"] = x /\ DOMAIN red = {"r", "g", "b"}
  <2>1. DOMAIN none = {"r", "g", "b"} /\ none["r"] = 0
    OBVIOUS
  <2> HIDE DEF none
  <2>2. /\ DOMAIN red = {"r", "g", "b"}
        /\ red["r"] = none["r"] * 16 ^ Scanned(p, Hex)
                        + Number(SubSeq(p, 1, Scanned(p, Hex)), Hex, 16)
    BY <2>1, ScanHex
  <2>3. red["r"] = 0 * 16 ^ w + x
    BY <1>4, <1>5, <2>1, <2>2 DEF x
  <2>4. 16 ^ w \in Int
    <3>1. 16 ^ 1 = 16 /\ 16 ^ 2 = 256
      OBVIOUS
    <3> QED
      BY <3>1
  <2>5. x \in Int
    <3>1. w = 1 \/ w = 2
      OBVIOUS
    <3>2. (\A z \in 0 .. 15 : z \in Int) /\ (\A z \in 0 .. 255 : z \in Int)
      BY ONLY TRUE
    <3> HIDE DEF x
    <3> QED
      BY <1>3, <3>1, <3>2, ZenonT(40)
  <2>6. 0 * 16 ^ w + x = x
    <3> HIDE DEF x
    <3> QED
      BY <2>4, <2>5
  <2> QED
    BY <2>2, <2>3, <2>6
<1> HIDE DEF red
<1>7. green["r"] = x /\ DOMAIN green = {"r", "g", "b"}
  <2>1. "g" # "r"
    OBVIOUS
  <2> QED
    BY <1>6, <2>1, ScanHex
<1> HIDE DEF green
<1>8. blue["r"] = x
  <2>1. "b" # "r"
    OBVIOUS
  <2> QED
    BY <1>7, <2>1, ScanHex
<1>9. Rgb(tail, layout)["r"] = IF Len(tail) = 3 THEN 17 * blue["r"] ELSE blue["r"]
  <2>1. Rgb(tail, layout) =
          [c \in {"r", "g", "b"} |-> IF Len(tail) = 3 THEN 17 * blue[c] ELSE blue[c]]
    BY DEF Rgb, blue, green, red, none, p
  <2> HIDE DEF blue
  <2> QED
    BY <2>1
<1> HIDE DEF blue
<1>10. CASE w = 1
  <2>1. x \in 0 .. 15 /\ Len(tail) = 3
    BY <1>3, <1>10
  <2>2. Rgb(tail, layout)["r"] = 17 * x
    BY <1>8, <1>9, <2>1
  <2>3. \A y \in 0 .. 15 : 17 * y \in 0 .. 255
    OBVIOUS
  <2>4. 17 * x \in 0 .. 255
    BY <2>1, <2>3
  <2> HIDE DEF x
  <2> QED
    BY <2>2, <2>4
<1>11. CASE w = 2
  <2>1. x \in 0 .. 255 /\ Len(tail) # 3
    BY <1>3, <1>11
  <2>2. Rgb(tail, layout)["r"] = x
    BY <1>8, <1>9, <2>1
  <2> QED
    BY <2>1, <2>2
<1> QED
  BY <1>10, <1>11

\* rgb#c and rgb*c write something exactly if c is a color, and then within the
\* three bytes there are, if r is not above g or b.
THEOREM RgbIsChecked == Spec => []RgbAllOrNothing
<1> DEFINE Inv == IsCall /\ RgbAllOrNothing
<1>1. Init => Inv
  BY DEF Init, IsCall, RgbAllOrNothing, Printed
<1>2. Inv /\ [Next]_vars => Inv'
  <2> SUFFICES ASSUME Inv, [Next]_vars PROVE RgbAllOrNothing'
    BY CallKept
  <2>1. call' = call /\ call \in Calls
    BY CallKept DEF IsCall
  <2>2. CASE UNCHANGED vars
    BY <2>2 DEF vars, RgbAllOrNothing, Printed
  <2>3. CASE PrintRgb
    <3> DEFINE tail == call.tail
               r == Rgb(tail, call.layout)["r"]
               Shifted == \E c \in {"g", "b"} : "r" \in Above(call.layout, c)
    <3>1. call.row \in RowsRgb
      BY <2>3 DEF PrintRgb, Called
    <3>2. tail \in Seq(Char)
      BY <2>1, <3>1, CallsAssumption
    <3> SUFFICES /\ (out' # << >> \/ pc' = "overrun")
                         <=> Len(tail) \in {3, 6} /\ AllHex(tail)
                 /\ pc' = "overrun" => Shifted
      BY <2>1 DEF RgbAllOrNothing, AllHex
    <3>3. IF Len(tail) \notin {3, 6} \/ Found(tail) # Len(tail) THEN Writes(<< >>)
          ELSE IF r < 1000 THEN Writes(<<[k \in 1 .. 3 |-> r]>>) ELSE Stops("overrun")
      BY <2>3 DEF PrintRgb
    <3> HIDE DEF tail, Shifted
    <3>4. Len(tail) \in {3, 6} => (Found(tail) = Len(tail) <=> AllHex(tail))
      <4>1. Len(tail) = 3 => Len(tail) = 3 * 1
        OBVIOUS
      <4>2. Len(tail) = 6 => Len(tail) = 3 * 2
        OBVIOUS
      <4>3. Len(tail) = 3 => (Found(tail) = Len(tail) <=> AllHex(tail))
        BY <3>2, <4>1, FoundAll
      <4>4. Len(tail) = 6 => (Found(tail) = Len(tail) <=> AllHex(tail))
        BY <3>2, <4>2, FoundAll
      <4> QED
        BY <4>3, <4>4
    <3>5. Len(tail) \in {3, 6} /\ AllHex(tail) /\ ~ Shifted => r < 1000
      <4>0. ~ Shifted => "r" \notin Above(call.layout, "g") /\ "r" \notin Above(call.layout, "b")
        BY DEF Shifted
      <4>1. Len(tail) = 3 => Len(tail) = 3 * 1
        OBVIOUS
      <4>2. Len(tail) = 6 => Len(tail) = 3 * 2
        OBVIOUS
      <4>3. Len(tail) = 3 /\ AllHex(tail) /\ ~ Shifted => r \in 0 .. 255
        BY <3>2, <4>0, <4>1, RedFits
      <4>4. Len(tail) = 6 /\ AllHex(tail) /\ ~ Shifted => r \in 0 .. 255
        BY <3>2, <4>0, <4>2, RedFits
      <4> HIDE DEF r
      <4>5. \A y \in 0 .. 255 : y < 1000
        OBVIOUS
      <4>6. r \in 0 .. 255 => r < 1000
        BY ONLY <4>5
      <4>7. Len(tail) \in {3, 6} /\ AllHex(tail) /\ ~ Shifted => r \in 0 .. 255
        BY <4>3, <4>4
      <4> QED
        BY <4>6, <4>7
    <3> HIDE DEF r
    <3>6. CASE Len(tail) \notin {3, 6} \/ Found(tail) # Len(tail)
      <4>1. out' = << >> /\ pc' = "done"
        BY <3>3, <3>6 DEF Writes
      <4> QED
        BY <3>4, <3>6, <4>1
    <3>7. CASE ~ (Len(tail) \notin {3, 6} \/ Found(tail) # Len(tail))
      <4>1. Len(tail) \in {3, 6} /\ AllHex(tail)
        BY <3>4, <3>7
      <4>2. CASE r < 1000
        <5>1. out' = <<[k \in 1 .. 3 |-> r]>> /\ pc' = "done"
          BY <3>3, <3>7, <4>2 DEF Writes
        <5>2. \A x : <<x>> # << >>
          OBVIOUS
        <5> QED
          BY <4>1, <5>1, <5>2
      <4>3. CASE ~ (r < 1000)
        <5>1. pc' = "overrun"
          BY <3>3, <3>7, <4>3 DEF Stops
        <5>2. Shifted
          BY <3>5, <4>1, <4>3
        <5> QED
          BY <4>1, <5>1, <5>2
      <4> QED
        BY <4>2, <4>3
    <3> QED
      BY <3>6, <3>7
  <2>4. CASE PrintLoad \/ PrintRatio \/ PrintHuman \/ PrintUptime \/ PrintSmall
                \/ Color8 \/ Xterm256
    <3>1. call.row \notin RowsRgb
      BY <2>4 DEF PrintLoad, PrintRatio, PrintHuman, PrintUptime, PrintSmall,
                  Color8, Xterm256, Called, HumanRows, SmallRows, RatioRows,
                  Rows8, Rows256, RowsRgb
    <3> QED
      BY <2>1, <3>1 DEF RgbAllOrNothing, Printed
  <2> QED
    BY <2>2, <2>3, <2>4, OnePrints
<1>3. Inv => RgbAllOrNothing
  OBVIOUS
<1> QED
  BY <1>1, <1>2, <1>3, PTL DEF Spec

=============================================================================
