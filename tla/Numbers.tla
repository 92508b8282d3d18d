------------------------------ MODULE Numbers ------------------------------
(***************************************************************************)
(* How ustat writes numbers: write_double for loads and ratios,            *)
(* write_uint64_human for sizes, uptime_print_human for the uptime.        *)
(*                                                                         *)
(* A double is a fraction num / den; the loads of Linux are fractions with *)
(* a power of two below, and exact.  A size counts in units of base, which *)
(* is 1000 in the code; the 64 bits of the code end at 18 * base^6.        *)
(***************************************************************************)
EXTENDS Integers, Sequences, FiniteSetsExt

CONSTANTS
    base,               \* 1000
    day, hour, minute,  \* 86400, 3600, 60
    Wrap                \* 2^64, where an uint64_t wraps round

ASSUME NumbersAssumption ==
    /\ {base, day, hour, minute} \subseteq Nat \ {0, 1}
    /\ day % hour = 0 /\ hour % minute = 0
    /\ Wrap \in Nat /\ Wrap > day

\* The decimal digits of u, at least one.
fmt_ulong(u) ==
    LET len == Min({l \in 1 .. 9 : u < 10 ^ l} \cup {10})
    IN [k \in 1 .. len |-> (u \div 10 ^ (len - k)) % 10]

Zeros(k) == [j \in 1 .. k |-> 0]

\* A slip: the fraction is not filled up with zeros.
Bug_write_double(num, den, prec) ==
    LET s == 10 ^ prec
        rounded == (2 * num * s + den) \div (2 * den)
    IN [int |-> num \div den, frac |-> fmt_ulong(rounded % s)]

\* The integral part is cut off before, the fraction after rounding.
write_double(num, den, prec) ==
    LET s == 10 ^ prec
        rounded == (2 * num * s + den) \div (2 * den)   \* val * s + 0.5
        digits == fmt_ulong(rounded % s)
    IN [int |-> num \div den, frac |-> Zeros(prec - Len(digits)) \o digits]

min == 1                    \* every caller passes 1
sizeof_human_suf == 6     \* "_kmgt" and a NUL

\* scale after k rounds of the loop; suf may go up to last_suf + 1.
scale[k \in 0 .. sizeof_human_suf + 1] == IF k = 0 THEN 1 ELSE base * scale[k - 1]

\* v is still big after k rounds.
Big(val, k) == (val \div scale[k]) \div base > min

\* A slip: one suffix less.
Bug_Rounds(val) ==
    Max({k \in 0 .. sizeof_human_suf - 3 : \A j \in 0 .. k - 1 : Big(val, j)})

\* The rounds of the loop.
Rounds(val) == Max({k \in DOMAIN scale : \A j \in 0 .. k - 1 : Big(val, j)})

\* suf = human_suf + k, and no suffix is written for k = 0.
write_uint64_human(val) ==
    LET k == Rounds(val) IN
    [number |-> write_double(val, scale[k], 2), suf |-> k]

Part(val, unit) == [val |-> val % Wrap, unit |-> unit]

\* A slip: the hours are not taken away before the minutes.
Bug_uptime_print_human(ut) ==
    LET d == IF ut >= day THEN <<Part(ut \div day, "d")>> ELSE << >>
        u1 == IF ut >= day THEN ut % day ELSE ut
        h == IF u1 >= hour THEN <<Part(u1 \div hour, "h")>> ELSE << >>
        m == IF u1 >= minute THEN <<Part(u1 \div minute, "m")>> ELSE << >>
        u3 == IF u1 >= minute THEN u1 % minute ELSE u1
    IN d \o h \o m \o <<Part(u3, "s")>>

\* A unit that is not there is left out; seconds are always there, and all
\* there is for an uptime below zero.
uptime_print_human(ut) ==
    LET d == IF ut >= day THEN <<Part(ut \div day, "d")>> ELSE << >>
        u1 == IF ut >= day THEN ut % day ELSE ut
        h == IF u1 >= hour THEN <<Part(u1 \div hour, "h")>> ELSE << >>
        u2 == IF u1 >= hour THEN u1 % hour ELSE u1
        m == IF u2 >= minute THEN <<Part(u2 \div minute, "m")>> ELSE << >>
        u3 == IF u2 >= minute THEN u2 % minute ELSE u2
    IN d \o h \o m \o <<Part(u3, "s")>>

=============================================================================
