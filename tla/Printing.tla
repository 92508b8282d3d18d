------------------------------ MODULE Printing ------------------------------
(***************************************************************************)
(* What the print functions write.  Each is one action: it is called with  *)
(* the statics of its file, or with the text of its argument, writes, and  *)
(* returns.  Several have a buffer of fixed size on their stack, into      *)
(* which a number is formatted without a check.                            *)
(***************************************************************************)
EXTENDS Numbers, Color

CONSTANTS
    Calls       \* the calls: records of a row and of what it prints

Number1(row, vals) == [row : row, val : vals]
Text(row, tails, layouts) == [row : row, tail : tails, layout : layouts]
Ratio(row, max) == [row : row, free : 0 .. max, total : 0 .. max]

SmallRows == {"uid", "nusers"}
HumanRows == {"memh", "memfh", "fsth", "fsfh", "fsuh"}
RatioRows == {"memr", "fsr"}

den == 1024     \* 1 << SI_LOAD_SHIFT is 65536

\* Loads and sizes are not negative, but for the load that was never read; an
\* int64_t is not as far from zero as an uint64_t reaches.
ASSUME CallsAssumption ==
    \A c \in Calls :
       /\ c.row = "load" => c.val \in Nat \cup {-den}
       /\ c.row \in RatioRows => c.free \in Nat /\ c.total \in Nat
       /\ c.row \in HumanRows \cup SmallRows => c.val \in Nat
       /\ c.row = "ut+h" => c.val \in Int /\ -Wrap <= c.val /\ c.val < Wrap
       /\ c.row \in Rows8 \cup Rows256 \cup RowsRgb => c.tail \in Seq(Char)

VARIABLES
    call,
    pc,     \* "overrun": a buffer was; "undefined": a conversion was
    out     \* the parts of the text written

vars == <<call, pc, out>>

Init ==
    /\ call \in Calls
    /\ pc = "print"
    /\ out = << >>

Writes(text) == out' = text /\ pc' = "done"
Stops(how) == pc' = how /\ UNCHANGED out

\* A row of rows is printed now.
Called(rows) == pc = "print" /\ call.row \in rows /\ UNCHANGED call

-----------------------------------------------------------------------------

\* One round of load_print.  write_double converts to an uint64_t, which is
\* undefined for a negative number.
PrintLoad ==
    /\ Called({"load"})
    /\ IF call.val < 0 THEN Stops("undefined")
                       ELSE Writes(<<write_double(call.val, den, 2)>>)

\* fs_ratio_print writes 0.0 for no blocks; mem_ratio_print divides by zero.
PrintRatio ==
    /\ Called(RatioRows)
    /\ IF call.total > 0
       THEN Writes(<<write_double(call.free, call.total, 2)>>)
       ELSE IF call.row = "fsr"
            THEN Writes(<<write_double(0, 1, 2)>>)
            ELSE Stops("undefined")

PrintHuman ==
    /\ Called(HumanRows)
    /\ Writes(<<write_uint64_human(call.val)>>)

PrintUptime ==
    /\ Called({"ut+h"})
    /\ Writes(uptime_print_human(call.val))

\* A slip: the buffer has as many bytes as an uid_t.
Bug_SmallBuf == 4

SmallBuf == 6   \* sizeof(buf)

\* uid_print, nusers_print.
PrintSmall ==
    /\ Called(SmallRows)
    /\ LET text == fmt_ulong(call.val) IN
       IF Len(text) <= SmallBuf THEN Writes(<<[k \in DOMAIN text |-> 48 + text[k]]>>)
                                ELSE Stops("overrun")

\* i > 8 lets i = 8 through, and the array ends before 4 * 8.
Color8 ==
    /\ Called(Rows8)
    /\ LET i == LastChar(call.row, call.tail) - 48 IN
       IF i < 0 \/ i > 8 THEN Writes(<< >>)
       ELSE IF i < 8 THEN Writes(<<color8(4 * i + offset[call.row])>>)
                     ELSE Stops("overrun")

\* A slip: color > 256.
Bug_Xterm256 ==
    /\ Called(Rows256)
    /\ LET n == scan_ulong(call.tail) IN
       IF n = 0 \/ ulong(call.tail) > 256 THEN Writes(<< >>)
                                          ELSE Writes(<<SubSeq(call.tail, 1, n)>>)

\* The digits are written as they stand.
Xterm256 ==
    /\ Called(Rows256)
    /\ LET n == scan_ulong(call.tail) IN
       IF n = 0 \/ ulong(call.tail) >= 256 THEN Writes(<< >>)
                                           ELSE Writes(<<SubSeq(call.tail, 1, n)>>)

\* A slip: characters that are no hex digits are not noticed.
Bug_PrintRgb ==
    /\ Called(RowsRgb)
    /\ IF Len(call.tail) \notin {3, 6} THEN Writes(<< >>)
       ELSE LET r == Rgb(call.tail, call.layout)["r"] IN
            IF r < 1000 THEN Writes(<<[k \in 1 .. 3 |-> r]>>) ELSE Stops("overrun")

\* r three times, through a buffer of three bytes; a semicolon after each.
PrintRgb ==
    /\ Called(RowsRgb)
    /\ IF Len(call.tail) \notin {3, 6} \/ Found(call.tail) # Len(call.tail)
       THEN Writes(<< >>)
       ELSE LET r == Rgb(call.tail, call.layout)["r"] IN
            IF r < 1000 THEN Writes(<<[k \in 1 .. 3 |-> r]>>) ELSE Stops("overrun")

Returned == pc # "print" /\ UNCHANGED vars

Next == \/ PrintLoad  \/ PrintRatio \/ PrintHuman \/ PrintUptime
        \/ PrintSmall \/ Color8     \/ Xterm256   \/ PrintRgb
        \/ Returned

Spec == Init /\ [][Next]_vars

-----------------------------------------------------------------------------
(***************************************************************************)
(* Properties.                                                             *)
(***************************************************************************)

Printed(rows) == call.row \in rows /\ pc # "print"
Written(rows) == call.row \in rows /\ pc = "done"

\* The number a text with two decimals stands for, in hundredths.
Hundredths(t) == 100 * t.int + 10 * t.frac[1] + t.frac[2]

\* num / d and h hundredths are at most half a hundredth apart.
Near(num, d, h) ==
    LET twice == 2 * (100 * num - d * h) IN -d <= twice /\ twice <= d

Fraction == IF call.row = "load" THEN <<call.val, den>>
            ELSE IF call.total = 0 THEN <<0, 1>> ELSE <<call.free, call.total>>

\* A load or a ratio has two decimals, and the number they make with the
\* integral part is the value rounded; or, if rounding carries into the
\* integral part, exactly one less, and the decimals are 00 (the carry is
\* lost).  The ratio of an empty file system is 0.00.
WrongByCarryOnly ==
    Written({"load"} \cup RatioRows) =>
        LET t == out[1]
            num == Fraction[1]
            d == Fraction[2]
        IN /\ Len(t.frac) = 2
           /\ \/ Near(num, d, Hundredths(t))
              \/ Near(num, d, Hundredths(t) + 100) /\ t.frac = <<0, 0>>

\* A size below 2 * base^5 has one of the suffixes k, m, g and t, or none; the
\* number before it is the size in that unit, below 2 * base, and at least 2 if
\* there is a suffix: no other suffix would do.
SuffixNamesUnit ==
    Written(HumanRows) /\ call.val < 2 * scale[5] =>
        LET t == out[1] IN
        /\ t.suf \in 0 .. 4
        /\ t.number.int = call.val \div scale[t.suf]
        /\ t.number.int < 2 * base
        /\ t.suf > 0 => t.number.int >= 2

Seconds(unit) == [d |-> day, h |-> hour, m |-> minute, s |-> 1][unit]

\* What is written before the letter of a unit; nothing is zero.
Amount(unit) ==
    LET ks == {k \in DOMAIN out : out[k].unit = unit}
    IN IF ks = {} THEN 0 ELSE out[CHOOSE k \in ks : TRUE].val

\* The parts of the uptime add up to it, or, for an uptime below zero (the
\* clock was set back), to what an uint64_t makes of it; each is smaller than
\* the unit before it, and none but the seconds is zero.
PartsAddUp ==
    Written({"ut+h"}) =>
        /\ Amount("d") * day + Amount("h") * hour + Amount("m") * minute + Amount("s")
              = call.val % Wrap
        /\ \A k \in 1 .. Len(out) : out[k].val = 0 => k = Len(out)
        /\ \A k \in 2 .. Len(out) :
              out[k].val * Seconds(out[k].unit) < Seconds(out[k - 1].unit)

\* An user id and a number of users can be read back by scan_ulong, and leave
\* their buffer of six bytes only from a million on.
SmallReadsBack ==
    Printed(SmallRows) =>
        IF call.val < 1000000
        THEN pc = "done" /\ scan_ulong(out[1]) = Len(out[1])
             /\ Number(out[1], Digit, 10) = call.val
        ELSE pc = "overrun"

\* README.md:56-59: the digit behind 8# and 8* is the color of the text, the
\* one behind B# and B* that of the background, and the * makes it bright.
\* Only the digit 8 leaves the array color8.
RightColor ==
    Printed(Rows8) =>
        LET c == LastChar(call.row, call.tail) IN
        IF pc = "overrun" THEN c = 56
        ELSE IF c \in 48 .. 55
        THEN out = <<[layer |-> IF call.row \in {"8#", "8*"} THEN 3 ELSE 4,
                      color |-> c - 48,
                      bright |-> call.row \in {"8*", "B*"}]>>
        ELSE out = << >>

\* What is written for 256# and 256* is a number below 256, although it is
\* the scanned number that is compared and the text that is written; longer
\* numbers than an unsigned long holds are left out.
NumberBelow256 ==
    Written(Rows256) /\ out # << >> =>
        LET n == Number(out[1], Digit, 10) IN n < WrapLong => n < 256

\* A color of three or of six hex digits, and nothing else, is written as a
\* whole, however r, g and b lie; or its number does not fit into the buffer of
\* three bytes, which happens only where r is shifted along with g or b.
RgbAllOrNothing ==
    Printed(RowsRgb) =>
        /\ (out # << >> \/ pc = "overrun")
              <=> /\ Len(call.tail) \in {3, 6}
                  /\ \A k \in DOMAIN call.tail : Hex[call.tail[k]] # {}
        /\ pc = "overrun" => \E c \in {"g", "b"} : "r" \in Above(call.layout, c)

\* README.md:62, "rgb# - fg-color, rgb": a color of six digits is written as
\* its three numbers.
ShowsRgb ==
    Written(RowsRgb) /\ out # << >> /\ Len(call.tail) = 6 =>
        out[1] = [k \in 1 .. 3 |-> Number(Piece(call.tail, k), Hex, 16)]

=============================================================================
