-------------------------------- MODULE Color --------------------------------
(***************************************************************************)
(* The color rows (ustat_color.c): the text behind the name of the row is  *)
(* scanned for one digit, a decimal number or a color in hex digits.  A    *)
(* text is a sequence of characters.                                       *)
(*                                                                         *)
(* scan_hex shifts an unsigned long where rgb_print has an uint32_t.  With *)
(* a long of 64 bits that shifts the variable above it along; which of r,  *)
(* g and b lie above which depends on the compiler (gcc 12 -O1 puts g      *)
(* right below r, -O2 keeps them apart).                                   *)
(***************************************************************************)
EXTENDS Integers, Sequences, FiniteSetsExt, SequencesExt

CONSTANT WrapLong   \* 2^64, where the unsigned long of scan_ulong wraps round

ASSUME ColorAssumption == WrapLong \in Nat /\ WrapLong > 256

Rows8 == {"8#", "8*", "B#", "B*"}
Rows256 == {"256#", "256*"}
RowsRgb == {"rgb#", "rgb*"}

\* The value of a digit, or of a hex digit; a set without or with one member.
Char == 1 .. 127
Digit == [c \in Char |-> {d \in 0 .. 9 : c = 48 + d}]
Hex == [c \in Char |->
          Digit[c] \cup {d \in 10 .. 15 : c = 55 + d \/ c = 87 + d}]

\* The length of the longest start of t whose characters all have a value.
Scanned(t, Value) ==
    Max({k \in 0 .. Len(t) : \A j \in 1 .. k : Value[t[j]] # {}})

The(S) == CHOOSE x \in S : TRUE

\* n[k] is what the first k characters make.
Number(t, Value, radix) ==
    LET n[k \in 0 .. Len(t)] ==
            IF k = 0 THEN 0 ELSE radix * n[k - 1] + The(Value[t[k]])
    IN n[Len(t)]

\* scan_ulong: the number of digits, and their value.
scan_ulong(t) == Scanned(t, Digit)
ulong(t) == Number(SubSeq(t, 1, scan_ulong(t)), Digit, 10) % WrapLong

-----------------------------------------------------------------------------

offset == [r \in Rows8 |-> CASE r = "8#" -> 0 [] r = "8*" -> 1
                             [] r = "B#" -> 2 [] r = "B*" -> 3]

\* s[l - 1]: the last character of the argument, '#' or '*' if tail is empty.
LastChar(row, tail) ==
    IF tail # << >> THEN Last(tail) ELSE IF row \in {"8#", "B#"} THEN 35 ELSE 42

\* A slip: the foreground and the background of a color are exchanged.
Bug_color8(index) ==
    [layer |-> IF index % 4 < 2 THEN 4 ELSE 3, color |-> index \div 4,
     bright |-> index % 2 = 1]

\* color8[index]: four strings for each color, foreground and background,
\* normal and bright.
color8(index) ==
    [layer |-> IF index % 4 < 2 THEN 3 ELSE 4, color |-> index \div 4,
     bright |-> index % 2 = 1]

-----------------------------------------------------------------------------

\* The variable that 64 bits at c reach into.
Above(layout, c) == {layout[k] : k \in {j \in 2 .. Len(layout) : layout[j - 1] = c}}

\* scan_hex(&s[off], l, &c): stops at the first character that is no digit.
scan_hex(vals, c, layout, t) ==
    LET n == Scanned(t, Hex) IN
    [d \in DOMAIN vals |->
        IF d = c THEN vals[c] * 16 ^ n + Number(SubSeq(t, 1, n), Hex, 16)
        ELSE IF d \in Above(layout, c) THEN vals[d] * 16 ^ n ELSE vals[d]]

\* The piece of tail for the k-th color; the digits found in all three.
Piece(tail, k) == LET w == Len(tail) \div 3 IN SubSeq(tail, w * (k - 1) + 1, w * k)
Found(tail) == Scanned(Piece(tail, 1), Hex) + Scanned(Piece(tail, 2), Hex)
                   + Scanned(Piece(tail, 3), Hex)

\* r, g and b after the three calls of scan_hex; three digits count twice.
Rgb(tail, layout) ==
    LET none == [c \in {"r", "g", "b"} |-> 0]
        red == scan_hex(none, "r", layout, Piece(tail, 1))
        green == scan_hex(red, "g", layout, Piece(tail, 2))
        blue == scan_hex(green, "b", layout, Piece(tail, 3))
    IN [c \in {"r", "g", "b"} |-> IF Len(tail) = 3 THEN 17 * blue[c] ELSE blue[c]]

=============================================================================
