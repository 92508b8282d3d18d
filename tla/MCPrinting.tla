----------------------------- MODULE MCPrinting -----------------------------
(***************************************************************************)
(* The calls: every load below 3, the load that was never read, and every  *)
(* ratio of small numbers; sizes through all suffixes; uptimes from below  *)
(* zero to five short days; ids at both sides of every power of ten; every *)
(* text of up to three characters (digits, letters of both cases, and the  *)
(* neighbours of digits and letters) and longer ones of fewer characters.  *)
(***************************************************************************)
EXTENDS Printing

CONSTANT MaxLong    \* the length of the longest text

Chars == { 47, 48, 50, 53, 54, 55, 56, 57, 58, 65, 97, 102, 103 }
FewChars == { 49, 50, 102, 103 }

Tails == UNION { [1 .. k -> Chars] : k \in 0 .. 3 }
         \cup UNION { [1 .. k -> FewChars] : k \in 4 .. MaxLong }

Layouts == { << >>, <<"g", "r">>, <<"r", "g", "b">>, <<"b", "g", "r">> }

SmallNumbers == UNION { {10 ^ k - 1, 10 ^ k} : k \in 0 .. 9 } \cup {65534, 2147483647}

Numbers1 ==
    Number1({"load"}, {-den} \cup 0 .. 3 * den)
    \cup Number1({"fsth"}, 0 .. 5 * base ^ 6)
    \cup Number1({"ut+h"}, -50 .. 5 * day)
    \cup Number1(SmallRows, SmallNumbers)

MCCalls ==
    Numbers1 \cup Ratio(RatioRows, 120)
    \cup Text(Rows8 \cup Rows256, Tails, {<< >>})
    \cup Text(RowsRgb, Tails, Layouts)

RgbCalls == Text(RowsRgb, Tails, {<< >>})

=============================================================================
