------------------------------ MODULE MCNUsers ------------------------------
(***************************************************************************)
(* Names over the letters 1 and 2: "b", "by" and "c"; "by" fills a ut_user *)
(* of two bytes, and may have a host of three letters behind it, which     *)
(* reaches to the end of the next element of the array.                    *)
(***************************************************************************)
EXTENDS NUsers

ThreeNames == { <<1>>, <<1, 2>>, <<2>> }
WithHost == ThreeNames \cup { <<1, 2, 2, 2, 2>> }

=============================================================================
