----------------------------- MODULE MCProcTcp -----------------------------
(***************************************************************************)
(* Files of up to MaxRows lines; lines differ in their indentation and in  *)
(* their state, and a buffer of a few bytes is cut everywhere.             *)
(***************************************************************************)
EXTENDS ProcTcp, SequencesExt

CONSTANTS MaxRows, RowStates

Rows == [indent : {0, 2}, state : RowStates]

\* " sl A  B ", and then "  0: 1 2  st 3" with the state in two digits.
Title == <<SP, 115, 108, SP, 65, SP, SP, 66, SP, NL>>

Line(row) ==
    [k \in 1 .. row.indent |-> SP]
    \o <<Digit(0), 58, SP, Digit(1), SP, Digit(2), SP, SP>>
    \o <<Digit(row.state \div 16), Digit(row.state % 16)>>
    \o <<SP, Digit(3), NL>>

MCFiles ==
    { Title \o FlattenSeq([k \in DOMAIN rows |-> Line(rows[k])]) :
         rows \in UNION { [1 .. n -> Rows] : n \in 0 .. MaxRows } }

=============================================================================
