----------------------------- MODULE StatusLine -----------------------------
(***************************************************************************)
(* What ustat promises to whoever reads its standard output (a tmux status *)
(* bar): it first gathers, and may change what it has gathered or give up, *)
(* writing nothing.  Then what was gathered is fixed, and every part of    *)
(* the line that stems from one source shows the same snapshot of it.      *)
(***************************************************************************)
EXTENDS Sequences

CONSTANTS
    Rows,       \* what an entry of the line can be
    Sources,    \* the sources gathered before anything is printed
    SourceOf,   \* row -> its source, or something outside Sources
    Values,     \* what a source can hold
    Catalogue   \* the help text

VARIABLES stage, snapshot, line

vars == <<stage, snapshot, line>>

Init ==
    /\ stage = "gathering"
    /\ snapshot \in [Sources -> Values]
    /\ line = << >>

Gather ==
    /\ stage = "gathering"
    /\ snapshot' \in [Sources -> Values]
    /\ UNCHANGED <<stage, line>>

Help ==
    /\ stage = "gathering"
    /\ stage' = "ended"
    /\ line' = Catalogue
    /\ UNCHANGED snapshot

GiveUp ==
    /\ stage = "gathering"
    /\ stage' = "ended"
    /\ UNCHANGED <<snapshot, line>>

Commit ==
    /\ stage = "gathering"
    /\ stage' = "printing"
    /\ UNCHANGED <<snapshot, line>>

Emit ==
    /\ stage = "printing"
    /\ \E r \in Rows, v \in Values :
          /\ SourceOf[r] \in Sources => v = snapshot[SourceOf[r]]
          /\ line' = Append(line, [row |-> r, value |-> v])
    /\ UNCHANGED <<stage, snapshot>>

End ==
    /\ stage = "printing"
    /\ stage' = "ended"
    /\ UNCHANGED <<snapshot, line>>

Next == Gather \/ Help \/ GiveUp \/ Commit \/ Emit \/ End

Spec == Init /\ [][Next]_vars

=============================================================================
