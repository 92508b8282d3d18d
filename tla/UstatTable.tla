----------------------------- MODULE UstatTable -----------------------------
(***************************************************************************)
(* The table modules[] of ustat.c.  A name is cut into tokens where the    *)
(* names of two rows, or a name and an argument, part: "tcp6.e" is         *)
(* <<"tcp", "6", ".e">>.  No token is the beginning of another one that    *)
(* may stand in its place, so that a name starts with another in the code  *)
(* exactly when the token sequences do.                                    *)
(***************************************************************************)
EXTENDS Integers, Sequences

Row(name, family) == [name |-> name, family |-> family]

\* The suffixes of the rows of tcp, tcp4 and tcp6: .e .l .c and none, in
\* the order of the table.
TcpRows(prefix) ==
    << Row(prefix \o <<".e">>, "tcp"), Row(prefix \o <<".l">>, "tcp"),
       Row(prefix \o <<".c">>, "tcp"), Row(prefix, "tcp") >>

\* Row 0 is the row of the empty name; it is kept out of the sequence.
ModuleRows ==
    << Row(<<"%">>, "text"),          Row(<<"nl">>, "text"),
       Row(<<"load">>, "load"),
       Row(<<"ut", "+h">>, "uptime"), Row(<<"ut">>, "uptime"),
       Row(<<"date">>, "date"),       Row(<<"uid">>, "sys"),
       Row(<<"user">>, "sys"),        Row(<<"nusers">>, "nusers"),
       Row(<<"nproc">>, "sys"),       Row(<<"ncpus">>, "sys"),
       Row(<<"bat", "%">>, "bat"),    Row(<<"bat", "+", "h">>, "bat"),
       Row(<<"bat", "+">>, "bat"),
       Row(<<"mem", "f", "h">>, "mem"), Row(<<"mem", "f">>, "mem"),
       Row(<<"mem", "r">>, "mem"),    Row(<<"mem", "h">>, "mem"),
       Row(<<"mem">>, "mem"),
       Row(<<"fs", "t", "h">>, "fs"), Row(<<"fs", "t">>, "fs"),
       Row(<<"fs", "r">>, "fs"),
       Row(<<"fs", "f", "h">>, "fs"), Row(<<"fs", "f">>, "fs"),
       Row(<<"fs", "u", "h">>, "fs"), Row(<<"fs", "u">>, "fs") >>
    \o TcpRows(<<"tcp", "6">>) \o TcpRows(<<"tcp", "4">>)
    \o << Row(<<"tcp", "dump">>, "tcp") >> \o TcpRows(<<"tcp">>)
    \o << Row(<<"coff">>, "text"),
          Row(<<"8", "#">>, "text"),   Row(<<"8", "*">>, "text"),
          Row(<<"B", "#">>, "text"),   Row(<<"B", "*">>, "text"),
          Row(<<"256", "#">>, "text"), Row(<<"256", "*">>, "text"),
          Row(<<"rgb", "#">>, "text"), Row(<<"rgb", "*">>, "text") >>

UstatNModules == Len(ModuleRows) + 1

UstatModules ==
    [j \in 0 .. Len(ModuleRows) |->
        IF j = 0 THEN Row(<< >>, "text") ELSE ModuleRows[j]]

=============================================================================
