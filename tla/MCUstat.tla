------------------------------- MODULE MCUstat -------------------------------
(***************************************************************************)
(* The driver with the table of ustat.c.  Every row is selected by its own *)
(* name and by its name followed by more text; every pair of words of the  *)
(* families, and longer lists of the words whose rows share statics or can *)
(* fail, so that rows are asked for twice, refreshed, or follow a failure. *)
(***************************************************************************)
EXTENDS Ustat, UstatTable

CONSTANT MaxArgs    \* the longest argument list

FailingWords == { <<"fs", "t", "/">>, <<"fs", "u">>, <<"tcp", "6">>, <<"tcp", ".e">> }

SharedWords == FailingWords \cup { <<"mem", "f">>, <<"mem", "h">>, <<"bat", "%">>, <<"bat", "+">> }

PairWords == SharedWords \cup
    { <<"prose">>, <<"date", "%H">>, <<"ncpus">>, <<"-h">>, <<"load">>,
      <<"ut", "+h">>, <<"ut">>, <<"nusers">> }

EveryName == { UstatModules[j].name : j \in 1 .. UstatNModules - 1 }

\* "mem", "memf" and "memfx"; words no row knows, the empty one included.
EveryWord == EveryName \cup { n \o <<"x">> : n \in EveryName }
             \cup { <<"fs">>, <<"bat">>, << >> }

MCArgvs == { <<w>> : w \in EveryWord }
           \cup UNION { [1 .. k -> PairWords] : k \in {0, 1, 2} }
           \cup UNION { [1 .. k -> SharedWords] : k \in 3 .. MaxArgs }

=============================================================================
