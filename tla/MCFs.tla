-------------------------------- MODULE MCFs --------------------------------
(***************************************************************************)
(* The root, a directory and one below it, one below /dev, a file system   *)
(* without blocks and a directory with a blank.                            *)
(***************************************************************************)
EXTENDS Fs

Home == <<"/home">>
Ann == <<"/home", "/ann">>
DevShm == <<"/dev", "/shm">>
Run == <<"/run">>
Blank == <<"/my disk">>

SomePoints == {Root, Home, Ann, DevShm, Run, Blank}
SomePseudo == {Run}
SomeEscaped == {Blank}

=============================================================================
