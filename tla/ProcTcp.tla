------------------------------ MODULE ProcTcp ------------------------------
(***************************************************************************)
(* Counting the sockets of /proc/net/tcp (ustat_tcp_linux.c).  The file is *)
(* read in blocks and parsed byte by byte: _read_byte refills a buffer     *)
(* whenever it is used up, and _process_proc_tcp, a chain of loops joined  *)
(* by goto, looks for the third field behind the first one of each line.   *)
(* The kernel may cut the file into blocks anywhere, and may fail.         *)
(*                                                                         *)
(* One action is one call of _read_byte and what the code does with the    *)
(* byte until the next call.                                               *)
(*                                                                         *)
(* scan_hex is defined for an unsigned long but declared, and called, for  *)
(* an uint32_t.  Where a long has 64 bits and the compiler puts val right  *)
(* before r (gcc 12 does, at every level of optimisation), it shifts the   *)
(* bytes of r.prev and r.cur along with val; elsewhere it does not.        *)
(***************************************************************************)
EXTENDS Integers, Sequences, FiniteSets

CONSTANTS
    lstore,         \* number of counters in store
    state_field,    \* the field the state is in
    BufSize,        \* size of the buffer
    Overlaps,       \* whether val and r may be neighbours: a set of BOOLEANs
    Files           \* what the file may hold: sequences of bytes

Bytes == 0 .. 255
NL == 10
SP == 32

\* The character of a digit, "0" .. "9" and "A" .. "F", and back.
Digit(d) == IF d < 10 THEN 48 + d ELSE 55 + d
DigitOf(c) == {d \in 0 .. 15 : c = Digit(d) \/ (d > 9 /\ c = Digit(d) + 32)}
IsHex(c) == DigitOf(c) # {}
HexValue(c) == CHOOSE d \in DigitOf(c) : TRUE

isspace(c) == c \in 9 .. 13 \cup {SP}

-----------------------------------------------------------------------------
(***************************************************************************)
(* The file: lines of words.  The first line is a title; any other one is  *)
(* a socket, whose state is in two digits behind state_field words.        *)
(***************************************************************************)

\* A word begins at r.
Border(f, r) == r \in 2 .. Len(f) /\ isspace(f[r - 1]) /\ ~ isspace(f[r])

\* The words that begin behind p and up to q.
Words(f, p, q) == {r \in p + 1 .. q : Border(f, r)}

\* The line behind the newline at p has its state at q.
StateOf(f, p, q) ==
    /\ p \in 1 .. q /\ f[p] = NL
    /\ \A r \in p + 1 .. q : f[r] # NL
    /\ Border(f, q)
    /\ Cardinality(Words(f, p, q)) = state_field + 1

StateAt(f, q) == 16 * HexValue(f[q]) + HexValue(f[q + 1])

ASSUME ProcTcpAssumption ==
    /\ lstore \in Nat \ {0}
    /\ state_field \in Nat \ {0}
    /\ BufSize \in Nat \ {0}
    /\ Overlaps \subseteq BOOLEAN

\* Each line has a state, and there is a counter for it.
ASSUME FilesAssumption ==
    /\ Files \subseteq Seq(Bytes)
    /\ \A f \in Files : \A p \in 1 .. Len(f) - 1 :
          f[p] = NL => \E q \in 1 .. Len(f) - 1 :
                          /\ StateOf(f, p, q)
                          /\ IsHex(f[q]) /\ IsHex(f[q + 1])
                          /\ StateAt(f, q) <= lstore

VARIABLES
    file,       \* the bytes of the file
    overlap,    \* whether val and r are neighbours in this build
    off,        \* file offset: bytes handed out by read()
    pos, end,   \* r.pos, r.end
    consumed,   \* r.consumed
    err,        \* r.err
    prev, cur,  \* r.prev, r.cur
    field,      \* r.field
    store,      \* the counters; index lstore is the word behind the array
    rc,         \* the result
    pc          \* the loop that calls _read_byte next

input == <<file, overlap>>
reader == <<off, pos, end, consumed, err, cur>>
vars == <<input, reader, prev, field, store, rc, pc>>

-----------------------------------------------------------------------------
Init ==
    /\ file \in Files
    /\ overlap \in Overlaps
    /\ off = 0
    /\ pos = 0 /\ end = 0
    /\ consumed = 0
    /\ err = 0
    /\ prev = 0 /\ cur = 0
    /\ field = 0
    /\ store = [s \in 0 .. lstore |-> 0]
    /\ rc = 0
    /\ pc = "seek_to_eol"

\* A slip: the first byte of a new block is skipped.
Bug_Refill ==
    /\ pos + 1 >= end
    /\ \E n \in 1 .. BufSize :
          /\ off + n <= Len(file)
          /\ end' = n
          /\ off' = off + n
          /\ pos' = IF n > 1 THEN 1 ELSE 0
          /\ cur' = file[off + pos' + 1]

\* The buffer is used up: read() fills it with any number of bytes.
Refill ==
    /\ pos + 1 >= end
    /\ \E n \in 1 .. BufSize :
          /\ off + n <= Len(file)
          /\ end' = n
          /\ off' = off + n
    /\ pos' = 0
    /\ cur' = file[off + 1]

\* A slip: the comparison with the end of the buffer is off by one.
Bug_Buffered ==
    /\ pos < end
    /\ pos' = pos + 1
    /\ cur' = IF off - end + pos' < Len(file)
              THEN file[off - end + pos' + 1] ELSE NL
    /\ UNCHANGED <<off, end>>

Buffered ==
    /\ pos + 1 < end
    /\ pos' = pos + 1
    /\ cur' = file[off - end + pos' + 1]   \* buf[pos]
    /\ UNCHANGED <<off, end>>

\* _read_byte returns 1, and the byte in cur.
ReadByte ==
    /\ Buffered \/ Refill
    /\ consumed' = consumed + 1
    /\ UNCHANGED err

\* _read_byte returns 0: the file ends, or read() fails.
ReadNothing ==
    /\ pos + 1 >= end
    /\ end' \in {0, -1}
    /\ end' = 0 => off = Len(file)
    /\ pos' = 0
    /\ err' = end'
    /\ UNCHANGED <<off, consumed, cur>>

-----------------------------------------------------------------------------

\* The first line is skipped like what is left of any other one.
SeekToEol ==
    /\ pc = "seek_to_eol"
    /\ ReadByte
    /\ pc' = IF cur' = NL THEN "skip_leading_ws" ELSE pc
    /\ UNCHANGED <<input, prev, field, store, rc>>

SkipLeadingWs ==
    /\ pc = "skip_leading_ws"
    /\ ReadByte
    /\ IF isspace(cur')
       THEN UNCHANGED <<prev, field, pc>>
       ELSE prev' = cur' /\ field' = 0 /\ pc' = "skip_n_fields"
    /\ UNCHANGED <<input, store, rc>>

\* A slip: a run of blanks counts as several borders of fields.
Bug_SkipNFields ==
    /\ pc = "skip_n_fields"
    /\ ReadByte
    /\ field' = IF isspace(prev) THEN field + 1 ELSE field
    /\ prev' = cur'
    /\ pc' = IF field' = state_field THEN "take_state" ELSE pc
    /\ UNCHANGED <<input, store, rc>>

SkipNFields ==
    /\ pc = "skip_n_fields"
    /\ ReadByte
    /\ field' = IF isspace(prev) /\ ~ isspace(cur') THEN field + 1 ELSE field
    /\ prev' = cur'
    /\ pc' = IF field' = state_field THEN "take_state" ELSE pc
    /\ UNCHANGED <<input, store, rc>>

\* prev and cur lie next to each other and are the two digits of the state.
\* Reading the first one shifts both by four bits, if val overlaps them.
SecondDigit == IF overlap THEN (16 * cur' + prev \div 16) % 256 ELSE cur'

val == 16 * HexValue(prev) + HexValue(SecondDigit)

\* scan_hex read two digits, and val > lstore does not hold.
Fits == IsHex(prev) /\ IsHex(SecondDigit) /\ val <= lstore

TakeState ==
    /\ pc = "take_state"
    /\ ReadByte
    /\ Fits
    /\ store' = [store EXCEPT ![val] = @ + 1]
    /\ rc' = 1
    /\ pc' = "seek_to_eol"
    /\ UNCHANGED <<input, prev, field>>

\* No two digits, or a state too big: goto end.
RejectState ==
    /\ pc = "take_state"
    /\ ReadByte
    /\ ~ Fits
    /\ pc' = "end"
    /\ UNCHANGED <<input, prev, field, store, rc>>

\* A slip: goto seek_to_eol where it should be goto end.
Bug_OutOfBytes ==
    /\ pc # "end"
    /\ ReadNothing
    /\ pc' = "seek_to_eol"
    /\ UNCHANGED <<input, prev, field, store, rc>>

\* Every loop leaves by goto end when there is no byte.
OutOfBytes ==
    /\ pc # "end"
    /\ ReadNothing
    /\ pc' = "end"
    /\ UNCHANGED <<input, prev, field, store, rc>>

Parse == \/ SeekToEol \/ SkipLeadingWs \/ SkipNFields
         \/ TakeState \/ RejectState   \/ OutOfBytes

Returned == pc = "end" /\ UNCHANGED vars

Next == Parse \/ Returned

\* read() on a file of /proc never blocks.
Spec == Init /\ [][Next]_vars /\ WF_vars(Parse)

-----------------------------------------------------------------------------
(***************************************************************************)
(* Properties.                                                             *)
(***************************************************************************)

TypeOK ==
    /\ off \in 0 .. Len(file)
    /\ end \in -1 .. BufSize
    /\ pos \in 0 .. BufSize - 1
    /\ end > 0 => pos < end
    /\ consumed \in Nat
    /\ err \in {0, -1}
    /\ {prev, cur} \subseteq Bytes
    /\ overlap \in Overlaps
    /\ field \in 0 .. state_field
    /\ store \in [0 .. lstore -> Nat]
    /\ rc \in {0, 1}
    /\ pc \in {"seek_to_eol", "skip_leading_ws", "skip_n_fields", "take_state",
               "end"}

\* The states of which n bytes have the second digit.
StatesIn(n) == {q \in 1 .. n - 1 : \E p \in 1 .. q : StateOf(file, p, q)}

CountedUpTo(n) ==
    LET places == StatesIn(n)
    IN \A s \in 0 .. lstore :
          store[s] = Cardinality({q \in places : StateAt(file, q) = s})

\* However the kernel cuts the file into blocks, and wherever it fails, each
\* line is counted once, under its own state, at the moment the second digit
\* of the state is read, and no line is skipped or counted twice; provided
\* that val does not overlap r.
CountsLines == ~ overlap => CountedUpTo(consumed)

\* The counters are complete when read() did not fail: no loop leaves by
\* goto end before the end of the file; provided that val does not overlap r.
CountsAll == ~ overlap /\ pc = "end" /\ err = 0 => CountedUpTo(Len(file))

\* The goto chain ends for every file and every cut.
Termination == <> (pc = "end")

\* The comment of ustat_tcp_linux.c:123, "the should-always-work method": the
\* counters are complete whenever read() did not fail, in every build.
AlwaysWorks == pc = "end" /\ err = 0 => CountedUpTo(Len(file))

=============================================================================
