--------------------------- MODULE ProcTcpProofs ---------------------------
(***************************************************************************)
(* Proofs about the reader of /proc/net/tcp, for every file whose lines    *)
(* have a state, whatever else is in them, for every cut into blocks and   *)
(* every failure of read(): the byte in cur is the one at consumed, each   *)
(* loop knows how many words of the line it has passed, and so each state  *)
(* is counted once.                                                        *)
(***************************************************************************)
EXTENDS ProcTcp, FiniteSetTheorems, TLAPS

-----------------------------------------------------------------------------
(***************************************************************************)
(* Words and states in a file, without the program.                        *)
(***************************************************************************)

LEMMA WordsFinite ==
    ASSUME NEW f, NEW p \in Nat, NEW q \in Nat
    PROVE  IsFiniteSet(Words(f, p, q)) /\ Cardinality(Words(f, p, q)) \in Nat
<1>1. IsFiniteSet(p + 1 .. q)
  BY FS_Interval
<1>2. Words(f, p, q) \subseteq p + 1 .. q
  BY DEF Words
<1> QED
  BY <1>1, <1>2, FS_Subset, FS_CardinalityType

\* One byte on there is one word more, or there are the same.
LEMMA WordsOneOn ==
    ASSUME NEW f, NEW p \in Nat, NEW q \in Nat, p <= q
    PROVE  Cardinality(Words(f, p, q + 1)) =
              Cardinality(Words(f, p, q)) + (IF Border(f, q + 1) THEN 1 ELSE 0)
<1>1. IsFiniteSet(Words(f, p, q)) /\ Cardinality(Words(f, p, q)) \in Nat
  BY WordsFinite
<1>2. CASE Border(f, q + 1)
  <2>1. Words(f, p, q + 1) = Words(f, p, q) \cup {q + 1}
    BY <1>2 DEF Words
  <2>2. q + 1 \notin Words(f, p, q)
    BY DEF Words
  <2> QED
    BY <1>1, <1>2, <2>1, <2>2, FS_AddElement
<1>3. CASE ~ Border(f, q + 1)
  <2>1. Words(f, p, q + 1) = Words(f, p, q)
    BY <1>3 DEF Words
  <2> QED
    BY <1>1, <1>3, <2>1
<1> QED
  BY <1>2, <1>3

\* Further on there are no fewer words.
LEMMA NoFewerWords ==
    ASSUME NEW f, NEW p \in Nat, NEW n \in Nat, NEW q \in Nat, q <= n
    PROVE  Cardinality(Words(f, p, q)) <= Cardinality(Words(f, p, n))
<1>1. Words(f, p, q) \subseteq Words(f, p, n)
  BY DEF Words
<1> QED
  BY <1>1, WordsFinite, FS_Subset

\* At a border there are more words than before it.
LEMMA MoreWords ==
    ASSUME NEW f, NEW p \in Nat, NEW n \in Nat, NEW q \in Nat,
           p < q, n < q, Border(f, q)
    PROVE  Cardinality(Words(f, p, n)) < Cardinality(Words(f, p, q))
<1>1. /\ IsFiniteSet(Words(f, p, n)) /\ Cardinality(Words(f, p, n)) \in Nat
      /\ IsFiniteSet(Words(f, p, q)) /\ Cardinality(Words(f, p, q)) \in Nat
  BY WordsFinite
<1>2. Words(f, p, n) \subseteq Words(f, p, q) /\ q \in Words(f, p, q)
      /\ q \notin Words(f, p, n)
  BY DEF Words
<1> QED
  BY <1>1, <1>2, FS_Subset

\* A line has one state.
LEMMA OneState ==
    ASSUME NEW f, NEW p \in Nat, NEW q \in Nat, NEW r \in Nat,
           StateOf(f, p, q), StateOf(f, p, r)
    PROVE  q = r
<1>1. /\ Cardinality(Words(f, p, q)) = Cardinality(Words(f, p, r))
      /\ Border(f, q) /\ Border(f, r)
      /\ p <= q /\ p <= r
  BY DEF StateOf
<1>2. Cardinality(Words(f, p, q)) \in Nat /\ Cardinality(Words(f, p, r)) \in Nat
  BY WordsFinite
<1>3. p < q /\ p < r
  BY <1>1 DEF StateOf, Border, isspace, NL
<1>4. ~ (q < r)
  BY <1>1, <1>2, <1>3, MoreWords
<1>5. ~ (r < q)
  BY <1>1, <1>2, <1>3, MoreWords
<1> QED
  BY <1>4, <1>5

\* A place is in one line.
LEMMA OneLine ==
    ASSUME NEW f, NEW n \in Nat, NEW p \in 1 .. n, NEW r \in 1 .. n,
           f[p] = NL, f[r] = NL,
           \A x \in p + 1 .. n : f[x] # NL,
           \A x \in r + 1 .. n : f[x] # NL
    PROVE  p = r
<1>1. ~ (p < r) /\ ~ (r < p)
  OBVIOUS
<1> QED
  BY <1>1

-----------------------------------------------------------------------------
(***************************************************************************)
(* The invariant.                                                          *)
(***************************************************************************)

\* cur is the byte at consumed; before the first read() nothing is.
Reader ==
    /\ file \in Files
    /\ end > 0 => /\ pos < end /\ end <= off
                  /\ consumed = off - end + pos + 1
                  /\ cur = file[consumed]
    /\ end <= 0 /\ pc # "end" => end = 0 /\ pos = 0 /\ off = 0 /\ consumed = 0

\* The states of all lines so far have been read.
NoneOpen ==
    \A p \in 1 .. consumed :
       file[p] = NL => \E q \in 1 .. consumed - 1 : StateOf(file, p, q)

\* The line has been blank so far.
Blank ==
    \E p \in 1 .. consumed :
       /\ file[p] = NL
       /\ \A r \in p + 1 .. consumed : isspace(file[r]) /\ file[r] # NL

\* field is the number of the word, from 0.
InWord ==
    /\ prev = file[consumed] /\ field < state_field
    /\ \E p \in 1 .. consumed :
          /\ file[p] = NL
          /\ \A r \in p + 1 .. consumed : file[r] # NL
          /\ Cardinality(Words(file, p, consumed)) = field + 1

\* The first digit of the state has been read.
AtState ==
    /\ prev = file[consumed]
    /\ \E p \in 1 .. consumed : StateOf(file, p, consumed)

Place ==
    /\ pc = "seek_to_eol" => NoneOpen
    /\ pc = "skip_leading_ws" => Blank
    /\ pc = "skip_n_fields" => InWord
    /\ pc = "take_state" => AtState

\* Without a failure the parser stops at the end of the file only.
Complete == ~ overlap /\ pc = "end" /\ err = 0 => consumed = Len(file)

IInv == TypeOK /\ Reader /\ Place /\ CountsLines /\ Complete

-----------------------------------------------------------------------------
(***************************************************************************)
(* _read_byte.                                                             *)
(***************************************************************************)

LEMMA FilesAreSequences == \A f \in Files : Len(f) \in Nat /\ f \in [1 .. Len(f) -> Bytes]
  BY FilesAssumption

\* The byte read is the next one of the file, wherever blocks end.
LEMMA NextByte ==
    ASSUME TypeOK, Reader, pc # "end", ReadByte, UNCHANGED file
    PROVE  /\ consumed' = consumed + 1 /\ consumed' \in 1 .. Len(file)
           /\ cur' = file[consumed'] /\ cur' \in Bytes
           /\ off' \in 0 .. Len(file) /\ end' \in 1 .. BufSize
           /\ pos' \in 0 .. BufSize - 1 /\ pos' < end' /\ err' = err
           /\ Reader'
<1>1. consumed' = consumed + 1 /\ err' = err /\ consumed \in Nat
  BY DEF ReadByte, TypeOK
<1>2. file \in Files /\ Len(file) \in Nat /\ file \in [1 .. Len(file) -> Bytes]
  BY FilesAreSequences DEF Reader
<1>3. CASE Buffered
  <2>1. /\ pos + 1 < end /\ pos' = pos + 1 /\ off' = off /\ end' = end
        /\ cur' = file[off - end + pos' + 1]
    BY <1>3 DEF Buffered
  <2>2. /\ pos \in Nat /\ off \in 0 .. Len(file) /\ end \in -1 .. BufSize
        /\ BufSize \in Nat
    BY ProcTcpAssumption DEF TypeOK
  <2>3. end > 0 /\ end <= off /\ consumed = off - end + pos + 1
    BY <2>1, <2>2 DEF Reader
  <2>4. /\ consumed' = off' - end' + pos' + 1 /\ consumed' \in 1 .. Len(file)
        /\ pos' < end' /\ end' > 0 /\ end' <= off'
        /\ end' \in 1 .. BufSize /\ pos' \in 0 .. BufSize - 1
    BY <1>1, <2>1, <2>2, <2>3
  <2>5. cur' = file[consumed']
    BY <2>1, <2>4
  <2>6. Reader'
    BY <1>2, <2>2, <2>4, <2>5 DEF Reader
  <2> QED
    BY <1>1, <1>2, <2>1, <2>2, <2>4, <2>5, <2>6
<1>4. CASE Refill
  <2>1. PICK n \in 1 .. BufSize : off + n <= Len(file) /\ end' = n /\ off' = off + n
    BY <1>4 DEF Refill
  <2>2. /\ pos \in Nat /\ off \in 0 .. Len(file) /\ end \in -1 .. BufSize
        /\ BufSize \in Nat
    BY ProcTcpAssumption DEF TypeOK
  <2>3. pos + 1 >= end /\ pos' = 0 /\ cur' = file[off + 1]
    BY <1>4 DEF Refill
  <2>4. consumed = off
    BY <2>2, <2>3 DEF Reader
  <2>5. /\ consumed' = off' - end' + pos' + 1 /\ consumed' \in 1 .. Len(file)
        /\ pos' < end' /\ end' > 0 /\ end' <= off' /\ off' \in 0 .. Len(file)
        /\ pos' \in 0 .. BufSize - 1 /\ end' \in 1 .. BufSize
    BY <1>1, <1>2, <2>1, <2>2, <2>3, <2>4
  <2>6. cur' = file[consumed']
    BY <1>1, <2>3, <2>4
  <2>7. Reader'
    BY <1>2, <2>1, <2>5, <2>6 DEF Reader
  <2> QED
    BY <1>1, <1>2, <2>5, <2>6, <2>7
<1> QED
  BY <1>3, <1>4 DEF ReadByte

\* Without a failure there is no byte at the end of the file only.
LEMMA NoByte ==
    ASSUME TypeOK, Reader, pc # "end", ReadNothing, UNCHANGED file, pc' = "end"
    PROVE  /\ consumed' = consumed
           /\ err' \in {0, -1} /\ (err' = 0 => consumed = Len(file))
           /\ off' = off /\ cur' = cur /\ end' \in {0, -1} /\ pos' = 0
           /\ Reader'
<1>1. /\ pos + 1 >= end /\ end' \in {0, -1} /\ err' = end' /\ pos' = 0
      /\ end' = 0 => off = Len(file)
      /\ consumed' = consumed /\ off' = off /\ cur' = cur
  BY DEF ReadNothing
<1>2. consumed = off
  <2>1. /\ pos \in Nat /\ off \in 0 .. Len(file) /\ end \in -1 .. BufSize
        /\ BufSize \in Nat /\ Len(file) \in Nat
    BY ProcTcpAssumption, FilesAreSequences DEF TypeOK, Reader
  <2> QED
    BY <1>1, <2>1 DEF Reader
<1>3. ~ (end' > 0)
  BY <1>1
<1>4. Reader'
  BY <1>1, <1>3 DEF Reader
<1> QED
  BY <1>1, <1>2, <1>4

-----------------------------------------------------------------------------
(***************************************************************************)
(* Types.                                                                  *)
(***************************************************************************)

LEMMA HexValueType == \A c : IsHex(c) => HexValue(c) \in 0 .. 15
  BY DEF IsHex, HexValue, DigitOf

\* A state that fits has a counter, in every build.
LEMMA FitsIsIndex == Fits => val \in 0 .. lstore
<1> SUFFICES ASSUME Fits PROVE val \in 0 .. lstore
  OBVIOUS
<1>1. HexValue(prev) \in 0 .. 15 /\ HexValue(SecondDigit) \in 0 .. 15
  BY HexValueType DEF Fits
<1> QED
  BY <1>1, ProcTcpAssumption DEF Fits, val

LEMMA InitIInv == Init => IInv
<1> SUFFICES ASSUME Init PROVE IInv
  OBVIOUS
<1>1. file \in Files /\ Len(file) \in Nat
  BY FilesAreSequences DEF Init
<1>2. TypeOK
  BY <1>1, ProcTcpAssumption DEF Init, TypeOK, Bytes
<1>3. Reader /\ Complete
  BY <1>1 DEF Init, Reader, Complete
<1>4. Place
  BY DEF Init, Place, NoneOpen
<1>5. CountsLines
  <2>1. StatesIn(0) = {}
    BY DEF StatesIn
  <2>2. ASSUME NEW s \in 0 .. lstore
        PROVE  store[s] = Cardinality({q \in StatesIn(0) : StateAt(file, q) = s})
    <3>1. {q \in StatesIn(0) : StateAt(file, q) = s} = {}
      BY <2>1
    <3> QED
      BY <3>1, FS_EmptySet DEF Init
  <2> QED
    BY <2>2 DEF CountsLines, CountedUpTo, Init
<1> QED
  BY <1>2, <1>3, <1>4, <1>5 DEF IInv

LEMMA TypeOKStep == TypeOK /\ Reader /\ Place /\ Next => TypeOK' /\ Reader'
<1> SUFFICES ASSUME TypeOK, Reader, Place, Next
             PROVE  TypeOK' /\ Reader'
  OBVIOUS
<1>0. /\ lstore \in Nat \ {0} /\ state_field \in Nat \ {0} /\ BufSize \in Nat \ {0}
  BY ProcTcpAssumption
<1>a. /\ consumed \in Nat /\ err \in {0, -1} /\ {prev, cur} \subseteq Bytes
      /\ overlap \in Overlaps /\ field \in 0 .. state_field
      /\ store \in [0 .. lstore -> Nat] /\ rc \in {0, 1}
  BY DEF TypeOK
<1> DEFINE Byte == /\ consumed' = consumed + 1
                  /\ cur' \in Bytes /\ err' = err
                  /\ off' \in 0 .. Len(file) /\ end' \in 1 .. BufSize
                  /\ pos' \in 0 .. BufSize - 1 /\ pos' < end'
                  /\ Reader'
<1>1. CASE SeekToEol
  <2>1. pc # "end" /\ ReadByte /\ pc' \in {"seek_to_eol", "skip_leading_ws"}
        /\ UNCHANGED <<file, overlap, prev, field, store, rc>>
    BY <1>1 DEF SeekToEol, input
  <2>2. Byte
    BY <2>1, NextByte
  <2> QED
    BY <1>0, <1>a, <2>1, <2>2 DEF TypeOK
<1>2. CASE SkipLeadingWs
  <2>1. pc # "end" /\ ReadByte /\ pc' \in {"skip_leading_ws", "skip_n_fields"}
        /\ UNCHANGED <<file, overlap, store, rc>>
        /\ prev' \in {prev, cur'} /\ field' \in {field, 0}
    BY <1>2 DEF SkipLeadingWs, input
  <2>2. Byte
    BY <2>1, NextByte
  <2> QED
    BY <1>0, <1>a, <2>1, <2>2 DEF TypeOK
<1>3. CASE SkipNFields
  <2>1. pc # "end" /\ ReadByte /\ UNCHANGED <<file, overlap, store, rc>>
        /\ prev' = cur' /\ field' \in {field, field + 1} /\ pc = "skip_n_fields"
        /\ pc' = (IF field' = state_field THEN "take_state" ELSE "skip_n_fields")
    BY <1>3 DEF SkipNFields, input
  <2>2. Byte
    BY <2>1, NextByte
  <2>3. field < state_field
    BY <2>1 DEF Place, InWord
  <2>4. field' \in 0 .. state_field
    BY <1>0, <1>a, <2>1, <2>3
  <2> QED
    BY <1>0, <1>a, <2>1, <2>2, <2>4 DEF TypeOK
<1>4. CASE TakeState
  <2>1. pc # "end" /\ ReadByte /\ pc' = "seek_to_eol"
        /\ UNCHANGED <<file, overlap, prev, field>> /\ rc' = 1
        /\ store' = [store EXCEPT ![val] = @ + 1] /\ Fits
    BY <1>4 DEF TakeState, input
  <2>2. val \in 0 .. lstore
    BY <1>0, <2>1, FitsIsIndex
  <2>3. store' \in [0 .. lstore -> Nat]
    BY <1>a, <2>1, <2>2
  <2>4. Byte
    BY <2>1, NextByte
  <2> QED
    BY <1>0, <1>a, <2>1, <2>3, <2>4 DEF TypeOK
<1>5. CASE RejectState
  <2>1. pc # "end" /\ ReadByte /\ pc' = "end"
        /\ UNCHANGED <<file, overlap, prev, field, store, rc>>
    BY <1>5 DEF RejectState, input
  <2>2. Byte
    BY <2>1, NextByte
  <2> QED
    BY <1>0, <1>a, <2>1, <2>2 DEF TypeOK
<1>6. CASE OutOfBytes
  <2>1. pc # "end" /\ ReadNothing /\ pc' = "end"
        /\ UNCHANGED <<file, overlap, prev, field, store, rc>>
    BY <1>6 DEF OutOfBytes, input
  <2> QED
    BY <1>0, <1>a, <2>1, NoByte DEF TypeOK
<1>7. CASE Returned
  BY <1>7 DEF Returned, vars, input, reader, TypeOK, Reader
<1> QED
  BY <1>1, <1>2, <1>3, <1>4, <1>5, <1>6, <1>7 DEF Next, Parse

-----------------------------------------------------------------------------
(***************************************************************************)
(* Each loop knows its place in the line.                                  *)
(***************************************************************************)

\* A newline that a byte follows begins a line, and that has a state.
LEMMA StateAhead ==
    ASSUME file \in Files, NEW p \in Nat, 1 <= p, p < Len(file), file[p] = NL
    PROVE  \E q \in p + 1 .. Len(file) - 1 :
              /\ StateOf(file, p, q)
              /\ IsHex(file[q]) /\ IsHex(file[q + 1])
              /\ StateAt(file, q) <= lstore
<1>1. p \in 1 .. Len(file) - 1 /\ Len(file) \in Nat
  BY FilesAreSequences
<1>2. PICK q \in 1 .. Len(file) - 1 :
              /\ StateOf(file, p, q)
              /\ IsHex(file[q]) /\ IsHex(file[q + 1])
              /\ StateAt(file, q) <= lstore
  BY <1>1, FilesAssumption
<1>3. p <= q /\ ~ isspace(file[q])
  BY <1>2 DEF StateOf, Border
<1>4. isspace(file[p])
  BY DEF isspace, NL
<1> QED
  BY <1>1, <1>2, <1>3, <1>4

LEMMA SeekPlace ==
    ASSUME TypeOK, Reader, Place, SeekToEol
    PROVE  Place'
<1>1. /\ consumed' = consumed + 1 /\ consumed \in Nat /\ cur' = file[consumed + 1]
      /\ file' = file
  BY NextByte DEF SeekToEol, input, TypeOK
<1>2. NoneOpen /\ pc' = (IF cur' = NL THEN "skip_leading_ws" ELSE "seek_to_eol")
  BY DEF SeekToEol, Place
<1>3. CASE cur' = NL
  <2>1. /\ consumed + 1 \in 1 .. consumed + 1 /\ file[consumed + 1] = NL
        /\ \A r \in (consumed + 1) + 1 .. consumed + 1 :
              isspace(file[r]) /\ file[r] # NL
    BY <1>1, <1>3
  <2>2. \E p \in 1 .. consumed + 1 :
           /\ file[p] = NL
           /\ \A r \in p + 1 .. consumed + 1 : isspace(file[r]) /\ file[r] # NL
    BY <2>1
  <2>3. Blank'
    BY <1>1, <2>2 DEF Blank
  <2> QED
    BY <1>2, <1>3, <2>3 DEF Place
<1>4. CASE cur' # NL
  <2>1. ASSUME NEW p \in 1 .. consumed + 1, file[p] = NL
        PROVE  \E q \in 1 .. consumed : StateOf(file, p, q)
    <3>1. p \in 1 .. consumed
      BY <1>1, <1>4, <2>1
    <3> QED
      BY <1>1, <1>2, <2>1, <3>1 DEF NoneOpen
  <2>2. NoneOpen'
    BY <1>1, <2>1 DEF NoneOpen
  <2> QED
    BY <1>2, <1>4, <2>2 DEF Place
<1> QED
  BY <1>3, <1>4

LEMMA BlankPlace ==
    ASSUME TypeOK, Reader, Place, SkipLeadingWs
    PROVE  Place'
<1>1. /\ consumed' = consumed + 1 /\ consumed \in Nat /\ cur' = file[consumed + 1]
      /\ file' = file /\ consumed + 1 <= Len(file) /\ file \in Files
      /\ Len(file) \in Nat
  BY NextByte, FilesAreSequences DEF SkipLeadingWs, input, TypeOK, Reader
<1>2. /\ Blank
      /\ IF isspace(cur') THEN pc' = "skip_leading_ws"
         ELSE prev' = cur' /\ field' = 0 /\ pc' = "skip_n_fields"
  BY DEF SkipLeadingWs, Place
<1>3. PICK p \in 1 .. consumed :
         /\ file[p] = NL
         /\ \A r \in p + 1 .. consumed : isspace(file[r]) /\ file[r] # NL
  BY <1>2 DEF Blank
<1>4. PICK q \in p + 1 .. Len(file) - 1 : StateOf(file, p, q)
  BY <1>1, <1>3, StateAhead
<1>5. q > consumed
  BY <1>1, <1>3, <1>4 DEF StateOf, Border
<1>6. file[consumed + 1] # NL
  BY <1>1, <1>3, <1>4, <1>5 DEF StateOf
<1>7. CASE isspace(cur')
  <2>1. Blank'
    BY <1>1, <1>3, <1>6, <1>7 DEF Blank
  <2> QED
    BY <1>2, <1>7, <2>1 DEF Place
<1>8. CASE ~ isspace(cur')
  <2>1. isspace(file[consumed])
    BY <1>1, <1>3 DEF isspace, NL
  <2>2. Border(file, consumed + 1)
    BY <1>1, <1>3, <1>8, <2>1 DEF Border
  <2>3. Words(file, p, consumed) = {}
    BY <1>3 DEF Words, Border
  <2>a. Cardinality(Words(file, p, consumed)) = 0
    BY <2>3, FS_EmptySet
  <2>4. Cardinality(Words(file, p, consumed + 1)) = 1
    BY <1>1, <1>3, <2>2, <2>a, WordsOneOn
  <2>5. InWord'
    BY <1>1, <1>2, <1>3, <1>6, <1>8, <2>4, ProcTcpAssumption DEF InWord
  <2> QED
    BY <1>2, <1>8, <2>5 DEF Place
<1> QED
  BY <1>7, <1>8

LEMMA InWordPlace ==
    ASSUME TypeOK, Reader, Place, SkipNFields
    PROVE  Place'
<1>1. /\ consumed' = consumed + 1 /\ consumed \in Nat /\ cur' = file[consumed + 1]
      /\ file' = file /\ consumed + 1 <= Len(file) /\ file \in Files
      /\ Len(file) \in Nat /\ field \in Nat /\ state_field \in Nat
  <2>1. pc # "end" /\ ReadByte /\ file' = file
    BY DEF SkipNFields, input
  <2>2. file \in Files /\ consumed \in Nat /\ field \in Nat /\ state_field \in Nat
    BY ProcTcpAssumption DEF TypeOK, Reader
  <2> QED
    BY <2>1, <2>2, NextByte, FilesAreSequences
<1>2. /\ InWord
      /\ field' = IF isspace(prev) /\ ~ isspace(cur') THEN field + 1 ELSE field
      /\ prev' = cur'
      /\ pc' = IF field' = state_field THEN "take_state" ELSE "skip_n_fields"
  BY DEF SkipNFields, Place
<1>3. PICK p \in 1 .. consumed :
          /\ file[p] = NL
          /\ \A r \in p + 1 .. consumed : file[r] # NL
          /\ Cardinality(Words(file, p, consumed)) = field + 1
  BY <1>2 DEF InWord
<1>4. PICK q \in p + 1 .. Len(file) - 1 : StateOf(file, p, q)
  BY <1>1, <1>3, StateAhead
<1>5. q > consumed
  <2>1. Cardinality(Words(file, p, q)) = state_field + 1 /\ field < state_field
    BY <1>2, <1>4 DEF StateOf, InWord
  <2>2. q <= consumed => Cardinality(Words(file, p, q)) <= field + 1
    BY <1>1, <1>3, <1>4, NoFewerWords
  <2> QED
    BY <1>1, <1>4, <2>1, <2>2
<1>6. \A r \in p + 1 .. consumed + 1 : file[r] # NL
  BY <1>1, <1>3, <1>4, <1>5 DEF StateOf
<1>7. Border(file, consumed + 1) <=> isspace(prev) /\ ~ isspace(cur')
  BY <1>1, <1>2, <1>3 DEF Border, InWord
<1>8. Cardinality(Words(file, p, consumed + 1)) = field' + 1
  BY <1>1, <1>2, <1>3, <1>7, WordsOneOn
<1>9. CASE field' = state_field
  <2>1. Border(file, consumed + 1)
    BY <1>1, <1>2, <1>7, <1>9 DEF InWord
  <2>2. StateOf(file, p, consumed + 1)
    BY <1>1, <1>3, <1>6, <1>8, <1>9, <2>1 DEF StateOf
  <2>3. AtState'
    BY <1>1, <1>2, <2>2 DEF AtState
  <2> QED
    BY <1>2, <1>9, <2>3 DEF Place
<1>10. CASE field' # state_field
  <2>1. field' < state_field
    BY <1>1, <1>2, <1>10 DEF InWord
  <2>2. InWord'
    BY <1>1, <1>2, <1>3, <1>6, <1>8, <2>1 DEF InWord
  <2> QED
    BY <1>2, <1>10, <2>2 DEF Place
<1> QED
  BY <1>9, <1>10

\* A newline is no digit.
LEMMA NewlineNoDigit == ~ IsHex(NL)
<1>1. ASSUME NEW d \in 0 .. 15 PROVE NL # Digit(d) /\ NL # Digit(d) + 32
  <2>1. d \in Int /\ 0 <= d
    OBVIOUS
  <2>2. Digit(d) = 48 + d \/ Digit(d) = 55 + d
    BY DEF Digit
  <2> QED
    BY <2>1, <2>2 DEF NL
<1>2. DigitOf(NL) = {}
  BY <1>1 DEF DigitOf
<1> QED
  BY <1>2 DEF IsHex

\* Where the first digit has been read the second one follows.
LEMMA DigitsAhead ==
    ASSUME file \in Files, NEW n \in Nat, n + 1 <= Len(file),
           NEW p \in 1 .. n, StateOf(file, p, n)
    PROVE  /\ IsHex(file[n]) /\ IsHex(file[n + 1])
           /\ StateAt(file, n) <= lstore
           /\ file[n + 1] # NL
<1>1. Len(file) \in Nat
  BY FilesAreSequences
<1>2. PICK q \in p + 1 .. Len(file) - 1 :
              /\ StateOf(file, p, q)
              /\ IsHex(file[q]) /\ IsHex(file[q + 1])
              /\ StateAt(file, q) <= lstore
  BY <1>1, StateAhead DEF StateOf
<1>3. q = n
  BY <1>1, <1>2, OneState
<1>4. ~ IsHex(NL)
  BY NewlineNoDigit
<1> QED
  BY <1>2, <1>3, <1>4

LEMMA AtStatePlace ==
    ASSUME TypeOK, Reader, Place, TakeState
    PROVE  Place'
<1>1. /\ consumed' = consumed + 1 /\ consumed \in Nat
      /\ file' = file /\ consumed + 1 <= Len(file) /\ file \in Files
      /\ Len(file) \in Nat
  <2>1. pc # "end" /\ ReadByte /\ file' = file
    BY DEF TakeState, input
  <2>2. file \in Files /\ consumed \in Nat
    BY DEF TypeOK, Reader
  <2> QED
    BY <2>1, <2>2, NextByte, FilesAreSequences
<1>2. AtState /\ pc' = "seek_to_eol"
  BY DEF TakeState, Place
<1>3. PICK p \in 1 .. consumed : StateOf(file, p, consumed)
  BY <1>2 DEF AtState
<1>4. file[consumed + 1] # NL
  BY <1>1, <1>3, DigitsAhead
<1>5. ASSUME NEW r \in 1 .. consumed + 1, file[r] = NL
      PROVE  \E q \in 1 .. consumed : StateOf(file, r, q)
  <2>1. r <= p
    BY <1>1, <1>3, <1>4, <1>5 DEF StateOf
  <2>2. CASE r = p
    BY <1>1, <1>3, <2>2
  <2>3. CASE r < p
    <3>1. PICK q \in r + 1 .. Len(file) - 1 : StateOf(file, r, q)
      BY <1>1, <1>3, <1>5, <2>3, StateAhead
    <3>2. ~ (p <= q)
      BY <1>1, <1>3, <2>3, <3>1 DEF StateOf
    <3> QED
      BY <1>1, <1>3, <3>1, <3>2
  <2> QED
    BY <1>1, <1>3, <1>5, <2>1, <2>2, <2>3
<1>6. NoneOpen'
  BY <1>1, <1>5 DEF NoneOpen
<1> QED
  BY <1>2, <1>6 DEF Place

LEMMA PlaceStep == TypeOK /\ Reader /\ Place /\ Next => Place'
<1> SUFFICES ASSUME TypeOK, Reader, Place, Next PROVE Place'
  OBVIOUS
<1>1. CASE RejectState \/ OutOfBytes
  BY <1>1 DEF RejectState, OutOfBytes, Place
<1>2. CASE Returned
  BY <1>2 DEF Returned, vars, input, reader, Place, NoneOpen, Blank, InWord, AtState
<1> QED
  BY <1>1, <1>2, SeekPlace, BlankPlace, InWordPlace, AtStatePlace DEF Next, Parse

-----------------------------------------------------------------------------
(***************************************************************************)
(* Each state is counted once.                                             *)
(***************************************************************************)

\* The states s of which n bytes have the second digit.
Places(f, n, s) ==
    {q \in 1 .. n - 1 : (\E p \in 1 .. q : StateOf(f, p, q)) /\ StateAt(f, q) = s}

LEMMA PlacesFinite ==
    ASSUME NEW f, NEW n \in Nat, NEW s
    PROVE  IsFiniteSet(Places(f, n, s)) /\ Cardinality(Places(f, n, s)) \in Nat
<1>1. IsFiniteSet(1 .. n - 1)
  BY FS_Interval
<1>2. Places(f, n, s) \subseteq 1 .. n - 1
  BY DEF Places
<1> QED
  BY <1>1, <1>2, FS_Subset, FS_CardinalityType

\* Behind the first digit of a state there is one more place; anywhere else
\* there are the same.
LEMMA PlacesOneOn ==
    ASSUME NEW f, NEW n \in Nat, NEW s
    PROVE  Cardinality(Places(f, n + 1, s)) = Cardinality(Places(f, n, s)) +
              (IF (\E p \in 1 .. n : StateOf(f, p, n)) /\ StateAt(f, n) = s
               THEN 1 ELSE 0)
<1>1. IsFiniteSet(Places(f, n, s)) /\ Cardinality(Places(f, n, s)) \in Nat
  BY PlacesFinite
<1>2. n \notin Places(f, n, s)
  BY DEF Places
<1>3. CASE (\E p \in 1 .. n : StateOf(f, p, n)) /\ StateAt(f, n) = s
  <2>1. Places(f, n + 1, s) = Places(f, n, s) \cup {n}
    BY <1>3 DEF Places
  <2> QED
    BY <1>1, <1>2, <1>3, <2>1, FS_AddElement
<1>4. CASE ~ ((\E p \in 1 .. n : StateOf(f, p, n)) /\ StateAt(f, n) = s)
  <2>1. Places(f, n + 1, s) = Places(f, n, s)
    BY <1>4 DEF Places
  <2> QED
    BY <1>1, <1>4, <2>1
<1> QED
  BY <1>3, <1>4

\* What the properties count.
Counted(c, f, n) == \A s \in 0 .. lstore : c[s] = Cardinality(Places(f, n, s))

LEMMA CountsPlaces ==
    /\ CountedUpTo(consumed) <=> Counted(store, file, consumed)
    /\ CountedUpTo(consumed)' <=> Counted(store', file', consumed')
    /\ CountedUpTo(Len(file)) <=> Counted(store, file, Len(file))
<1>1. ASSUME NEW n, NEW s
      PROVE  /\ {q \in StatesIn(n) : StateAt(file, q) = s} = Places(file, n, s)
             /\ {q \in StatesIn(n)' : StateAt(file', q) = s} = Places(file', n, s)
  BY DEF StatesIn, Places
<1>2. StatesIn(consumed)' = {q \in 1 .. consumed' - 1 :
                                \E p \in 1 .. q : StateOf(file', p, q)}
  BY DEF StatesIn
<1>3. \A s : {q \in StatesIn(consumed)' : StateAt(file', q) = s}
                = Places(file', consumed', s)
  BY <1>2 DEF Places
<1>4. CountedUpTo(consumed) <=> Counted(store, file, consumed)
  BY <1>1 DEF CountedUpTo, Counted
<1>5. CountedUpTo(consumed)' <=> Counted(store', file', consumed')
  BY <1>3 DEF CountedUpTo, Counted
<1>6. CountedUpTo(Len(file)) <=> Counted(store, file, Len(file))
  BY <1>1 DEF CountedUpTo, Counted
<1> QED
  BY <1>4, <1>5, <1>6

LEMMA CountedOneOn ==
    ASSUME NEW c, NEW f, NEW n \in Nat, Counted(c, f, n),
           ~ \E p \in 1 .. n : StateOf(f, p, n)
    PROVE  Counted(c, f, n + 1)
<1>1. ASSUME NEW s \in 0 .. lstore
      PROVE  c[s] = Cardinality(Places(f, n + 1, s))
  <2>1. Cardinality(Places(f, n, s)) \in Nat
    BY PlacesFinite
  <2>2. Cardinality(Places(f, n + 1, s)) = Cardinality(Places(f, n, s)) + 0
    BY PlacesOneOn
  <2> QED
    BY <2>1, <2>2 DEF Counted
<1> QED
  BY <1>1 DEF Counted

LEMMA StateCounted ==
    ASSUME NEW c \in [0 .. lstore -> Nat], NEW f, NEW n \in Nat, Counted(c, f, n),
           \E p \in 1 .. n : StateOf(f, p, n),
           NEW x, x = StateAt(f, n)
    PROVE  Counted([c EXCEPT ![x] = @ + 1], f, n + 1)
<1> SUFFICES ASSUME NEW s \in 0 .. lstore
             PROVE  [c EXCEPT ![x] = @ + 1][s] = Cardinality(Places(f, n + 1, s))
  BY DEF Counted
<1>1. c[s] = Cardinality(Places(f, n, s))
  BY DEF Counted
<1>2. Cardinality(Places(f, n + 1, s)) =
         Cardinality(Places(f, n, s)) + (IF x = s THEN 1 ELSE 0)
  BY PlacesOneOn
<1>3. [c EXCEPT ![x] = @ + 1][s] = c[s] + (IF x = s THEN 1 ELSE 0)
  OBVIOUS
<1> QED
  BY <1>1, <1>2, <1>3

\* Outside of take_state, what was read last is not the first digit of a state.
LEMMA NotAtState ==
    ASSUME TypeOK, Reader, Place,
           pc \in {"seek_to_eol", "skip_leading_ws", "skip_n_fields"}
    PROVE  ~ \E p \in 1 .. consumed : StateOf(file, p, consumed)
<1> SUFFICES ASSUME NEW p \in 1 .. consumed, StateOf(file, p, consumed)
             PROVE  FALSE
  OBVIOUS
<1>1. /\ consumed \in Nat /\ file[p] = NL /\ ~ isspace(file[consumed])
      /\ \A r \in p + 1 .. consumed : file[r] # NL
      /\ Cardinality(Words(file, p, consumed)) = state_field + 1
  BY DEF StateOf, Border, TypeOK
<1>2. CASE pc = "seek_to_eol"
  <2>1. PICK q \in 1 .. consumed - 1 : StateOf(file, p, q)
    BY <1>1, <1>2 DEF Place, NoneOpen
  <2>2. q = consumed
    BY <1>1, <2>1, OneState
  <2> QED
    BY <1>1, <2>1, <2>2
<1>3. CASE pc = "skip_leading_ws"
  <2>1. PICK r \in 1 .. consumed :
           /\ file[r] = NL
           /\ \A x \in r + 1 .. consumed : isspace(file[x]) /\ file[x] # NL
    BY <1>3 DEF Place, Blank
  <2>2. isspace(file[consumed])
    BY <1>1, <2>1 DEF isspace, NL
  <2> QED
    BY <1>1, <2>2
<1>4. CASE pc = "skip_n_fields"
  <2>1. /\ field < state_field
        /\ \E r \in 1 .. consumed :
              /\ file[r] = NL
              /\ \A x \in r + 1 .. consumed : file[x] # NL
              /\ Cardinality(Words(file, r, consumed)) = field + 1
    BY <1>4 DEF Place, InWord
  <2>2. PICK r \in 1 .. consumed :
              /\ file[r] = NL
              /\ \A x \in r + 1 .. consumed : file[x] # NL
              /\ Cardinality(Words(file, r, consumed)) = field + 1
    BY <2>1
  <2>3. r = p
    BY <1>1, <2>2, OneLine
  <2>4. field \in Nat /\ state_field \in Nat
    BY ProcTcpAssumption DEF TypeOK
  <2> QED
    BY <1>1, <2>1, <2>2, <2>3, <2>4
<1> QED
  BY <1>2, <1>3, <1>4

\* The two digits are the state, in a build without the overlap.
LEMMA StateTaken ==
    ASSUME TypeOK, Reader, Place, pc = "take_state", ReadByte, UNCHANGED file,
           ~ overlap
    PROVE  /\ Fits /\ val = StateAt(file, consumed)
           /\ \E p \in 1 .. consumed : StateOf(file, p, consumed)
<1>1. /\ cur' = file[consumed + 1] /\ consumed + 1 <= Len(file)
      /\ consumed \in Nat /\ file \in Files
  BY NextByte DEF TypeOK, Reader
<1>2. prev = file[consumed] /\ \E p \in 1 .. consumed : StateOf(file, p, consumed)
  BY DEF Place, AtState
<1>3. /\ IsHex(file[consumed]) /\ IsHex(file[consumed + 1])
      /\ StateAt(file, consumed) <= lstore
  BY <1>1, <1>2, DigitsAhead
<1>4. SecondDigit = file[consumed + 1]
  BY <1>1 DEF SecondDigit
<1>5. val = StateAt(file, consumed)
  BY <1>2, <1>4 DEF val, StateAt
<1> QED
  BY <1>2, <1>3, <1>4, <1>5 DEF Fits

LEMMA CountsStep == IInv /\ Next => CountsLines' /\ Complete'
<1> SUFFICES ASSUME IInv, Next PROVE CountsLines' /\ Complete'
  OBVIOUS
<1>0. /\ TypeOK /\ Reader /\ Place /\ Complete /\ consumed \in Nat
      /\ ~ overlap => Counted(store, file, consumed)
  BY CountsPlaces DEF IInv, CountsLines, TypeOK
<1>a. /\ Counted(store', file', consumed') => CountsLines'
      /\ file' = file /\ overlap' = overlap
  BY CountsPlaces
     DEF CountsLines, Next, Parse, SeekToEol, SkipLeadingWs, SkipNFields, TakeState,
         RejectState, OutOfBytes, Returned, vars, input
<1>1. CASE SeekToEol \/ SkipLeadingWs \/ SkipNFields
  <2>1. /\ pc \in {"seek_to_eol", "skip_leading_ws", "skip_n_fields"}
        /\ ReadByte /\ store' = store /\ pc' # "end"
    BY <1>1 DEF SeekToEol, SkipLeadingWs, SkipNFields
  <2>2. consumed' = consumed + 1
    BY <2>1 DEF ReadByte
  <2>3. ~ overlap => Counted(store', file', consumed')
    BY <1>0, <1>a, <2>1, <2>2, NotAtState, CountedOneOn
  <2> QED
    BY <1>a, <2>1, <2>3 DEF CountsLines, Complete
<1>2. CASE TakeState
  <2>1. /\ pc = "take_state" /\ ReadByte /\ pc' = "seek_to_eol"
        /\ store' = [store EXCEPT ![val] = @ + 1]
    BY <1>2 DEF TakeState
  <2>2. consumed' = consumed + 1 /\ store \in [0 .. lstore -> Nat]
    BY <1>0, <2>1 DEF ReadByte, TypeOK
  <2>3. ~ overlap => Counted(store', file', consumed')
    <3> SUFFICES ASSUME ~ overlap PROVE Counted(store', file', consumed')
      OBVIOUS
    <3>1. /\ val = StateAt(file, consumed)
          /\ \E p \in 1 .. consumed : StateOf(file, p, consumed)
      BY <1>0, <1>a, <2>1, StateTaken
    <3>2. Counted([store EXCEPT ![val] = @ + 1], file, consumed + 1)
      BY <1>0, <2>2, <3>1, StateCounted
    <3> QED
      BY <1>a, <2>1, <2>2, <3>2
  <2> QED
    BY <1>a, <2>1, <2>3 DEF CountsLines, Complete
<1>3. CASE RejectState
  <2>1. pc = "take_state" /\ ReadByte /\ ~ Fits
    BY <1>3 DEF RejectState
  <2>2. overlap
    BY <1>0, <1>a, <2>1, StateTaken
  <2> QED
    BY <1>a, <2>2 DEF CountsLines, Complete
<1>4. CASE OutOfBytes
  <2>1. pc # "end" /\ ReadNothing /\ pc' = "end" /\ store' = store
    BY <1>4 DEF OutOfBytes
  <2>2. consumed' = consumed /\ (err' = 0 => consumed = Len(file))
    BY <1>0, <1>a, <2>1, NoByte
  <2> QED
    BY <1>0, <1>a, <2>1, <2>2 DEF CountsLines, Complete
<1>5. CASE Returned
  BY <1>0, <1>a, <1>5 DEF Returned, vars, reader, CountsLines, Complete
<1> QED
  BY <1>1, <1>2, <1>3, <1>4, <1>5 DEF Next, Parse

LEMMA IInvStep == IInv /\ [Next]_vars => IInv'
<1>1. CASE Next
  BY <1>1, TypeOKStep, PlaceStep, CountsStep DEF IInv
<1>2. CASE UNCHANGED vars
  BY <1>2 DEF vars, input, reader, IInv, TypeOK, Reader, Place, NoneOpen, Blank, InWord,
              AtState, CountsLines, CountedUpTo, StatesIn, Complete
<1> QED
  BY <1>1, <1>2

-----------------------------------------------------------------------------

\* The reader never looks behind its buffer or the file, and never counts
\* outside of the array and the word behind it (ustat_tcp_linux.c:28-121).
THEOREM ReaderTypeCorrect == Spec => []TypeOK
<1>1. IInv => TypeOK
  BY DEF IInv
<1> QED
  BY <1>1, InitIInv, IInvStep, PTL DEF Spec

\* However the file is cut into blocks, the states that have been read are the
\* ones that are counted, each once.
THEOREM EachLineCounted == Spec => []CountsLines
<1>1. IInv => CountsLines
  BY DEF IInv
<1> QED
  BY <1>1, InitIInv, IInvStep, PTL DEF Spec

\* Unless read() fails, all lines of the file are counted when it is through.
THEOREM AllLinesCounted == Spec => []CountsAll
<1>1. IInv => CountsAll
  <2> SUFFICES ASSUME IInv, ~ overlap, pc = "end", err = 0
               PROVE  CountedUpTo(Len(file))
    BY DEF CountsAll
  <2>1. consumed = Len(file) /\ CountedUpTo(consumed)
    BY DEF IInv, Complete, CountsLines
  <2> QED
    BY <2>1, CountsPlaces
<1> QED
  BY <1>1, InitIInv, IInvStep, PTL DEF Spec

=============================================================================
