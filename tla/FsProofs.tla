------------------------------ MODULE FsProofs ------------------------------
(***************************************************************************)
(* Proofs about the file systems, for every set of mount points, every     *)
(* number of lines that a read() returns, and any changes of the mount     *)
(* table while it is read.                                                 *)
(***************************************************************************)
EXTENDS Fs, SequenceTheorems, FiniteSetTheorems, NaturalsInduction, TLAPS

\* No place is mounted twice, and the root is always mounted.
Distinct ==
    /\ \A j, k \in DOMAIN mounts : j # k => mounts[j] # mounts[k]
    /\ 1 \in DOMAIN mounts /\ mounts[1] = Root

\* Nothing is read before phase 2 is over, and phase 3 goes through all of it.
Phases ==
    /\ pc \in {"phase1", "phase2"} => buf = << >> /\ i = 1 /\ fs = << >>
    /\ pc = "ready" => i > n

\* A line has at least the length of one.
Measured == pc = "phase1" => pos <= n

\* What has been there from the start comes first in the table, and the size
\* found in phase 1 is enough for it, but for the lines that have grown.
StableFirst ==
    \E z \in 0 .. Len(mounts) :
        /\ stable \subseteq {mounts[j] : j \in 1 .. z}
        /\ pc = "phase2" => z <= n

\* Nothing that was mounted later covers it.
StableOnTop ==
    \A p \in stable :
        \E j \in DOMAIN mounts :
            /\ mounts[j] = p
            /\ \A l \in DOMAIN mounts : l > j => ~ Above(mounts[l], p)

StableRead == pc \in {"phase3", "ready"} => stable \ missed \subseteq ToSet(buf)

\* Phase 3 has an entry for each line that is to have one, and its numbers
\* are those of the place.
Entered ==
    \A j \in 1 .. i - 1 :
        buf[j] \in stable /\ Wanted(buf[j]) => \E k \in DOMAIN fs : fs[k].id = buf[j]

OwnNumbers ==
    \A k \in DOMAIN fs :
        fs[k].id \in stable /\ Wanted(fs[k].id) => fs[k].of = fs[k].id

IInv == /\ TypeOK      /\ Distinct   /\ Phases  /\ Measured /\ StableFirst
        /\ StableOnTop /\ StableRead /\ Entered /\ OwnNumbers

\* Whether a place is wanted, or above another, does not change.
LEMMA Constant ==
    ASSUME NEW p, NEW q
    PROVE  (Wanted(p)' <=> Wanted(p)) /\ (Above(q, p)' <=> Above(q, p))
  BY DEF Wanted, Ignored, str_start, Above, IsPrefix

-----------------------------------------------------------------------------
(***************************************************************************)
(* Smallest and greatest numbers.                                          *)
(***************************************************************************)

LEMMA Least ==
    ASSUME NEW S \in SUBSET Nat, S # {}
    PROVE  Min(S) \in S /\ \A x \in S : Min(S) <= x
<1> DEFINE Less == {ss \in Nat \X Nat : ss[1] < ss[2]}
<1>1. IsWellFoundedOn(Less, Nat)
  BY NatLessThanWellFounded DEF OpToRel
<1> HIDE DEF Less
<1>2. PICK x \in S : \A y \in S : ~ (<<y, x>> \in Less)
  BY <1>1, WFMin
<1>3. \A y \in S : x <= y
  <2> SUFFICES ASSUME NEW y \in S, ~ (x <= y) PROVE FALSE
    OBVIOUS
  <2>1. x \in Nat /\ y \in Nat /\ y < x
    OBVIOUS
  <2>2. <<y, x>> \in Less
    BY <2>1 DEF Less
  <2> QED
    BY <1>2, <2>2
<1> QED
  BY <1>3 DEF Min

LEMMA Greatest ==
    ASSUME NEW top \in Nat, NEW S \in SUBSET (0 .. top), S # {}
    PROVE  Max(S) \in S /\ \A x \in S : x <= Max(S)
<1> DEFINE R == {top - x : x \in S}
<1>1. R \in SUBSET Nat /\ R # {}
  <2>1. \A x \in S : x \in 0 .. top
    OBVIOUS
  <2>2. \A x \in S : top - x \in Nat
    BY <2>1
  <2> QED
    BY <2>2
<1> HIDE DEF R
<1>2. Min(R) \in R /\ \A y \in R : Min(R) <= y
  BY <1>1, Least
<1>3. PICK x \in S : top - x = Min(R)
  BY <1>2 DEF R
<1>4. \A y \in S : y <= x
  <2> TAKE y \in S
  <2>1. top - y \in R
    BY DEF R
  <2> QED
    BY <1>2, <1>3, <2>1
<1> QED
  BY <1>4 DEF Max

LEMMA LesserOfTwo ==
    ASSUME NEW a \in Nat, NEW b \in Nat
    PROVE  /\ Min({a, b}) \in Nat /\ Min({a, b}) <= a /\ Min({a, b}) <= b
           /\ Min({a, b}) = a \/ Min({a, b}) = b
<1>1. {a, b} \in SUBSET Nat /\ {a, b} # {}
  OBVIOUS
<1> QED
  BY <1>1, Least

-----------------------------------------------------------------------------
(***************************************************************************)
(* Lists of lines.                                                         *)
(***************************************************************************)

\* A list without its element k.
LEMMA Removed ==
    ASSUME NEW s \in Seq(Points), NEW k \in DOMAIN s, NEW t, t = RemoveAt(s, k)
    PROVE  /\ t \in Seq(Points) /\ Len(t) = Len(s) - 1
           /\ \A j \in 1 .. Len(t) : t[j] = IF j < k THEN s[j] ELSE s[j + 1]
<1> DEFINE a == SubSeq(s, 1, k - 1)
           b == SubSeq(s, k + 1, Len(s))
<1>1. /\ a \in Seq(Points) /\ Len(a) = k - 1
      /\ \A j \in 1 .. k - 1 : a[j] = s[j]
  OBVIOUS
<1>2. /\ b \in Seq(Points) /\ Len(b) = Len(s) - k
      /\ \A j \in 1 .. Len(s) - k : b[j] = s[k + j]
  OBVIOUS
<1>3. t = a \o b
  BY DEF RemoveAt
<1>0. Len(s) \in Nat /\ k \in 1 .. Len(s)
  OBVIOUS
<1> HIDE DEF a, b
<1>4. /\ t \in Seq(Points) /\ Len(t) = Len(a) + Len(b)
      /\ \A j \in 1 .. Len(t) : t[j] = IF j <= Len(a) THEN a[j] ELSE b[j - Len(a)]
  <2>1. PICK u \in Seq(Points), w \in Seq(Points) : u = a /\ w = b
    BY <1>1, <1>2
  <2>2. /\ u \o w \in Seq(Points) /\ Len(u \o w) = Len(u) + Len(w)
        /\ \A j \in 1 .. Len(u) + Len(w) :
              (u \o w)[j] = IF j <= Len(u) THEN u[j] ELSE w[j - Len(u)]
    BY ConcatProperties
  <2>3. t = u \o w
    BY <1>3, <2>1
  <2> QED
    BY <2>1, <2>2, <2>3
<1>5. k \in 1 .. Len(s) /\ Len(t) = Len(s) - 1
  BY <1>0, <1>1, <1>2, <1>4
<1>6. ASSUME NEW j \in 1 .. Len(t)
      PROVE  t[j] = IF j < k THEN s[j] ELSE s[j + 1]
  <2>1. CASE j < k
    BY <1>1, <1>4, <1>5, <2>1
  <2>2. CASE ~ (j < k)
    <3>1. j - (k - 1) \in 1 .. Len(s) - k /\ k + (j - (k - 1)) = j + 1
      BY <1>5, <2>2
    <3>2. t[j] = b[j - (k - 1)]
      BY <1>1, <1>4, <1>5, <2>2
    <3> QED
      BY <1>2, <2>2, <3>1, <3>2
  <2> QED
    BY <2>1, <2>2
<1> QED
  BY <1>4, <1>5, <1>6

\* A list has at least as many lines as places.
LEMMA PlacesOfLines ==
    ASSUME NEW s \in Seq(Points)
    PROVE  /\ IsFiniteSet(ToSet(s))
           /\ Cardinality(ToSet(s)) \in Nat
           /\ Cardinality(ToSet(s)) <= Len(s)
<1>1. s \in Surjection(1 .. Len(s), ToSet(s))
  BY DEF Surjection, ToSet
<1>2. IsFiniteSet(1 .. Len(s)) /\ Cardinality(1 .. Len(s)) = Len(s)
  <2>1. PICK z \in Nat : z = Len(s)
    OBVIOUS
  <2>2. IsFiniteSet(1 .. z) /\ Cardinality(1 .. z) = z
    BY FS_Interval
  <2> QED
    BY <2>1, <2>2
<1>3. IsFiniteSet(ToSet(s)) /\ Cardinality(ToSet(s)) <= Len(s)
  BY <1>1, <1>2, FS_Surjection
<1> QED
  BY <1>3, FS_CardinalityType

\* A line is one or two units long.
LEMMA SizeOfLines ==
    ASSUME NEW s \in Seq(Points)
    PROVE  Size(s) \in Nat /\ Len(s) <= Size(s) /\ Size(s) <= 2 * Len(s)
<1> DEFINE c == Cardinality(ToSet(s) \cap long)
<1>1. IsFiniteSet(ToSet(s)) /\ Cardinality(ToSet(s)) <= Len(s) /\ Cardinality(ToSet(s)) \in Nat
  BY PlacesOfLines
<1>2. IsFiniteSet(ToSet(s) \cap long) /\ c <= Cardinality(ToSet(s))
  BY <1>1, FS_Subset
<1>3. c \in Nat
  BY <1>2, FS_CardinalityType
<1>4. Len(s) \in Nat
  OBVIOUS
<1> HIDE DEF c
<1>5. Size(s) = Len(s) + c
  BY DEF Size, c
<1> QED
  BY <1>1, <1>2, <1>3, <1>4, <1>5

\* The lines that fit in the buffer.
LEMMA WholeLines ==
    ASSUME TypeOK
    PROVE  /\ Whole \in 0 .. Len(mounts)
           /\ \A k \in 0 .. Len(mounts) : k <= n /\ k <= ReadLines => k <= Whole
<1> DEFINE top == Min({ReadLines, Len(mounts)})
           S == {k \in 0 .. top : Size(SubSeq(mounts, 1, k)) <= BufSize}
<1>1. mounts \in Seq(Points) /\ n \in Nat /\ Len(mounts) \in Nat /\ ReadLines \in Nat
  BY FsAssumption DEF TypeOK
<1>2. /\ top \in Nat /\ top <= Len(mounts)
      /\ top = ReadLines \/ top = Len(mounts)
  BY <1>1, LesserOfTwo
<1>3. Whole = Max(S)
  BY DEF Whole
<1> HIDE DEF top
<1>4. ASSUME NEW k \in 0 .. top, k <= n
      PROVE  k \in S
  <2>1. SubSeq(mounts, 1, k) \in Seq(Points) /\ Len(SubSeq(mounts, 1, k)) = k
    BY <1>1, <1>2
  <2>2. Size(SubSeq(mounts, 1, k)) \in Nat /\ Size(SubSeq(mounts, 1, k)) <= 2 * k
    BY <2>1, SizeOfLines
  <2> QED
    BY <1>1, <1>2, <1>4, <2>2 DEF BufSize
<1>5. 0 \in S
  BY <1>1, <1>2, <1>4
<1>6. S \in SUBSET (0 .. top) /\ S # {}
  BY <1>5
<1> HIDE DEF S
<1>7. Max(S) \in S /\ \A x \in S : x <= Max(S)
  BY <1>2, <1>6, Greatest
<1>8. ASSUME NEW k \in 0 .. Len(mounts), k <= n, k <= ReadLines
      PROVE  k <= Whole
  BY <1>2, <1>3, <1>4, <1>7, <1>8
<1>9. Whole \in 0 .. top
  BY <1>3, <1>6, <1>7
<1>10. Whole \in 0 .. Len(mounts)
  BY <1>1, <1>2, <1>9
<1> QED
  BY <1>8, <1>10

-----------------------------------------------------------------------------
(***************************************************************************)
(* What one finds at a place.                                              *)
(***************************************************************************)

LEMMA TopIs ==
    ASSUME TypeOK, Distinct, NEW p
    PROVE  \E k \in DOMAIN mounts :
              /\ Top(p) = mounts[k] /\ Above(mounts[k], p)
              /\ \A l \in DOMAIN mounts : l > k => ~ Above(mounts[l], p)
<1> DEFINE S == {k \in DOMAIN mounts : Above(mounts[k], p)}
<1>1. Len(mounts) \in Nat /\ DOMAIN mounts = 1 .. Len(mounts) /\ mounts \in Seq(Points)
  BY DEF TypeOK
<1>2. S \in SUBSET (0 .. Len(mounts)) /\ 1 \in S
  BY <1>1 DEF Distinct, Above
<1>3. Top(p) = mounts[Max(S)]
  BY DEF Top
<1>4. \A x : x \in S <=> x \in DOMAIN mounts /\ Above(mounts[x], p)
  OBVIOUS
<1> HIDE DEF S
<1>5. Max(S) \in S /\ \A x \in S : x <= Max(S)
  BY <1>1, <1>2, Greatest
<1>6. PICK k \in S : k = Max(S)
  BY <1>5
<1>7. ASSUME NEW l \in DOMAIN mounts, l > k
      PROVE  ~ Above(mounts[l], p)
  <2>1. l \in Nat /\ k \in Nat
    BY <1>1, <1>4
  <2> QED
    BY <1>4, <1>5, <1>6, <1>7, <2>1
<1> QED
  BY <1>3, <1>4, <1>6, <1>7

\* What is stable is what one finds at its place.
LEMMA TopOfStable ==
    ASSUME TypeOK, Distinct, StableOnTop, NEW p \in stable
    PROVE  Top(p) = p
<1>1. PICK j \in DOMAIN mounts : /\ mounts[j] = p
                                 /\ \A l \in DOMAIN mounts : l > j => ~ Above(mounts[l], p)
  BY DEF StableOnTop
<1>2. PICK k \in DOMAIN mounts : /\ Top(p) = mounts[k] /\ Above(mounts[k], p)
                                 /\ \A l \in DOMAIN mounts : l > k => ~ Above(mounts[l], p)
  BY TopIs
<1>3. Above(p, p)
  <2>1. p \in Seq(STRING)
    BY FsAssumption DEF TypeOK, ToSet
  <2>2. p = SubSeq(p, 1, Len(p))
    BY <2>1
  <2> QED
    BY <2>1, <2>2 DEF Above, IsPrefix
<1>4. j \in Nat /\ k \in Nat
  BY DEF TypeOK
<1>5. ~ (k > j) /\ ~ (j > k)
  BY <1>1, <1>2, <1>3
<1> QED
  BY <1>1, <1>2, <1>4, <1>5

-----------------------------------------------------------------------------
(***************************************************************************)
(* The initial states, and the steps of the kernel.                        *)
(***************************************************************************)

LEMMA InitIInv == Init => IInv
<1> SUFFICES ASSUME Init
             PROVE  IInv
  OBVIOUS
<1>0. Root \in Points /\ MaxChanges \in Nat /\ StackRounds \in Nat
  BY FsAssumption
<1>1. PICK others \in SUBSET (Points \ {Root}) :
         mounts \in {<<Root>> \o t : t \in SetToSeqs(others)}
  BY DEF Init
<1>2. PICK t \in SetToSeqs(others) : mounts = <<Root>> \o t
  BY <1>1
<1>3. PICK z \in Nat : z = Cardinality(others)
  <2>1. IsFiniteSet(Points)
    BY FsAssumption
  <2>2. IsFiniteSet(others)
    BY <2>1, FS_Subset
  <2> QED
    BY <2>2, FS_CardinalityType
<1>4. /\ t \in [1 .. z -> others]
      /\ \A j, k \in 1 .. z : j # k => t[j] # t[k]
  BY <1>2, <1>3 DEF SetToSeqs
<1>5. t \in Seq(others) /\ t \in Seq(Points) /\ Len(t) = z
  BY <1>1, <1>4
<1>6. /\ mounts \in Seq(Points) /\ Len(mounts) = z + 1 /\ mounts[1] = Root
      /\ \A j \in 1 .. z + 1 : j # 1 => mounts[j] = t[j - 1]
  <2>1. <<Root>> \in Seq(Points) /\ Len(<<Root>>) = 1 /\ <<Root>>[1] = Root
    BY <1>0
  <2>2. PICK u \in Seq(Points), w \in Seq(Points) : u = <<Root>> /\ w = t
    BY <1>5, <2>1
  <2>3. /\ u \o w \in Seq(Points) /\ Len(u \o w) = Len(u) + Len(w)
        /\ \A j \in 1 .. Len(u) + Len(w) :
              (u \o w)[j] = IF j <= Len(u) THEN u[j] ELSE w[j - Len(u)]
    BY ConcatProperties
  <2>4. mounts = u \o w
    BY <1>2, <2>2
  <2>5. Len(u) = 1 /\ u[1] = Root /\ Len(w) = z /\ w = t
    BY <1>5, <2>1, <2>2
  <2> QED
    BY <2>3, <2>4, <2>5
<1>7. Distinct
  <2>a. 1 \in DOMAIN mounts
    BY <1>3, <1>6
  <2> SUFFICES ASSUME NEW j \in 1 .. z + 1, NEW k \in 1 .. z + 1, j < k
               PROVE  mounts[j] # mounts[k]
    BY <1>6, <2>a DEF Distinct
  <2>1. k - 1 \in 1 .. z /\ mounts[k] = t[k - 1] /\ t[k - 1] \in others
    BY <1>4, <1>6
  <2>2. CASE j = 1
    BY <1>1, <1>6, <2>1, <2>2
  <2>3. CASE j # 1
    <3>1. j - 1 \in 1 .. z /\ mounts[j] = t[j - 1] /\ j - 1 # k - 1
      BY <1>6, <2>3
    <3> QED
      BY <1>4, <2>1, <3>1
  <2> QED
    BY <2>2, <2>3
<1>8. StableFirst
  <2>1. stable \subseteq ToSet(mounts)
    BY DEF Init
  <2>3. Len(mounts) \in 0 .. Len(mounts) /\ DOMAIN mounts = 1 .. Len(mounts)
    BY <1>6
  <2>4. stable \subseteq {mounts[j] : j \in 1 .. Len(mounts)}
    BY <2>1, <2>3 DEF ToSet
  <2>2. pc # "phase2"
    BY DEF Init
  <2> QED
    BY <2>2, <2>3, <2>4 DEF StableFirst
<1>9. TypeOK
  <2>1. /\ pc = "phase1" /\ long = {} /\ pos = 0 /\ round = 0 /\ n = 0
        /\ buf = << >> /\ i = 1 /\ fs = << >> /\ changes = 0
        /\ stable \subseteq ToSet(mounts) /\ missed = {}
    BY DEF Init
  <2>2. Len(buf) = 0 /\ i \in 1 .. Len(buf) + 1
    BY <2>1
  <2>3. buf \in Seq(Points) /\ fs \in Seq(Entry)
    BY <2>1
  <2>4. mounts \in Seq(Points) /\ Len(mounts) \in Nat
    BY <1>6
  <2>5. pos \in 0 .. Len(mounts) /\ round \in 0 .. StackRounds /\ changes \in 0 .. MaxChanges
    BY <1>0, <2>1, <2>4
  <2> QED
    BY <2>1, <2>2, <2>3, <2>4, <2>5 DEF TypeOK
<1>10. StableOnTop
  <2> SUFFICES ASSUME NEW p \in stable
               PROVE  \E j \in DOMAIN mounts :
                         /\ mounts[j] = p
                         /\ \A l \in DOMAIN mounts : l > j => ~ Above(mounts[l], p)
    BY DEF StableOnTop
  <2>1. Top(p) = p
    BY DEF Init
  <2> QED
    BY <1>7, <1>9, <2>1, TopIs
<1> QED
  BY <1>7, <1>8, <1>9, <1>10
     DEF Init, IInv, Phases, Measured, StableRead, Entered, OwnNumbers

\* What is mounted, unmounted or changed leaves what was read alone.
LEMMA ReadKept ==
    ASSUME IInv, stable' \subseteq stable, UNCHANGED <<pc, buf, i, fs, missed>>,
           pc = "ready" => UNCHANGED n
    PROVE  Phases' /\ StableRead' /\ Entered' /\ OwnNumbers'
  BY Constant DEF IInv, Phases, StableRead, Entered, OwnNumbers

\* As long as the mounts are the same, and no more of them are stable.
LEMMA TableKept ==
    ASSUME IInv, UNCHANGED <<mounts, stable>>
    PROVE  Distinct' /\ StableOnTop'
  BY Constant DEF IInv, Distinct, StableOnTop

LEMMA MountStep == IInv /\ Mount => IInv'
<1> SUFFICES ASSUME IInv, Mount
             PROVE  IInv'
  OBVIOUS
<1>1. PICK p \in Points : /\ p \notin ToSet(mounts) /\ mounts' = Append(mounts, p)
                          /\ stable' = {q \in stable : ~ Above(p, q)}
  BY DEF Mount
<1>2. /\ stable' \subseteq stable
      /\ UNCHANGED <<long, pos, round, pc, n, buf, i, fs, missed>>
      /\ changes' = changes + 1 /\ changes < MaxChanges /\ mounts \in Seq(Points)
      /\ changes \in 0 .. MaxChanges
  BY <1>1 DEF Mount, Busy, file, IInv, TypeOK
<1>3. /\ mounts' \in Seq(Points) /\ Len(mounts') = Len(mounts) + 1 /\ Len(mounts) \in Nat
      /\ mounts'[Len(mounts) + 1] = p
      /\ \A j \in 1 .. Len(mounts) : mounts'[j] = mounts[j]
  BY <1>1, <1>2
<1>4. ToSet(mounts) \subseteq ToSet(mounts')
  BY <1>2, <1>3 DEF ToSet
<1>5. TypeOK'
  BY <1>2, <1>3, <1>4, FsAssumption DEF IInv, TypeOK
<1>6. Distinct'
  <2>a. 1 \in DOMAIN mounts' /\ mounts'[1] = Root
    BY <1>2, <1>3 DEF IInv, Distinct
  <2> SUFFICES ASSUME NEW j \in 1 .. Len(mounts) + 1, NEW k \in 1 .. Len(mounts) + 1, j # k
               PROVE  mounts'[j] # mounts'[k]
    BY <1>3, <2>a DEF Distinct
  <2>1. \A l \in 1 .. Len(mounts) : p # mounts[l]
    BY <1>1, <1>2 DEF ToSet
  <2>2. \A l \in 1 .. Len(mounts) + 1 : l = Len(mounts) + 1 \/ l \in 1 .. Len(mounts)
    BY <1>3
  <2> QED
    BY <1>2, <1>3, <2>1, <2>2 DEF IInv, Distinct
<1>7. StableFirst'
  <2>1. PICK z \in 0 .. Len(mounts) : /\ stable \subseteq {mounts[j] : j \in 1 .. z}
                                      /\ pc = "phase2" => z <= n
    BY DEF IInv, StableFirst
  <2>2. z \in 0 .. Len(mounts') /\ {mounts'[j] : j \in 1 .. z} = {mounts[j] : j \in 1 .. z}
    BY <1>3
  <2> QED
    BY <1>2, <2>1, <2>2 DEF StableFirst
<1>8. Measured'
  BY <1>2 DEF IInv, Measured
<1>9. StableOnTop'
  <2> SUFFICES ASSUME NEW q \in stable, ~ Above(p, q)
               PROVE  \E j \in DOMAIN mounts' :
                         /\ mounts'[j] = q
                         /\ \A l \in DOMAIN mounts' : l > j => ~ Above(mounts'[l], q)
    BY <1>1, Constant DEF StableOnTop
  <2>1. PICK j \in DOMAIN mounts : /\ mounts[j] = q
                                   /\ \A l \in DOMAIN mounts : l > j => ~ Above(mounts[l], q)
    BY DEF IInv, StableOnTop
  <2>2. \A l \in DOMAIN mounts' : l \in DOMAIN mounts \/ l = Len(mounts) + 1
    BY <1>2, <1>3
  <2>3. j \in DOMAIN mounts' /\ mounts'[j] = q
    BY <1>2, <1>3, <2>1
  <2>4. \A l \in DOMAIN mounts' : l > j => ~ Above(mounts'[l], q)
    BY <1>2, <1>3, <2>1, <2>2
  <2> QED
    BY <2>3, <2>4
<1> QED
  BY <1>2, <1>5, <1>6, <1>7, <1>8, <1>9, ReadKept DEF IInv

LEMMA UmountStep == IInv /\ Umount => IInv'
<1> SUFFICES ASSUME IInv, Umount
             PROVE  IInv'
  OBVIOUS
<1>1. PICK k \in DOMAIN mounts :
          /\ mounts[k] # Root
          /\ mounts' = RemoveAt(mounts, k)
          /\ stable' = stable \ {mounts[k]}
          /\ long' = long \ {mounts[k]}
          /\ pos' = IF k <= pos THEN pos - 1 ELSE pos
  BY DEF Umount
<1>2. /\ UNCHANGED <<round, pc, n, buf, i, fs, missed>>
      /\ changes' = changes + 1 /\ changes < MaxChanges /\ mounts \in Seq(Points)
      /\ changes \in 0 .. MaxChanges
  BY DEF Umount, Busy, IInv, TypeOK
<1>3. Len(mounts) \in Nat /\ k \in 1 .. Len(mounts)
  BY <1>1, <1>2
<1>4. /\ mounts' \in Seq(Points) /\ Len(mounts') = Len(mounts) - 1
      /\ \A j \in 1 .. Len(mounts') : mounts'[j] = IF j < k THEN mounts[j] ELSE mounts[j + 1]
  <2>1. PICK s \in Seq(Points) : s = mounts
    BY <1>2
  <2>2. PICK t : t = mounts'
    OBVIOUS
  <2>3. k \in DOMAIN s /\ t = RemoveAt(s, k)
    BY <1>1, <2>1, <2>2
  <2>4. /\ t \in Seq(Points) /\ Len(t) = Len(s) - 1
        /\ \A j \in 1 .. Len(t) : t[j] = IF j < k THEN s[j] ELSE s[j + 1]
    BY <2>3, Removed
  <2> QED
    BY <2>1, <2>2, <2>4
\* The element at j + 1, or at j, has moved to j.
<1>5. \A j \in 1 .. Len(mounts) :
         /\ j < k => j \in 1 .. Len(mounts') /\ mounts'[j] = mounts[j]
         /\ j > k => j - 1 \in 1 .. Len(mounts') /\ mounts'[j - 1] = mounts[j]
  BY <1>3, <1>4
<1>6. ToSet(mounts) \ {mounts[k]} \subseteq ToSet(mounts')
  <2> SUFFICES ASSUME NEW j \in 1 .. Len(mounts), mounts[j] # mounts[k]
               PROVE  mounts[j] \in ToSet(mounts')
    BY <1>2 DEF ToSet
  <2>1. j < k \/ j > k
    BY <1>3
  <2> QED
    BY <1>4, <1>5, <2>1 DEF ToSet
<1>7. pos \in 0 .. Len(mounts) /\ pos' \in 0 .. Len(mounts')
  BY <1>1, <1>3, <1>4 DEF IInv, TypeOK
<1>8. TypeOK'
  BY <1>1, <1>2, <1>4, <1>6, <1>7, FsAssumption DEF IInv, TypeOK
<1>9. Distinct'
  <2>a. 1 \in DOMAIN mounts' /\ mounts'[1] = Root
    <3>1. k # 1 /\ 1 \in 1 .. Len(mounts) /\ mounts[1] = Root
      BY <1>1, <1>2 DEF IInv, Distinct
    <3> QED
      BY <1>3, <1>4, <3>1
  <2> SUFFICES ASSUME NEW a \in 1 .. Len(mounts'), NEW b \in 1 .. Len(mounts'), a # b
               PROVE  mounts'[a] # mounts'[b]
    BY <1>4, <2>a DEF Distinct
  <2>1. PICK x \in 1 .. Len(mounts) : x = IF a < k THEN a ELSE a + 1
    BY <1>3, <1>4
  <2>2. PICK y \in 1 .. Len(mounts) : y = IF b < k THEN b ELSE b + 1
    BY <1>3, <1>4
  <2>3. x # y /\ mounts'[a] = mounts[x] /\ mounts'[b] = mounts[y]
    BY <1>3, <1>4, <2>1, <2>2, SMTT(30)
  <2> QED
    BY <1>2, <2>3 DEF IInv, Distinct
<1>10. StableFirst'
  <2>1. PICK z \in 0 .. Len(mounts) : /\ stable \subseteq {mounts[j] : j \in 1 .. z}
                                      /\ pc = "phase2" => z <= n
    BY DEF IInv, StableFirst
  <2>2. \A j \in 1 .. Len(mounts) : j # k => mounts[j] # mounts[k]
    BY <1>2, <1>3 DEF IInv, Distinct
  <2>3. CASE k <= z
    <3>1. z - 1 \in 0 .. Len(mounts')
      BY <1>3, <1>4, <2>3
    <3>2. stable' \subseteq {mounts'[j] : j \in 1 .. z - 1}
      <4> SUFFICES ASSUME NEW j \in 1 .. z, mounts[j] # mounts[k]
                   PROVE  \E l \in 1 .. z - 1 : mounts'[l] = mounts[j]
        BY <1>1, <2>1
      <4>1. j \in 1 .. Len(mounts) /\ (j < k \/ j > k)
        BY <1>3
      <4>2. CASE j < k
        <5>1. j \in 1 .. z - 1
          BY <1>3, <2>3, <4>2
        <5> QED
          BY <1>5, <4>1, <4>2, <5>1
      <4>3. CASE j > k
        <5>1. j - 1 \in 1 .. z - 1
          BY <1>3, <4>3
        <5> QED
          BY <1>5, <4>1, <4>3, <5>1
      <4> QED
        BY <4>1, <4>2, <4>3
    <3>3. pc' = "phase2" => z - 1 <= n'
      BY <1>2, <2>1 DEF IInv, TypeOK
    <3> QED
      BY <3>1, <3>2, <3>3 DEF StableFirst
  <2>4. CASE ~ (k <= z)
    <3>1. z \in 0 .. Len(mounts')
      BY <1>3, <1>4, <2>4
    <3>2. \A j \in 1 .. z : /\ mounts'[j] = mounts[j] /\ mounts[j] # mounts[k]
      BY <1>3, <1>5, <2>2, <2>4, SMTT(30)
    <3>3. stable' \subseteq {mounts'[j] : j \in 1 .. z}
      BY <1>1, <2>1, <3>2
    <3> QED
      BY <1>2, <2>1, <3>1, <3>3 DEF StableFirst
  <2> QED
    BY <2>3, <2>4
<1>11. Measured'
  BY <1>1, <1>2, <1>7 DEF IInv, TypeOK, Measured
<1>12. StableOnTop'
  <2> SUFFICES ASSUME NEW p \in stable, p # mounts[k]
               PROVE  \E j \in DOMAIN mounts' :
                         /\ mounts'[j] = p
                         /\ \A l \in DOMAIN mounts' : l > j => ~ Above(mounts'[l], p)
    BY <1>1, Constant DEF StableOnTop
  <2>1. PICK j \in 1 .. Len(mounts) :
            /\ mounts[j] = p
            /\ \A l \in 1 .. Len(mounts) : l > j => ~ Above(mounts[l], p)
    BY <1>2 DEF IInv, StableOnTop
  <2>2. PICK x \in Nat : x = IF j < k THEN j ELSE j - 1
    BY <1>3
  <2>3. (j < k \/ j > k) /\ x \in 1 .. Len(mounts') /\ mounts'[x] = p
    BY <1>3, <1>4, <1>5, <2>1, <2>2
  <2>4. ASSUME NEW l \in 1 .. Len(mounts'), l > x
        PROVE  ~ Above(mounts'[l], p)
    <3>1. PICK y \in 1 .. Len(mounts) : y = IF l < k THEN l ELSE l + 1
      BY <1>3, <1>4
    <3>2. y > j /\ mounts'[l] = mounts[y]
      BY <1>3, <1>4, <2>2, <2>3, <2>4, <3>1
    <3> QED
      BY <2>1, <3>2
  <2> QED
    BY <1>4, <2>3, <2>4
<1> QED
  BY <1>1, <1>2, <1>8, <1>9, <1>10, <1>11, <1>12, ReadKept DEF IInv

LEMMA RemountStep == IInv /\ Remount => IInv'
<1> SUFFICES ASSUME IInv, Remount
             PROVE  IInv'
  OBVIOUS
<1>1. /\ UNCHANGED <<mounts, stable, pos, round, pc, n, buf, i, fs, missed>>
      /\ changes' = changes + 1 /\ changes < MaxChanges /\ changes \in 0 .. MaxChanges
      /\ long' \subseteq ToSet(mounts)
  BY DEF Remount, Busy, file, IInv, TypeOK
<1>2. TypeOK'
  BY <1>1, FsAssumption DEF IInv, TypeOK
<1>3. Distinct' /\ StableOnTop' /\ Measured' /\ StableFirst'
  BY <1>1, TableKept DEF IInv, Measured, StableFirst
<1> QED
  BY <1>1, <1>2, <1>3, ReadKept DEF IInv

-----------------------------------------------------------------------------
(***************************************************************************)
(* The steps of _fs_init_platform.                                         *)
(***************************************************************************)

LEMMA MeasureStep == IInv /\ Measure => IInv'
<1> SUFFICES ASSUME IInv, Measure
             PROVE  IInv'
  OBVIOUS
<1>1. PICK r \in 1 .. Min({ReadLines, Len(mounts) - pos}) :
          /\ pos' = pos + r
          /\ n' = n + Size(SubSeq(mounts, pos + 1, pos + r))
  BY DEF Measure
<1>2. /\ UNCHANGED <<mounts, long, changes, stable, pc, buf, i, fs, missed>>
      /\ pc = "phase1" /\ round' = round + 1 /\ round < StackRounds
  BY DEF Measure, kernel
<1>3. /\ mounts \in Seq(Points) /\ Len(mounts) \in Nat /\ pos \in 0 .. Len(mounts)
      /\ n \in Nat /\ round \in 0 .. StackRounds /\ pos <= n
      /\ ReadLines \in Nat /\ StackRounds \in Nat
  BY <1>2, FsAssumption DEF IInv, TypeOK, Measured
<1>4. r \in Nat /\ r >= 1 /\ pos + r <= Len(mounts)
  <2>1. PICK a \in Nat : a = Len(mounts) - pos
    BY <1>3
  <2>2. Min({ReadLines, a}) \in Nat /\ Min({ReadLines, a}) <= a
    BY <1>3, LesserOfTwo
  <2> QED
    BY <1>3, <2>1, <2>2
<1>5. PICK lines \in Seq(Points) :
          lines = SubSeq(mounts, pos + 1, pos + r) /\ Len(lines) = r
  <2>1. PICK a \in Nat, b \in Nat : a = pos + 1 /\ b = pos + r
    BY <1>3, <1>4
  <2>2. \A j \in a .. b : j \in 1 .. Len(mounts)
    BY <1>3, <1>4, <2>1
  <2>3. \A j \in a .. b : mounts[j] \in Points
    BY <1>3, <2>2
  <2>4. /\ SubSeq(mounts, a, b) \in Seq(Points)
        /\ Len(SubSeq(mounts, a, b)) = IF a <= b THEN b - a + 1 ELSE 0
    BY <2>1, <2>3, SubSeqProperties
  <2>5. Len(SubSeq(mounts, a, b)) = r
    BY <1>3, <1>4, <2>1, <2>4
  <2> QED
    BY <2>1, <2>4, <2>5
<1>6. Size(lines) \in Nat /\ r <= Size(lines)
  BY <1>5, SizeOfLines
<1>7. n' \in Nat /\ pos' \in 0 .. Len(mounts) /\ pos' <= n' /\ round' \in 0 .. StackRounds
  BY <1>1, <1>2, <1>3, <1>4, <1>5, <1>6
<1>8. TypeOK'
  BY <1>2, <1>7 DEF IInv, TypeOK
<1>9. Distinct' /\ StableOnTop' /\ Measured' /\ StableFirst'
  BY <1>2, <1>7, TableKept DEF IInv, Measured, StableFirst
<1> QED
  BY <1>2, <1>8, <1>9, ReadKept DEF IInv

\* The end of the file: all that is mounted has been counted.
LEMMA MeasureEndStep == IInv /\ MeasureEnd => IInv'
<1> SUFFICES ASSUME IInv, MeasureEnd
             PROVE  IInv'
  OBVIOUS
<1>1. /\ UNCHANGED <<mounts, long, changes, stable, pos, round, n, buf, i, fs, missed>>
      /\ pc = "phase1" /\ pc' = "phase2" /\ pos = Len(mounts)
  BY DEF MeasureEnd, kernel, file
<1>2. TypeOK'
  BY <1>1 DEF IInv, TypeOK
<1>3. StableFirst'
  <2>1. PICK z \in 0 .. Len(mounts) : stable \subseteq {mounts[j] : j \in 1 .. z}
    BY DEF IInv, StableFirst
  <2>2. z <= n
    BY <1>1 DEF IInv, TypeOK, Measured
  <2> QED
    BY <1>1, <2>1, <2>2 DEF StableFirst
<1>4. Phases' /\ StableRead' /\ Entered' /\ OwnNumbers'
  BY <1>1, Constant DEF IInv, Phases, StableRead, Entered, OwnNumbers
<1>5. Distinct' /\ StableOnTop' /\ Measured'
  BY <1>1, TableKept DEF IInv, Measured
<1> QED
  BY <1>2, <1>3, <1>4, <1>5 DEF IInv

\* The steps that give up.
LEMMA GiveUpStep ==
    IInv /\ (MeasureFails \/ MeasureOverflows \/ ConsumeFails) => IInv'
<1> SUFFICES ASSUME IInv, MeasureFails \/ MeasureOverflows \/ ConsumeFails
             PROVE  IInv'
  OBVIOUS
<1>1. /\ UNCHANGED <<mounts, long, changes, stable, pos, round, n, buf, i, fs, missed>>
      /\ pc' \in {"failed", "crashed", "overrun"}
  BY DEF MeasureFails, MeasureOverflows, ConsumeFails, kernel, file
<1>2. TypeOK'
  BY <1>1 DEF IInv, TypeOK
<1>3. Distinct' /\ StableOnTop' /\ Measured' /\ StableFirst'
  BY <1>1, TableKept DEF IInv, Measured, StableFirst
<1>4. Phases' /\ StableRead' /\ Entered' /\ OwnNumbers'
  BY <1>1, Constant DEF IInv, Phases, StableRead, Entered, OwnNumbers
<1> QED
  BY <1>2, <1>3, <1>4 DEF IInv

\* The buffer has room for what has been mounted all the time: its lines come
\* first, and are not twice as long as they were.
LEMMA ConsumeStep == IInv /\ Consume => IInv'
<1> SUFFICES ASSUME IInv, Consume
             PROVE  IInv'
  OBVIOUS
<1>1. PICK k \in {Whole, Whole + 1} :
          /\ k > Whole => k <= Min({ReadLines, Len(mounts)})
          /\ buf' = SubSeq(mounts, 1, k)
          /\ n' = k
  BY DEF Consume
<1>2. /\ UNCHANGED <<mounts, long, changes, stable, pos, round, i, fs>>
      /\ pc = "phase2" /\ pc' = "phase3"
      /\ missed' = ToSet(SubSeq(mounts, ReadLines + 1, Len(mounts)))
      /\ i = 1 /\ fs = << >>
  BY DEF Consume, kernel, file, IInv, Phases
<1>3. /\ mounts \in Seq(Points) /\ Len(mounts) \in Nat /\ ReadLines \in Nat
  BY FsAssumption DEF IInv, TypeOK
<1>4. /\ Whole \in 0 .. Len(mounts)
      /\ \A z \in 0 .. Len(mounts) :
            z <= n /\ z <= ReadLines => z <= Whole
  BY WholeLines DEF IInv
<1>5. k \in 0 .. Len(mounts) /\ Whole <= k
  <2>1. Min({ReadLines, Len(mounts)}) <= Len(mounts)
    BY <1>3, LesserOfTwo
  <2>2. Min({ReadLines, Len(mounts)}) \in Nat
    BY <1>3, LesserOfTwo
  <2> QED
    BY <1>1, <1>3, <1>4, <2>1, <2>2
<1>6. /\ buf' \in Seq(Points) /\ Len(buf') = k
      /\ \A j \in 1 .. k : buf'[j] = mounts[j]
  BY <1>1, <1>3, <1>5
\* What is missed are the lines behind those that one read() returns.
<1>7. /\ missed' \subseteq Points
      /\ \A j \in 1 .. Len(mounts) : j > ReadLines => mounts[j] \in missed'
  <2> DEFINE rest == SubSeq(mounts, ReadLines + 1, Len(mounts))
  <2>1. /\ Len(rest) = IF ReadLines < Len(mounts) THEN Len(mounts) - ReadLines ELSE 0
        /\ rest \in Seq(Points)
        /\ \A x \in 1 .. Len(rest) : rest[x] = mounts[ReadLines + x]
    BY <1>3
  <2> HIDE DEF rest
  <2>2. ToSet(rest) \subseteq Points
    BY <2>1 DEF ToSet
  <2>3. ASSUME NEW j \in 1 .. Len(mounts), j > ReadLines
        PROVE  mounts[j] \in ToSet(rest)
    <3>1. j - ReadLines \in 1 .. Len(rest) /\ ReadLines + (j - ReadLines) = j
      BY <1>3, <2>1, <2>3
    <3>2. rest[j - ReadLines] = mounts[j]
      BY <2>1, <3>1
    <3>3. j - ReadLines \in DOMAIN rest
      BY <2>1, <3>1
    <3> QED
      BY <3>2, <3>3 DEF ToSet
  <2> QED
    BY <1>2, <2>2, <2>3 DEF rest
<1>8. TypeOK'
  <2>1. n' \in Nat /\ n' = Len(buf') /\ i \in 1 .. Len(buf') + 1
    BY <1>1, <1>2, <1>5, <1>6
  <2> QED
    BY <1>2, <1>6, <1>7, <2>1 DEF IInv, TypeOK
<1>9. StableRead'
  <2> SUFFICES ASSUME NEW p \in stable, p \notin missed'
               PROVE  p \in ToSet(buf')
    BY <1>2 DEF StableRead
  <2>1. PICK z \in 0 .. Len(mounts) : stable \subseteq {mounts[j] : j \in 1 .. z} /\ z <= n
    BY <1>2 DEF IInv, StableFirst
  <2>2. PICK j \in 1 .. z : p = mounts[j]
    BY <2>1
  <2>3. j \in 0 .. Len(mounts) /\ j \in 1 .. Len(mounts) /\ j <= n /\ j <= ReadLines
    <3>1. j \in 1 .. Len(mounts) /\ j <= n
      BY <1>3, <2>1 DEF IInv, TypeOK
    <3>2. ~ (j > ReadLines)
      BY <1>7, <2>2, <3>1
    <3> QED
      BY <1>3, <3>1, <3>2
  <2>4. j <= Whole
    BY <1>4, <2>3
  <2>5. j \in 1 .. k /\ p = buf'[j]
    BY <1>4, <1>5, <1>6, <2>2, <2>3, <2>4
  <2>6. j \in DOMAIN buf'
    BY <1>6, <2>5
  <2> QED
    BY <2>5, <2>6 DEF ToSet
<1>10. StableFirst' /\ Distinct' /\ StableOnTop' /\ Measured' /\ Phases'
  BY <1>2, TableKept DEF IInv, StableFirst, Measured, Phases
<1>11. Entered' /\ OwnNumbers'
  BY <1>2 DEF Entered, OwnNumbers
<1> QED
  BY <1>8, <1>9, <1>10, <1>11 DEF IInv

\* A place that has been mounted all the time is mounted when statvfs asks.
LEMMA AddMountEntryStep == IInv /\ AddMountEntry => IInv'
<1> SUFFICES ASSUME IInv, AddMountEntry
             PROVE  IInv'
  OBVIOUS
<1> DEFINE p == buf[i]
<1>1. PICK of \in statvfs(p) :
          fs' = IF Ignored(p) \/ of = Nothing THEN fs ELSE Append(fs, [id |-> p, of |-> of])
  BY DEF AddMountEntry
<1>2. /\ UNCHANGED <<mounts, long, changes, stable, pos, round, pc, n, buf, missed>>
      /\ pc = "phase3" /\ i <= n /\ i' = i + 1
  BY DEF AddMountEntry, kernel, file
<1>3. /\ buf \in Seq(Points) /\ i \in 1 .. Len(buf) /\ n = Len(buf) /\ Len(buf) \in Nat
      /\ fs \in Seq(Entry) /\ Len(fs) \in Nat /\ mounts \in Seq(Points)
      /\ stable \subseteq ToSet(mounts)
  BY <1>2 DEF IInv, TypeOK
<1>t. Top(p) \in Points
  BY <1>3, TopIs DEF IInv
<1>4. p \in Points
  BY <1>3
<1>5. of # Nothing => of \in Points
  BY <1>t DEF statvfs
<1>6. fs' \in Seq(Entry)
  <2>1. of # Nothing => [id |-> p, of |-> of] \in Entry
    BY <1>4, <1>5 DEF Entry
  <2> QED
    BY <1>1, <1>3, <2>1
<1>7. p \in stable /\ Wanted(p) => ~ Ignored(p) /\ of = p /\ of # Nothing
  <2> SUFFICES ASSUME p \in stable, Wanted(p)
               PROVE  ~ Ignored(p) /\ of = p /\ of # Nothing
    OBVIOUS
  <2>1. Top(p) = p
    BY TopOfStable DEF IInv
  <2> QED
    BY <1>4, <2>1, FsAssumption DEF statvfs, Wanted, Nothing
<1>8. /\ \A k \in DOMAIN fs : k \in DOMAIN fs' /\ fs'[k] = fs[k]
      /\ \A k \in DOMAIN fs' : \/ k \in DOMAIN fs /\ fs'[k] = fs[k]
                               \/ fs'[k] = [id |-> p, of |-> of]
      /\ p \in stable /\ Wanted(p) => \E k \in DOMAIN fs' : fs'[k].id = p
  <2>1. CASE Ignored(p) \/ of = Nothing
    BY <1>1, <1>7, <2>1
  <2>2. CASE ~ (Ignored(p) \/ of = Nothing)
    <3>1. PICK e : e = [id |-> p, of |-> of]
      OBVIOUS
    <3>2. e \in Entry /\ e.id = p
      BY <1>4, <1>5, <2>2, <3>1 DEF Entry
    <3>3. fs' = Append(fs, e)
      BY <1>1, <2>2, <3>1
    <3>4. /\ DOMAIN fs' = 1 .. Len(fs) + 1 /\ DOMAIN fs = 1 .. Len(fs)
          /\ fs'[Len(fs) + 1] = e
          /\ \A k \in 1 .. Len(fs) : fs'[k] = fs[k]
      BY <1>3, <3>2, <3>3
    <3>5. \A k \in 1 .. Len(fs) + 1 : k \in 1 .. Len(fs) \/ k = Len(fs) + 1
      BY <1>3
    <3>6. Len(fs) + 1 \in 1 .. Len(fs) + 1 /\ \A k \in 1 .. Len(fs) : k \in 1 .. Len(fs) + 1
      BY <1>3
    <3> QED
      BY <3>1, <3>2, <3>4, <3>5, <3>6
  <2> QED
    BY <2>1, <2>2
<1>9. TypeOK'
  <2>1. i' \in 1 .. Len(buf) + 1
    BY <1>2, <1>3
  <2> QED
    BY <1>2, <1>6, <2>1 DEF IInv, TypeOK
<1>10. Entered'
  <2> SUFFICES ASSUME NEW j \in 1 .. i, buf[j] \in stable, Wanted(buf[j])
               PROVE  \E k \in DOMAIN fs' : fs'[k].id = buf[j]
    <3>1. (i + 1) - 1 = i
      BY <1>3
    <3>2. \A x : Wanted(x)' <=> Wanted(x)
      BY Constant
    <3> QED
      BY <1>2, <3>1, <3>2 DEF Entered
  <2>1. CASE j = i
    BY <1>8, <2>1
  <2>2. CASE j # i
    <3>1. j \in 1 .. i - 1
      BY <1>3, <2>2
    <3>2. PICK k \in DOMAIN fs : fs[k].id = buf[j]
      BY <3>1 DEF IInv, Entered
    <3> QED
      BY <1>8, <3>2
  <2> QED
    BY <2>1, <2>2
<1>11. OwnNumbers'
  <2> SUFFICES ASSUME NEW k \in DOMAIN fs', fs'[k].id \in stable, Wanted(fs'[k].id)
               PROVE  fs'[k].of = fs'[k].id
    <3>1. \A x : Wanted(x)' <=> Wanted(x)
      BY Constant
    <3> QED
      BY <1>2, <3>1 DEF OwnNumbers
  <2>1. CASE k \in DOMAIN fs /\ fs'[k] = fs[k]
    BY <2>1 DEF IInv, OwnNumbers
  <2>2. CASE fs'[k] = [id |-> p, of |-> of]
    BY <1>7, <2>2
  <2> QED
    BY <1>8, <2>1, <2>2
<1>12. Distinct' /\ StableOnTop' /\ Phases' /\ Measured' /\ StableFirst' /\ StableRead'
  BY <1>2, TableKept DEF IInv, Phases, Measured, StableFirst, StableRead
<1> QED
  BY <1>9, <1>10, <1>11, <1>12 DEF IInv

LEMMA FinishStep == IInv /\ Finish => IInv'
<1> SUFFICES ASSUME IInv, Finish
             PROVE  IInv'
  OBVIOUS
<1>1. /\ UNCHANGED <<mounts, long, changes, stable, pos, round, n, buf, i, fs, missed>>
      /\ pc = "phase3" /\ pc' \in {"failed", "ready"} /\ i > n
  BY DEF Finish, kernel, file
<1>2. TypeOK'
  BY <1>1 DEF IInv, TypeOK
<1>3. Distinct' /\ StableOnTop' /\ Measured' /\ StableFirst' /\ Phases' /\ StableRead'
  BY <1>1, TableKept DEF IInv, Measured, StableFirst, Phases, StableRead
<1>4. Entered' /\ OwnNumbers'
  BY <1>1, Constant DEF IInv, Entered, OwnNumbers
<1> QED
  BY <1>2, <1>3, <1>4 DEF IInv

LEMMA IInvStep == IInv /\ [Next]_vars => IInv'
<1> SUFFICES ASSUME IInv, [Next]_vars
             PROVE  IInv'
  OBVIOUS
<1>1. CASE UNCHANGED vars
  <2>1. UNCHANGED <<mounts, long, changes, stable, pos, round, pc, n, buf, i, fs, missed>>
    BY <1>1 DEF vars, kernel, file
  <2>2. TypeOK'
    BY <2>1 DEF IInv, TypeOK
  <2>3. Distinct' /\ StableOnTop' /\ Measured' /\ StableFirst'
    BY <2>1, TableKept DEF IInv, Measured, StableFirst
  <2> QED
    BY <2>1, <2>2, <2>3, ReadKept DEF IInv
<1>2. CASE Kernel
  BY <1>2, MountStep, UmountStep, RemountStep DEF Kernel
<1>3. CASE Step
  BY <1>3, MeasureStep, MeasureEndStep, GiveUpStep, ConsumeStep, AddMountEntryStep,
     FinishStep DEF Step
<1> QED
  BY <1>1, <1>2, <1>3 DEF Next, Returned

-----------------------------------------------------------------------------
(***************************************************************************)
(* What is proved.                                                         *)
(***************************************************************************)

\* Whatever is mounted and unmounted, the position stays within the table, and
\* phase 3 within what phase 2 has read, where that read() did not fail; where it
\* did ("overrun"), nothing is claimed (ustat_fs_linux.c:61-117).
THEOREM FsTypeCorrect == Spec => []TypeOK
<1>1. IInv => TypeOK
  BY DEF IInv
<1> QED
  BY <1>1, InitIInv, IInvStep, PTL DEF Spec

\* A place that is mounted, with nothing above it, from the start to the last
\* statvfs is shown with its own numbers, however the table changes meanwhile,
\* unless its line lay behind what one read() returns.
THEOREM MountsShown == Spec => []StableMountsShown
<1>1. IInv => StableMountsShown
  <2> SUFFICES ASSUME IInv, pc = "ready", NEW p \in stable \ missed, Wanted(p)
               PROVE  _fs_select(p).of = p
    BY DEF StableMountsShown
  <2>1. /\ buf \in Seq(Points) /\ i = Len(buf) + 1 /\ fs \in Seq(Entry)
        /\ p \in ToSet(buf)
    BY DEF IInv, TypeOK, Phases, StableRead
  <2>2. PICK j \in 1 .. i - 1 : p = buf[j]
    BY <2>1 DEF ToSet
  <2>3. PICK k \in 1 .. Len(fs) : fs[k].id = p
    BY <2>1, <2>2 DEF IInv, Entered
  <2>4. Named(p) \in SUBSET Nat /\ Named(p) # {}
    BY <2>3 DEF Named
  <2>5. Min(Named(p)) \in Named(p)
    BY <2>4, Least
  <2>6. Min(Named(p)) \in DOMAIN fs /\ fs[Min(Named(p))].id = p
    BY <2>1, <2>5 DEF Named
  <2>7. fs[Min(Named(p))].of = p
    BY <2>6 DEF IInv, OwnNumbers
  <2> QED
    BY <2>4, <2>7 DEF _fs_select
<1> QED
  BY <1>1, InitIInv, IInvStep, PTL DEF Spec

=============================================================================
