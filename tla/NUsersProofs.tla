---------------------------- MODULE NUsersProofs ----------------------------
(***************************************************************************)
(* Proofs about nusers_init, for every length of utmp, every set of texts  *)
(* and any number of logins and logouts: which of them can do which harm.  *)
(* A pass has seen i user processes and has Left(cursor) before it; a      *)
(* login alone makes these more than there were, a logout alone less.      *)
(***************************************************************************)
EXTENDS NUsers, FiniteSetTheorems, NaturalsInduction, TLAPS

\* The user processes in the entries behind k.
Left(k) == {e \in k + 1 .. Slots : utmp[e] # None}

Seen == i + Cardinality(Left(cursor))

\* Without a login the first pass has not missed one that is there, and the
\* second one does not find more.
LoginFree ==
    logins = 0 =>
        /\ pc = "count" => Seen >= Cardinality(Left(0))
        /\ pc = "copy" => Seen <= n
        /\ pc = "overrun" => Len(utmp[cursor]) > NameLen

\* Without a logout the first pass has not counted one that is gone, and the
\* second one finds them all.
LogoutFree ==
    logouts = 0 =>
        /\ pc = "count" => Seen <= Cardinality(Left(0))
        /\ pc = "copy" => Seen >= n
        /\ pc = "unique" => i >= n

Passes ==
    /\ pc \in {"count", "copy"} => i <= cursor
    /\ pc \in {"copy", "unique"} => n > 1

IInv == TypeOK /\ Passes /\ LoginFree /\ LogoutFree

-----------------------------------------------------------------------------
(***************************************************************************)
(* What is left of a pass.                                                 *)
(***************************************************************************)

LEMMA LeftFinite ==
    ASSUME NEW k \in Nat
    PROVE  IsFiniteSet(Left(k)) /\ Cardinality(Left(k)) \in Nat
<1>1. IsFiniteSet(k + 1 .. Slots)
  BY FS_Interval, NUsersAssumption
<1>2. Left(k) \subseteq k + 1 .. Slots
  BY DEF Left
<1> QED
  BY <1>1, <1>2, FS_Subset, FS_CardinalityType

LEMMA LeftAtEnd == Cardinality(Left(Slots)) = 0
<1>1. Left(Slots) = {}
  BY NUsersAssumption DEF Left
<1> QED
  BY <1>1, FS_EmptySet

\* Reading an entry moves a user process from what is left to what is seen.
LEMMA LeftStep ==
    ASSUME NEW k \in Nat, k < Slots
    PROVE  Cardinality(Left(k)) =
               Cardinality(Left(k + 1)) + (IF utmp[k + 1] # None THEN 1 ELSE 0)
<1>1. CASE utmp[k + 1] # None
  <2>1. /\ Left(k) = Left(k + 1) \cup {k + 1}
        /\ k + 1 \notin Left(k + 1)
    BY <1>1, NUsersAssumption DEF Left
  <2>2. k + 1 \in Nat /\ IsFiniteSet(Left(k + 1)) /\ Cardinality(Left(k + 1)) \in Nat
    BY LeftFinite
  <2>3. Cardinality(Left(k + 1) \cup {k + 1}) = Cardinality(Left(k + 1)) + 1
    BY <2>1, <2>2, FS_AddElement
  <2> QED
    BY <1>1, <2>1, <2>3
<1>2. CASE utmp[k + 1] = None
  <2>1. Left(k) = Left(k + 1)
    BY <1>2, NUsersAssumption DEF Left
  <2> QED
    BY <1>2, <2>1, LeftFinite
<1> QED
  BY <1>1, <1>2

\* A login adds one process to what is left if its entry is, a logout takes
\* one away, and another user in the same entry changes nothing.
LEMMA LeftChange ==
    ASSUME TypeOK, NEW e \in Entries, NEW u \in Texts \cup {None},
           utmp' = [utmp EXCEPT ![e] = u], NEW k \in Nat
    PROVE  Cardinality(Left(k)') = Cardinality(Left(k)) +
               (IF e <= k \/ (u = None <=> utmp[e] = None) THEN 0
                ELSE IF u = None THEN -1 ELSE 1)
<1>1. /\ utmp'[e] = u
      /\ \A f \in Entries : f # e => utmp'[f] = utmp[f]
      /\ k + 1 .. Slots \subseteq Entries
      /\ e \in k + 1 .. Slots <=> e > k
  BY NUsersAssumption DEF TypeOK, Entries
<1>2. CASE e <= k \/ (u = None <=> utmp[e] = None)
  <2>1. Left(k)' = Left(k)
    BY <1>1, <1>2 DEF Left
  <2> QED
    BY <1>2, <2>1, LeftFinite
<1>3. CASE e > k /\ u = None /\ utmp[e] # None
  <2>1. Left(k)' = Left(k) \ {e} /\ e \in Left(k)
    BY <1>1, <1>3 DEF Left
  <2>2. Cardinality(Left(k) \ {e}) = Cardinality(Left(k)) - 1
    BY <2>1, LeftFinite, FS_RemoveElement
  <2>3. e \in Nat /\ ~ (e <= k)
    BY <1>3 DEF Entries
  <2> QED
    BY <1>3, <2>1, <2>2, <2>3, LeftFinite
<1>4. CASE e > k /\ u # None /\ utmp[e] = None
  <2>1. Left(k)' = Left(k) \cup {e} /\ e \notin Left(k)
    BY <1>1, <1>4 DEF Left
  <2>2. Cardinality(Left(k) \cup {e}) = Cardinality(Left(k)) + 1
    BY <2>1, LeftFinite, FS_AddElement
  <2>3. e \in Nat /\ ~ (e <= k)
    BY <1>4 DEF Entries
  <2> QED
    BY <1>4, <2>1, <2>2, <2>3, LeftFinite
<1>5. e \in Nat
  BY DEF Entries
<1> QED
  BY <1>2, <1>3, <1>4, <1>5

-----------------------------------------------------------------------------
(***************************************************************************)
(* The array.                                                              *)
(***************************************************************************)

LEMMA Sizes ==
    /\ NameLen \in Nat /\ LenSize \in Nat /\ ns \in Nat
    /\ NameLen > 0 /\ LenSize > 0 /\ ns = LenSize + NameLen
BY NUsersAssumption DEF ns

LEMMA TextLen ==
    ASSUME NEW u \in Texts
    PROVE  /\ u \in Seq(Nat \ {0}) /\ Len(u) \in Nat /\ Len(u) > 0
           /\ \A k \in 1 .. Len(u) : u[k] \in Nat /\ u[k] # 0
<1>1. u \in Seq(Nat \ {0}) /\ u # << >>
  BY NUsersAssumption DEF None
<1>2. Len(u) \in Nat /\ \A k \in 1 .. Len(u) : u[k] \in Nat \ {0}
  BY <1>1
<1>3. Len(u) # 0
  BY <1>1
<1> QED
  BY <1>1, <1>2, <1>3

\* The distance of two elements.
LEMMA Distance ==
    ASSUME NEW d \in Int
    PROVE  /\ d * ns \in Int
           /\ d >= 1 => d * ns >= ns
           /\ d <= -1 => d * ns <= -ns
           /\ d = 0 => d * ns = 0
<1>1. PICK m \in Nat : m = ns
  BY Sizes
<1>2. d * m \in Int
  OBVIOUS
<1>3. d >= 1 => d * m >= m
  OBVIOUS
<1>4. d <= -1 => d * m <= -m
  OBVIOUS
<1>5. d = 0 => d * m = 0
  OBVIOUS
<1> QED
  BY <1>1, <1>2, <1>3, <1>4, <1>5

LEMMA FreshTypes == Fresh \subseteq NameT
<1>1. [1 .. NameLen -> {0}] \subseteq [1 .. NameLen -> Nat]
  OBVIOUS
<1>2. [1 .. NameLen -> {0, 1}] \subseteq [1 .. NameLen -> Nat]
  OBVIOUS
<1> QED
  BY <1>1, <1>2, Sizes DEF Fresh, NameT

LEMMA CopyTypes ==
    ASSUME n \in Nat, names \in [1 .. n -> NameT],
           NEW k \in Nat, NEW text \in Texts, NEW d \in 1 .. NameLen
    PROVE  byte_copy(k, text, d) \in [1 .. n -> NameT]
<1> DEFINE len(e) == IF e = k THEN Len(text)
                     ELSE IF e > k /\ (e - k) * ns - LenSize < Len(text) THEN d
                     ELSE names[e].len
           byte(e, j) == IF (e - k) * ns + j \in 1 .. Len(text)
                         THEN text[(e - k) * ns + j]
                         ELSE names[e].s[j]
<1>1. ASSUME NEW e \in 1 .. n
      PROVE  len(e) \in Nat /\ \A j \in 1 .. NameLen : byte(e, j) \in Nat
  <2>1. names[e].len \in Nat /\ \A j \in 1 .. NameLen : names[e].s[j] \in Nat
    BY DEF NameT
  <2>2. Len(text) \in Nat /\ \A x \in 1 .. Len(text) : text[x] \in Nat
    BY TextLen
  <2>3. d \in Nat
    OBVIOUS
  <2> QED
    BY <2>1, <2>2, <2>3
<1>2. byte_copy(k, text, d) =
          [e \in 1 .. n |-> [len |-> len(e), s |-> [j \in 1 .. NameLen |-> byte(e, j)]]]
  BY DEF byte_copy
<1> HIDE DEF len, byte
<1>3. \A e \in 1 .. n :
          [len |-> len(e), s |-> [j \in 1 .. NameLen |-> byte(e, j)]] \in NameT
  BY <1>1 DEF NameT
<1> QED
  BY <1>2, <1>3

\* A text that is no longer than s touches its own element only.
LEMMA CopyOne ==
    ASSUME n \in Nat, names \in [1 .. n -> NameT],
           NEW k \in 1 .. n, NEW text \in Texts, NEW d, Len(text) <= NameLen
    PROVE  /\ byte_copy(k, text, d)[k].len = Len(text)
           /\ \A j \in 1 .. NameLen :
                 byte_copy(k, text, d)[k].s[j] =
                     IF j <= Len(text) THEN text[j] ELSE names[k].s[j]
           /\ \A e \in 1 .. n : e # k => byte_copy(k, text, d)[e] = names[e]
<1>1. /\ Len(text) \in Nat /\ NameLen \in Nat /\ LenSize \in Nat /\ LenSize > 0
      /\ ns \in Nat /\ ns = LenSize + NameLen
  BY TextLen, Sizes
<1>2. k - k = 0 /\ (k - k) * ns = 0
  BY Distance
<1>3. \A j \in 1 .. NameLen : (k - k) * ns + j = j
  BY <1>2
<1>4. ASSUME NEW e \in 1 .. n, e # k
      PROVE  byte_copy(k, text, d)[e] = names[e]
  <2>1. PICK z \in Int : z = (e - k) * ns /\ ((z >= ns /\ e > k) \/ (z <= -ns /\ e < k))
    <3>1. /\ e - k \in Int
          /\ (e - k >= 1 /\ e > k) \/ (e - k <= -1 /\ e < k)
      BY <1>4
    <3> QED
      BY <3>1, Distance
  <2>2. ~ (e > k /\ z - LenSize < Len(text))
    BY <1>1, <2>1
  <2>3. \A j \in 1 .. NameLen : ~ (z + j \in 1 .. Len(text))
    BY <1>1, <2>1
  <2>4. byte_copy(k, text, d)[e] =
            [len |-> names[e].len, s |-> [j \in 1 .. NameLen |-> names[e].s[j]]]
    BY <1>4, <2>1, <2>2, <2>3 DEF byte_copy
  <2>5. names[e] \in NameT
    OBVIOUS
  <2> QED
    BY <2>4, <2>5 DEF NameT
<1>5. byte_copy(k, text, d)[k] =
          [len |-> Len(text),
           s |-> [j \in 1 .. NameLen |-> IF (k - k) * ns + j \in 1 .. Len(text)
                                         THEN text[(k - k) * ns + j]
                                         ELSE names[k].s[j]]]
  BY DEF byte_copy
<1>6. byte_copy(k, text, d)[k].len = Len(text)
  BY <1>5
<1>7. ASSUME NEW j \in 1 .. NameLen
      PROVE  byte_copy(k, text, d)[k].s[j] =
                 IF j <= Len(text) THEN text[j] ELSE names[k].s[j]
  BY <1>1, <1>3, <1>5
<1> QED
  BY <1>4, <1>6, <1>7

\* Where there is an element, the text must be longer than s to leave the
\* array.
LEMMA LongIfUnfit ==
    ASSUME n \in Nat, NEW k \in Nat, k <= n, NEW text \in Texts, ~ Fits(k, text)
    PROVE  Len(text) > NameLen
<1>1. Len(text) \in Nat /\ NameLen \in Nat /\ LenSize \in Nat /\ ns = LenSize + NameLen
  BY TextLen, Sizes
<1>2. n - k + 1 \in Int /\ n - k + 1 >= 1
  OBVIOUS
<1>3. PICK z \in Int : z = (n - k + 1) * ns /\ z >= ns
  BY <1>2, Distance
<1> QED
  BY <1>1, <1>3 DEF Fits

-----------------------------------------------------------------------------
(***************************************************************************)
(* The invariant, step by step.                                            *)
(***************************************************************************)

LEMMA InitInv == Init => IInv
<1> SUFFICES ASSUME Init PROVE IInv
  OBVIOUS
<1>1. TypeOK
  BY NUsersAssumption DEF Init, TypeOK
<1>2. Seen = Cardinality(Left(0))
  BY LeftFinite DEF Init, Seen
<1> QED
  BY <1>1, <1>2, LeftFinite DEF Init, IInv, Passes, LoginFree, LogoutFree

LEMMA ChangeKeeps == IInv /\ Change => IInv'
<1> SUFFICES ASSUME IInv, Change PROVE IInv'
  OBVIOUS
<1> USE DEF IInv
<1>1. PICK e \in Entries, u \in Texts \cup {None} :
          /\ u # utmp[e]
          /\ utmp' = [utmp EXCEPT ![e] = u]
          /\ logins' = IF utmp[e] = None THEN logins + 1 ELSE logins
          /\ logouts' = IF u = None THEN logouts + 1 ELSE logouts
  BY DEF Change
<1>2. /\ pc \in {"count", "copy"} /\ changes < MaxChanges /\ changes' = changes + 1
      /\ UNCHANGED <<heap, pc, cursor, i, n, names, nusers>>
  BY DEF Change
<1>3. /\ changes \in Nat /\ logins \in Nat /\ logouts \in Nat
      /\ logins <= changes /\ logouts <= changes
      /\ cursor \in Nat /\ i \in Nat /\ n \in Nat
  BY NUsersAssumption DEF TypeOK
<1>4. TypeOK'
  <2>1. utmp' \in [Entries -> Texts \cup {None}]
    BY <1>1 DEF TypeOK
  <2>2. /\ changes' \in 0 .. MaxChanges
        /\ logins' \in 0 .. changes' /\ logouts' \in 0 .. changes'
    BY <1>1, <1>2, <1>3, NUsersAssumption
  <2> QED
    BY <1>2, <2>1, <2>2 DEF TypeOK
<1>5. Passes'
  BY <1>2 DEF Passes
<1> DEFINE d(k) == IF e <= k \/ (u = None <=> utmp[e] = None) THEN 0
                   ELSE IF u = None THEN -1 ELSE 1
<1>6. /\ Cardinality(Left(cursor))' = Cardinality(Left(cursor)) + d(cursor)
      /\ Cardinality(Left(0))' = Cardinality(Left(0)) + d(0)
  <2>1. PICK c \in Nat : c = cursor
    BY <1>3
  <2>2. Left(cursor)' = Left(c)'
    BY <1>2, <2>1 DEF Left
  <2>3. Cardinality(Left(c)') = Cardinality(Left(c)) + d(c)
    BY <1>1, LeftChange
  <2>4. Cardinality(Left(0)') = Cardinality(Left(0)) + d(0)
    BY <1>1, LeftChange
  <2> QED
    BY <2>1, <2>2, <2>3, <2>4
<1>7. Seen' = Seen + d(cursor)
  BY <1>2, <1>3, <1>6, LeftFinite DEF Seen
<1>8. /\ Seen \in Nat /\ Cardinality(Left(0)) \in Nat
      /\ e \in Nat /\ e > 0
  BY <1>3, LeftFinite DEF Seen, Entries
<1>9. LoginFree'
  <2>1. SUFFICES ASSUME logins' = 0 PROVE LoginFree'
    BY DEF LoginFree
  <2>2. utmp[e] # None /\ logins = 0
    BY <1>1, <1>3, <2>1
  <2>3. d(cursor) <= 0 /\ d(cursor) >= d(0) /\ d(cursor) \in Int /\ d(0) \in Int
    BY <1>3, <1>8, <2>2
  <2> QED
    BY <1>2, <1>3, <1>6, <1>7, <1>8, <2>2, <2>3 DEF LoginFree
<1>10. LogoutFree'
  <2>1. SUFFICES ASSUME logouts' = 0 PROVE LogoutFree'
    BY DEF LogoutFree
  <2>2. u # None /\ logouts = 0
    BY <1>1, <1>3, <2>1
  <2>3. d(cursor) >= 0 /\ d(cursor) <= d(0) /\ d(cursor) \in Int /\ d(0) \in Int
    BY <1>3, <1>8, <2>2
  <2> QED
    BY <1>2, <1>3, <1>6, <1>7, <1>8, <2>2, <2>3 DEF LogoutFree
<1> QED
  BY <1>4, <1>5, <1>9, <1>10

LEMMA CountKeeps == IInv /\ Count => IInv'
<1> SUFFICES ASSUME IInv, Count PROVE IInv'
  OBVIOUS
<1> USE DEF IInv
<1>1. /\ pc = "count" /\ cursor < Slots /\ cursor' = cursor + 1
      /\ i' = i + (IF utmp[cursor + 1] # None THEN 1 ELSE 0)
      /\ UNCHANGED <<utmp, heap, pc, n, names, nusers, changes, logins, logouts>>
  BY DEF Count, Get, history, TypeOK
<1>2. i \in Nat /\ cursor \in Nat /\ i <= cursor /\ Slots \in Nat
  BY <1>1, NUsersAssumption DEF TypeOK, Passes
<1>3. TypeOK' /\ Passes'
  BY <1>1, <1>2 DEF TypeOK, Passes
<1>4. Seen' = Seen /\ Left(0)' = Left(0)
  <2>1. Left(cursor)' = Left(cursor + 1)
    BY <1>1 DEF Left
  <2>2. Cardinality(Left(cursor)) =
            Cardinality(Left(cursor + 1)) + (IF utmp[cursor + 1] # None THEN 1 ELSE 0)
    BY <1>1, <1>2, LeftStep
  <2>3. Cardinality(Left(cursor + 1)) \in Nat
    BY <1>2, LeftFinite
  <2> QED
    BY <1>1, <1>2, <2>1, <2>2, <2>3 DEF Seen, Left
<1> QED
  BY <1>1, <1>3, <1>4 DEF LoginFree, LogoutFree

\* The two ways on from the first pass: nothing is left then.
LEMMA AllocateKeeps == IInv /\ (CountedAtMostOne \/ Allocate) => IInv'
<1> SUFFICES ASSUME IInv, CountedAtMostOne \/ Allocate PROVE IInv'
  OBVIOUS
<1> USE DEF IInv
<1>1. CASE CountedAtMostOne
  <2>1. TypeOK'
    BY <1>1, NUsersAssumption DEF CountedAtMostOne, history, TypeOK
  <2> QED
    BY <1>1, <2>1 DEF CountedAtMostOne, history, Passes, LoginFree, LogoutFree
<1>2. CASE Allocate
  <2>1. /\ pc = "count" /\ cursor = Slots /\ i > 1
        /\ n' = i /\ i' = 0 /\ cursor' = 0 /\ pc' = "copy"
        /\ names' \in [1 .. i -> Fresh]
        /\ UNCHANGED <<utmp, heap, nusers, changes, logins, logouts>>
    BY <1>2 DEF Allocate, history
  <2>2. TypeOK' /\ Passes'
    <3>1. Fresh \subseteq NameT
      BY FreshTypes
    <3>2. names' \in [1 .. n' -> NameT]
      BY <2>1, <3>1
    <3> QED
      BY <2>1, <3>2, NUsersAssumption DEF TypeOK, Passes
  <2>3. /\ Seen = i
        /\ Seen' = Cardinality(Left(0))
    <3>1. i \in Int
      BY DEF TypeOK
    <3>2. Seen = i + Cardinality(Left(Slots))
      BY <2>1 DEF Seen
    <3>3. Left(cursor)' = Left(0)
      BY <2>1 DEF Left
    <3>4. Seen' = 0 + Cardinality(Left(0))
      BY <2>1, <3>3 DEF Seen
    <3>5. Cardinality(Left(0)) \in Nat
      BY LeftFinite
    <3> QED
      BY <3>1, <3>2, <3>4, <3>5, LeftAtEnd
  <2> QED
    BY <2>1, <2>2, <2>3 DEF LoginFree, LogoutFree
<1> QED
  BY <1>1, <1>2

\* The second pass: where it writes behind its array, more than n user
\* processes have been seen, or the text is longer than s.
LEMMA CopyKeeps == IInv /\ Copy => IInv'
<1> SUFFICES ASSUME IInv, Copy PROVE IInv'
  OBVIOUS
<1> USE DEF IInv
<1> DEFINE text == utmp[cursor + 1]
<1>1. /\ pc = "copy" /\ cursor < Slots /\ cursor' = cursor + 1
      /\ UNCHANGED <<utmp, heap, n, nusers, changes, logins, logouts>>
      /\ \/ text = None /\ UNCHANGED <<i, pc, names>>
         \/ /\ text # None
            /\ i' = i + 1
            /\ \/ Fits(i + 1, text) /\ UNCHANGED pc
                  /\ \E d \in 1 .. NameLen : names' = byte_copy(i + 1, text, d)
               \/ ~ Fits(i + 1, text) /\ pc' = "overrun" /\ UNCHANGED names
  <2> HIDE DEF IInv
  <2> QED
    BY DEF Copy, Get, history
<1>2. /\ i \in Nat /\ cursor \in Nat /\ n \in Nat /\ Slots \in Nat
      /\ i <= cursor /\ cursor + 1 \in Entries
      /\ text \in Texts \cup {None}
  BY <1>1, NUsersAssumption DEF TypeOK, Passes, Entries
<1> HIDE DEF text
<1>3. /\ i' = i + (IF text # None THEN 1 ELSE 0)
      /\ pc' \in {"copy", "overrun"}
  BY <1>1, <1>2
<1>4. names' \in [1 .. n' -> NameT]
  <2>1. CASE UNCHANGED names
    BY <1>1, <2>1 DEF TypeOK
  <2>2. CASE ~ UNCHANGED names
    <3>1. PICK d \in 1 .. NameLen : names' = byte_copy(i + 1, text, d)
      BY <1>1, <2>2
    <3>2. text \in Texts
      BY <1>1, <1>2, <2>2
    <3> QED
      BY <1>1, <1>2, <3>1, <3>2, CopyTypes DEF TypeOK
  <2> QED
    BY <2>1, <2>2
<1>5. TypeOK' /\ Passes'
  BY <1>1, <1>2, <1>3, <1>4 DEF TypeOK, Passes
<1>6. Seen' = Seen /\ Seen >= i' /\ Seen \in Nat
  <2>1. Left(cursor)' = Left(cursor + 1)
    BY <1>1 DEF Left
  <2>2. Cardinality(Left(cursor)) =
            Cardinality(Left(cursor + 1)) + (IF text # None THEN 1 ELSE 0)
    BY <1>1, <1>2, LeftStep DEF text
  <2>3. Cardinality(Left(cursor + 1)) \in Nat
    BY <1>2, LeftFinite
  <2> QED
    BY <1>1, <1>2, <1>3, <2>1, <2>2, <2>3 DEF Seen
<1>7. logins = 0 /\ pc' = "overrun" => Len(text) > NameLen
  <2> SUFFICES ASSUME logins = 0, pc' = "overrun" PROVE Len(text) > NameLen
    OBVIOUS
  <2>1. text # None /\ ~ Fits(i + 1, text) /\ i' = i + 1
    <3>1. pc' # pc
      BY <1>1
    <3> QED
      BY <1>1, <3>1
  <2>2. Seen <= n
    BY <1>1 DEF LoginFree
  <2>3. i + 1 <= n
    BY <1>2, <1>6, <2>1, <2>2
  <2>4. text \in Texts
    BY <1>2, <2>1
  <2>5. n \in Nat /\ i + 1 \in Nat
    BY <1>2
  <2> QED
    BY ONLY <2>1, <2>3, <2>4, <2>5, LongIfUnfit
<1>8. LoginFree'
  <2>1. utmp'[cursor'] = text
    BY <1>1 DEF text
  <2> QED
    BY <1>1, <1>2, <1>3, <1>6, <1>7, <2>1 DEF LoginFree
<1> QED
  BY <1>1, <1>2, <1>3, <1>5, <1>6, <1>8 DEF LogoutFree

LEMMA SortKeeps == IInv /\ Sort => IInv'
<1> SUFFICES ASSUME IInv, Sort PROVE IInv'
  OBVIOUS
<1> USE DEF IInv
<1>1. /\ pc = "copy" /\ cursor = Slots /\ pc' = "unique"
      /\ names' \in Sortings(names)
      /\ UNCHANGED <<utmp, heap, cursor, i, n, nusers, changes, logins, logouts>>
  BY DEF Sort, history
<1>2. n \in Nat /\ names \in [1 .. n -> NameT]
  BY NUsersAssumption DEF TypeOK
<1>3. names' \in [1 .. n -> NameT]
  <2>1. PICK p \in SetToSeqs(DOMAIN names) : names' = [k \in DOMAIN names |-> names[p[k]]]
    BY <1>1 DEF Sortings
  <2>2. /\ DOMAIN names = 1 .. n
        /\ Cardinality(1 .. n) = n
    BY <1>2, FS_Interval
  <2>3. \A k \in 1 .. n : p[k] \in 1 .. n
    BY <2>1, <2>2 DEF SetToSeqs
  <2> QED
    BY <1>2, <2>1, <2>2, <2>3
<1>4. Seen = i
  BY <1>1, LeftAtEnd DEF Seen, TypeOK
<1> QED
  BY <1>1, <1>3, <1>4 DEF TypeOK, Passes, LoginFree, LogoutFree

LEMMA UniqueKeeps == IInv /\ Unique => IInv'
<1> SUFFICES ASSUME IInv, Unique PROVE IInv'
  OBVIOUS
<1> USE DEF IInv
<1> DEFINE D == {k \in 2 .. n :
                   str_diffn(names[k - 1].s, names[k].s, NameLen) # 0}
<1>1. /\ pc = "unique" /\ pc' = "end" /\ i' = n
      /\ nusers' = 1 + Cardinality(D)
      /\ UNCHANGED <<utmp, heap, cursor, n, names, changes, logins, logouts>>
  BY DEF Unique, history
<1>2. n \in Nat /\ n > 1 /\ n <= Slots /\ Slots \in Nat
  BY <1>1, NUsersAssumption DEF TypeOK, Passes
<1>3. nusers' \in -1 .. Slots
  <2>1. IsFiniteSet(2 .. n) /\ Cardinality(2 .. n) = n - 1
    BY <1>2, FS_Interval
  <2>2. Cardinality(D) \in Nat /\ Cardinality(D) <= n - 1
    BY <2>1, FS_Subset, FS_CardinalityType
  <2> HIDE DEF D
  <2> QED
    BY <1>1, <1>2, <2>2
<1> HIDE DEF D
<1> QED
  BY <1>1, <1>2, <1>3 DEF TypeOK, Passes, LoginFree, LogoutFree

-----------------------------------------------------------------------------
(***************************************************************************)
(* The theorems.                                                           *)
(***************************************************************************)

LEMMA StepKeeps == IInv /\ [Next]_vars => IInv'
<1> SUFFICES ASSUME IInv, [Next]_vars PROVE IInv'
  OBVIOUS
<1>1. CASE UNCHANGED vars
  BY <1>1 DEF vars, history, IInv, TypeOK, Passes, LoginFree, LogoutFree, Seen, Left
<1> QED
  BY <1>1, ChangeKeeps, CountKeeps, AllocateKeeps, CopyKeeps, SortKeeps, UniqueKeeps
     DEF Next, Step, Returned

\* nusers_init keeps its types: the number it shows is never above that of
\* the entries of utmp.
THEOREM UsersTypeCorrect == Spec => []TypeOK
<1>1. IInv => TypeOK
  BY DEF IInv
<1> QED
  BY <1>1, InitInv, StepKeeps, PTL DEF Spec

\* The second pass writes behind its array only after a login since the
\* first one began, or with a name that fills ut_user and a host behind it,
\* however many users there are and whoever logs out.
THEOREM OverrunByLoginOrHost == Spec => []OverrunNeedsLoginOrHost
<1>1. IInv => OverrunNeedsLoginOrHost
  BY NUsersAssumption DEF IInv, LoginFree, OverrunNeedsLoginOrHost, TypeOK
<1> QED
  BY <1>1, InitInv, StepKeeps, PTL DEF Spec

\* Elements of the array that were never written are sorted and counted only
\* after a logout.
THEOREM GarbageByLogout == Spec => []GarbageNeedsLogout
<1>1. IInv => GarbageNeedsLogout
  BY NUsersAssumption DEF IInv, LogoutFree, GarbageNeedsLogout, TypeOK
<1> QED
  BY <1>1, InitInv, StepKeeps, PTL DEF Spec

-----------------------------------------------------------------------------
(***************************************************************************)
(* Each user is counted once.  While nobody logs in or out the array holds *)
(* the users of utmp; sorted, equal names are neighbours; and then there   *)
(* are as many names as places that differ from the one before, and one.   *)
(***************************************************************************)

LEMMA Least ==
    ASSUME NEW S \in SUBSET Nat, S # {}
    PROVE  Min(S) \in S /\ \A x \in S : Min(S) <= x
<1> DEFINE Less == {ss \in Nat \X Nat : ss[1] < ss[2]}
<1>1. IsWellFoundedOn(Less, Nat)
  BY NatLessThanWellFounded DEF OpToRel
<1> HIDE DEF Less
<1>2. PICK x \in S : \A y \in S : ~ (<<y, x>> \in Less)
  BY <1>1, WFMin
<1>3. \A y \in S : x <= y
  <2> SUFFICES ASSUME NEW y \in S, ~ (x <= y) PROVE FALSE
    OBVIOUS
  <2>1. x \in Nat /\ y \in Nat /\ y < x
    OBVIOUS
  <2>2. <<y, x>> \in Less
    BY <2>1 DEF Less
  <2> QED
    BY <1>2, <2>2
<1> QED
  BY <1>3 DEF Min

\* u comes before v where they first differ.
Before(u, v) ==
    \E k \in Nat : /\ 0 < k /\ k <= Len(u) /\ k <= Len(v)
                   /\ u[k] < v[k]
                   /\ \A j \in 1 .. k - 1 : u[j] = v[j]

Apart(u, v) == u = v \/ ~ (IsPrefix(u, v) \/ IsPrefix(v, u))

LEMMA BeforeIsStrict ==
    ASSUME NEW u \in Texts, NEW v \in Texts, Before(u, v), Before(v, u)
    PROVE  FALSE
<1>1. \A w \in Texts : /\ Len(w) \in Nat
                       /\ \A k \in Nat : 0 < k /\ k <= Len(w) => w[k] \in Nat
  BY TextLen
<1>2. PICK k \in Nat : /\ 0 < k /\ k <= Len(u) /\ k <= Len(v)
                       /\ u[k] < v[k]
                       /\ \A j \in 1 .. k - 1 : u[j] = v[j]
  BY DEF Before
<1>3. PICK l \in Nat : /\ 0 < l /\ l <= Len(v) /\ l <= Len(u)
                       /\ v[l] < u[l]
                       /\ \A j \in 1 .. l - 1 : v[j] = u[j]
  BY DEF Before
<1>4. k < l \/ l < k \/ k = l
  OBVIOUS
<1> QED
  BY <1>1, <1>2, <1>3, <1>4

LEMMA BeforeTransitive ==
    ASSUME NEW u \in Texts, NEW v \in Texts, NEW w \in Texts,
           Before(u, v), Before(v, w)
    PROVE  Before(u, w)
<1>1. \A x \in Texts : /\ Len(x) \in Nat
                       /\ \A k \in Nat : 0 < k /\ k <= Len(x) => x[k] \in Nat
  BY TextLen
<1>2. PICK k \in Nat : /\ 0 < k /\ k <= Len(u) /\ k <= Len(v)
                       /\ u[k] < v[k]
                       /\ \A j \in 1 .. k - 1 : u[j] = v[j]
  BY DEF Before
<1>3. PICK l \in Nat : /\ 0 < l /\ l <= Len(v) /\ l <= Len(w)
                       /\ v[l] < w[l]
                       /\ \A j \in 1 .. l - 1 : v[j] = w[j]
  BY DEF Before
<1>4. PICK f \in Nat : f = IF k <= l THEN k ELSE l
  OBVIOUS
<1>5. 0 < f /\ f <= Len(u) /\ f <= Len(w) /\ f <= k /\ f <= l
  BY <1>1, <1>2, <1>3, <1>4
<1>6. u[f] < w[f]
  <2>1. k < l \/ l < k \/ k = l
    OBVIOUS
  <2> QED
    BY <1>1, <1>2, <1>3, <1>4, <2>1
<1>7. \A j \in 1 .. f - 1 : u[j] = w[j]
  BY <1>2, <1>3, <1>5
<1> QED
  BY <1>5, <1>6, <1>7 DEF Before

\* Names of which neither is the beginning of the other differ somewhere.
LEMMA FirstDifference ==
    ASSUME NEW u \in Texts, NEW v \in Texts, Apart(u, v), u # v
    PROVE  \E k \in Nat : /\ 0 < k /\ k <= Len(u) /\ k <= Len(v)
                          /\ u[k] # v[k]
                          /\ \A j \in 1 .. k - 1 : u[j] = v[j]
<1> DEFINE S == {k \in Nat : 0 < k /\ k <= Len(u) /\ k <= Len(v) /\ u[k] # v[k]}
<1>1. u \in Seq(Nat) /\ v \in Seq(Nat) /\ Len(u) \in Nat /\ Len(v) \in Nat
  BY NUsersAssumption
<1>2. S # {}
  <2> SUFFICES ASSUME S = {} PROVE FALSE
    OBVIOUS
  <2>1. \A k \in Nat : 0 < k /\ k <= Len(u) /\ k <= Len(v) => u[k] = v[k]
    OBVIOUS
  <2>2. CASE Len(u) <= Len(v)
    <3>1. SubSeq(u, 1, Len(u)) = SubSeq(v, 1, Len(u))
      BY <1>1, <2>1, <2>2
    <3> QED
      BY <2>2, <3>1 DEF Apart, IsPrefix
  <2>3. CASE Len(v) <= Len(u)
    <3>1. SubSeq(v, 1, Len(v)) = SubSeq(u, 1, Len(v))
      BY <1>1, <2>1, <2>3
    <3> QED
      BY <2>3, <3>1 DEF Apart, IsPrefix
  <2> QED
    BY <1>1, <2>2, <2>3
<1>3. PICK k : k = Min(S)
  OBVIOUS
<1>4. k \in S /\ \A x \in S : k <= x
  BY <1>2, <1>3, Least
<1>5. k \in Nat /\ 0 < k /\ k <= Len(u) /\ k <= Len(v) /\ u[k] # v[k]
  BY <1>4
<1>6. ASSUME NEW j \in 1 .. k - 1 PROVE u[j] = v[j]
  <2>1. j \in Nat /\ 0 < j /\ j < k
    BY <1>5
  <2>2. j \notin S
    BY <1>4, <1>5, <2>1
  <2> QED
    BY <1>1, <1>5, <2>1, <2>2
<1> HIDE DEF S
<1> QED
  BY <1>5, <1>6

\* The text an element holds, and whether there are zeros behind it.
Text(e) == [j \in 1 .. e.len |-> e.s[j]]

Clean(e) == \A j \in e.len + 1 .. NameLen : e.s[j] = 0

\* An element that holds a text as a whole.
Written == {e \in NameT : e.len <= NameLen /\ Text(e) \in Texts}

LEMMA Bytes ==
    ASSUME NEW a \in Written
    PROVE  /\ Text(a) \in Texts /\ Len(Text(a)) = a.len
           /\ a.len \in Nat /\ a.len <= NameLen
           /\ \A k \in 1 .. NameLen : a.s[k] \in Nat
           /\ \A k \in 1 .. a.len : a.s[k] = Text(a)[k] /\ a.s[k] # 0
<1>1. /\ a \in NameT /\ a.len <= NameLen /\ Text(a) \in Texts
      /\ a.len \in Nat /\ a.s \in [1 .. NameLen -> Nat] /\ NameLen \in Nat
  BY Sizes DEF Written, NameT
<1>2. Text(a) = [j \in 1 .. a.len |-> a.s[j]] /\ Text(a) \in Seq(Nat \ {0})
  BY <1>1, TextLen DEF Text
<1>3. Len(Text(a)) = a.len
  BY <1>1, <1>2
<1>4. \A k \in 1 .. a.len : a.s[k] = Text(a)[k] /\ a.s[k] # 0
  BY <1>1, <1>2, <1>3, TextLen
<1> QED
  BY <1>1, <1>3, <1>4

LEMMA TextOf ==
    ASSUME NEW e, NEW u \in Texts, e.len = Len(u), \A j \in 1 .. Len(u) : e.s[j] = u[j]
    PROVE  Text(e) = u
<1>1. u \in Seq(Nat \ {0})
  BY TextLen
<1>2. u = [j \in 1 .. Len(u) |-> u[j]]
  BY <1>1
<1> QED
  BY <1>2 DEF Text

\* str_diffn stops where the bytes first differ, if no zero comes before, and
\* never if they are the same.
LEMMA DiffAt ==
    ASSUME NEW a \in NameT, NEW b \in NameT, NEW len \in Nat, NEW k \in 1 .. len,
           a.s[k] # b.s[k],
           \A j \in 1 .. k - 1 : a.s[j] = b.s[j] /\ a.s[j] # 0
    PROVE  str_diffn(a.s, b.s, len) = a.s[k] - b.s[k]
<1> DEFINE stops == {x \in 1 .. len : a.s[x] # b.s[x] \/ a.s[x] = 0}
<1>1. /\ stops \in SUBSET Nat /\ k \in stops
      /\ \A x \in stops : x >= k
  <2>1. \A x \in 1 .. len : x < k => x \in 1 .. k - 1
    OBVIOUS
  <2> QED
    BY <2>1
<1>2. str_diffn(a.s, b.s, len) =
          IF stops = {} THEN 0 ELSE a.s[Min(stops)] - b.s[Min(stops)]
  BY DEF str_diffn
<1> HIDE DEF stops
<1>3. Min(stops) = k
  <2>1. Min(stops) \in stops /\ \A x \in stops : Min(stops) <= x
    BY <1>1, Least
  <2>2. Min(stops) <= k /\ k <= Min(stops) /\ Min(stops) \in Nat
    BY <1>1, <2>1
  <2> QED
    BY <2>2
<1>4. stops # {}
  BY <1>1
<1> QED
  BY <1>2, <1>3, <1>4

LEMMA DiffSame ==
    ASSUME NEW t \in [1 .. NameLen -> Nat]
    PROVE  str_diffn(t, t, NameLen) = 0
<1> DEFINE stops == {x \in 1 .. NameLen : t[x] = 0}
<1>1. str_diffn(t, t, NameLen) = IF stops = {} THEN 0 ELSE t[Min(stops)] - t[Min(stops)]
  BY DEF str_diffn
<1>2. stops \in SUBSET Nat
  OBVIOUS
<1> HIDE DEF stops
<1>3. CASE stops # {}
  <2>1. Min(stops) \in stops
    BY <1>2, <1>3, Least
  <2>2. t[Min(stops)] = 0
    BY <2>1 DEF stops
  <2> QED
    BY <1>1, <2>2
<1> QED
  BY <1>1, <1>3

\* Names apart are told apart within the shorter one, whatever lies behind.
LEMMA ApartTold ==
    ASSUME NEW a \in Written, NEW b \in Written, Apart(Text(a), Text(b)), Text(a) # Text(b)
    PROVE  /\ name_t_cmp(a, b) <= 0 => Before(Text(a), Text(b))
           /\ str_diffn(a.s, b.s, NameLen) # 0
<1>1. PICK k \in Nat : /\ 0 < k /\ k <= Len(Text(a)) /\ k <= Len(Text(b))
                       /\ Text(a)[k] # Text(b)[k]
                       /\ \A j \in 1 .. k - 1 : Text(a)[j] = Text(b)[j]
  BY Bytes, FirstDifference
<1>2. /\ k \in 1 .. a.len /\ k \in 1 .. b.len /\ k \in 1 .. NameLen
      /\ a.len \in Nat /\ b.len \in Nat /\ NameLen \in Nat
  BY <1>1, Bytes, Sizes
<1>3. /\ a.s[k] = Text(a)[k] /\ b.s[k] = Text(b)[k]
      /\ a.s[k] \in Nat /\ b.s[k] \in Nat
  BY <1>2, Bytes
<1>4. \A j \in 1 .. k - 1 : a.s[j] = b.s[j] /\ a.s[j] # 0
  <2> TAKE j \in 1 .. k - 1
  <2>1. j \in 1 .. a.len /\ j \in 1 .. b.len
    BY <1>2
  <2> QED
    BY <1>1, <2>1, Bytes
<1>5. a \in NameT /\ b \in NameT
  BY DEF Written
<1>6. PICK len \in Nat : len = Min({a.len, b.len, NameLen}) /\ k \in 1 .. len
  <2>1. {a.len, b.len, NameLen} \in SUBSET Nat /\ {a.len, b.len, NameLen} # {}
    BY <1>2
  <2>2. Min({a.len, b.len, NameLen}) \in {a.len, b.len, NameLen}
    BY <2>1, Least
  <2> QED
    BY <1>2, <2>1, <2>2
<1>7. name_t_cmp(a, b) = a.s[k] - b.s[k]
  BY <1>1, <1>3, <1>4, <1>5, <1>6, DiffAt DEF name_t_cmp
<1>8. str_diffn(a.s, b.s, NameLen) = a.s[k] - b.s[k]
  BY <1>1, <1>2, <1>3, <1>4, <1>5, DiffAt
<1>9. name_t_cmp(a, b) <= 0 => Before(Text(a), Text(b))
  <2>1. a.s[k] - b.s[k] <= 0 => Text(a)[k] < Text(b)[k]
    BY <1>1, <1>3
  <2> QED
    BY <1>1, <1>7, <2>1 DEF Before
<1> QED
  BY <1>1, <1>3, <1>8, <1>9

\* With zeros behind the names the last loop tells any two apart.
LEMMA CleanTold ==
    ASSUME NEW a \in Written, NEW b \in Written, Clean(a), Clean(b)
    PROVE  str_diffn(a.s, b.s, NameLen) # 0 <=> Text(a) # Text(b)
<1>1. /\ a.len \in Nat /\ b.len \in Nat /\ a.len <= NameLen /\ b.len <= NameLen
      /\ NameLen \in Nat
      /\ a \in NameT /\ b \in NameT
      /\ a.s \in [1 .. NameLen -> Nat] /\ b.s \in [1 .. NameLen -> Nat]
  BY Bytes, Sizes DEF Written, NameT
<1>2. \A j \in 1 .. NameLen : /\ a.s[j] \in Nat /\ b.s[j] \in Nat
                              /\ a.s[j] = 0 <=> j > a.len
                              /\ b.s[j] = 0 <=> j > b.len
  <2> TAKE j \in 1 .. NameLen
  <2>1. j <= a.len => a.s[j] # 0
    BY <1>1, Bytes
  <2>2. j <= b.len => b.s[j] # 0
    BY <1>1, Bytes
  <2>3. (j > a.len => a.s[j] = 0) /\ (j > b.len => b.s[j] = 0)
    BY <1>1 DEF Clean
  <2> QED
    BY <1>1, <2>1, <2>2, <2>3
<1>3. ASSUME Text(a) = Text(b) PROVE str_diffn(a.s, b.s, NameLen) = 0
  <2>1. a.len = b.len
    BY <1>3, Bytes
  <2>2. \A j \in 1 .. NameLen : a.s[j] = b.s[j]
    <3> TAKE j \in 1 .. NameLen
    <3>1. CASE j <= a.len
      <4>1. j \in 1 .. a.len /\ j \in 1 .. b.len
        BY <1>1, <2>1, <3>1
      <4>2. a.s[j] = Text(a)[j] /\ b.s[j] = Text(b)[j]
        BY <4>1, Bytes
      <4> QED
        BY <1>3, <4>2
    <3>2. CASE j > a.len
      BY <1>2, <2>1, <3>2
    <3> QED
      BY <1>1, <3>1, <3>2
  <2>3. a.s = b.s
    BY <1>1, <2>2
  <2> QED
    BY <1>1, <2>3, DiffSame
<1>4. ASSUME Text(a) # Text(b) PROVE str_diffn(a.s, b.s, NameLen) # 0
  <2> DEFINE S == {k \in 1 .. NameLen : a.s[k] # b.s[k]}
  <2>1. S # {}
    <3> SUFFICES ASSUME \A j \in 1 .. NameLen : a.s[j] = b.s[j] PROVE FALSE
      OBVIOUS
    <3>1. \A j \in 1 .. NameLen : j > a.len <=> j > b.len
      BY <1>2
    <3>2. a.len = b.len
      <4>1. CASE a.len < b.len
        <5>1. a.len + 1 \in 1 .. NameLen /\ a.len + 1 > a.len /\ ~ (a.len + 1 > b.len)
          BY <1>1, <4>1
        <5> QED
          BY <3>1, <5>1
      <4>2. CASE b.len < a.len
        <5>1. b.len + 1 \in 1 .. NameLen /\ b.len + 1 > b.len /\ ~ (b.len + 1 > a.len)
          BY <1>1, <4>2
        <5> QED
          BY <3>1, <5>1
      <4> QED
        BY <1>1, <4>1, <4>2
    <3>3. \A j \in 1 .. a.len : j \in 1 .. NameLen
      BY <1>1
    <3>4. Text(a) = Text(b)
      BY <3>2, <3>3 DEF Text
    <3> QED
      BY <1>4, <3>4
  <2>2. PICK k : k = Min(S)
    OBVIOUS
  <2>3. S \in SUBSET Nat
    OBVIOUS
  <2>4. k \in S /\ \A x \in S : k <= x
    BY <2>1, <2>2, <2>3, Least
  <2>5. k \in 1 .. NameLen /\ a.s[k] # b.s[k]
    BY <2>4
  <2>6. \A j \in 1 .. k - 1 : a.s[j] = b.s[j] /\ a.s[j] # 0
    <3> TAKE j \in 1 .. k - 1
    <3>1. j \in 1 .. NameLen /\ j < k /\ ~ (k <= j)
      BY <1>1, <2>5
    <3>2. a.s[j] = b.s[j]
      BY <2>4, <3>1
    <3>3. ASSUME a.s[j] = 0 PROVE FALSE
      <4>1. j > a.len /\ j > b.len
        <5>1. /\ a.s[j] = 0 <=> j > a.len
              /\ b.s[j] = 0 <=> j > b.len
          BY <1>2, <3>1
        <5> QED
          BY <3>2, <3>3, <5>1
      <4>2. k > a.len /\ k > b.len
        <5>1. a.len \in Int /\ b.len \in Int
          BY ONLY <1>1
        <5>2. k \in Int /\ j \in Int /\ j < k
          BY ONLY <2>5, <3>1
        <5> QED
          BY ONLY <4>1, <5>1, <5>2
      <4>3. a.s[k] = 0 /\ b.s[k] = 0
        BY <1>2, <2>5, <4>2
      <4> QED
        BY <2>5, <4>3
    <3> QED
      BY <3>2, <3>3
  <2> HIDE DEF S
  <2>7. str_diffn(a.s, b.s, NameLen) = a.s[k] - b.s[k]
    <3>1. a \in NameT /\ b \in NameT /\ NameLen \in Nat
      BY <1>1
    <3> QED
      BY ONLY <2>5, <2>6, <3>1, DiffAt
  <2>8. a.s[k] \in Nat /\ b.s[k] \in Nat
    BY <1>2, <2>5
  <2> QED
    BY <2>5, <2>7, <2>8
<1> QED
  BY <1>3, <1>4

\* In a sorted array each element is the same as, or comes before, every
\* later one.
LEMMA Ascending ==
    ASSUME NEW z \in Nat, NEW t \in [1 .. z -> Written], InOrder(t),
           \A j, k \in 1 .. z : Apart(Text(t[j]), Text(t[k])),
           NEW j \in 1 .. z, NEW k \in 1 .. z, j < k
    PROVE  Text(t[j]) = Text(t[k]) \/ Before(Text(t[j]), Text(t[k]))
<1> DEFINE Good(l) == Text(t[j]) = Text(t[l]) \/ Before(Text(t[j]), Text(t[l]))
           S == {l \in 1 .. z : j < l /\ ~ Good(l)}
<1> SUFFICES ASSUME S # {} PROVE FALSE
  OBVIOUS
<1>1. PICK l : l = Min(S)
  OBVIOUS
<1>2. l \in S /\ \A x \in S : l <= x
  <2>1. S \in SUBSET Nat
    OBVIOUS
  <2> QED
    BY <1>1, <2>1, Least
<1>3. l \in 1 .. z /\ j < l /\ ~ Good(l) /\ l - 1 \in 1 .. z /\ l - 1 \in 1 .. Len(t) - 1
  <2>1. Len(t) = z
    OBVIOUS
  <2> QED
    BY <1>2, <2>1
<1>4. name_t_cmp(t[l - 1], t[l]) <= 0
  <2>1. (l - 1) + 1 = l
    BY <1>3
  <2> QED
    BY <1>3, <2>1 DEF InOrder
<1>5. Text(t[l - 1]) = Text(t[l]) \/ Before(Text(t[l - 1]), Text(t[l]))
  <2>1. t[l - 1] \in Written /\ t[l] \in Written /\ Apart(Text(t[l - 1]), Text(t[l]))
    BY <1>3
  <2> QED
    BY ONLY <1>4, <2>1, ApartTold
<1>6. Good(l - 1)
  <2>1. CASE l - 1 = j
    BY <2>1
  <2>2. CASE l - 1 # j
    <3>1. j < l - 1 /\ ~ (l <= l - 1)
      BY <1>3, <2>2
    <3>2. l - 1 \notin S
      BY <1>2, <3>1
    <3> QED
      BY <1>3, <3>1, <3>2
  <2> QED
    BY <2>1, <2>2
<1>7. Text(t[j]) \in Texts /\ Text(t[l - 1]) \in Texts /\ Text(t[l]) \in Texts
  BY <1>3 DEF Written
<1> HIDE DEF S
<1> QED
  BY <1>3, <1>5, <1>6, <1>7, BeforeTransitive

\* Equal names have nothing else between them.
LEMMA Grouped ==
    ASSUME NEW z \in Nat, NEW t \in [1 .. z -> Written], InOrder(t),
           \A j, k \in 1 .. z : Apart(Text(t[j]), Text(t[k])),
           NEW j \in 1 .. z, NEW k \in 1 .. z, j < k, Text(t[j]) = Text(t[k])
    PROVE  Text(t[k - 1]) = Text(t[k])
<1>1. CASE j = k - 1
  BY <1>1
<1>2. CASE j # k - 1
  <2>1. k - 1 \in 1 .. z /\ j < k - 1 /\ k - 1 < k
    BY <1>2
  <2>2. Text(t[j]) = Text(t[k - 1]) \/ Before(Text(t[j]), Text(t[k - 1]))
    BY <2>1, Ascending
  <2>3. Text(t[k - 1]) = Text(t[k]) \/ Before(Text(t[k - 1]), Text(t[k]))
    BY <2>1, Ascending
  <2>4. Text(t[j]) \in Texts /\ Text(t[k - 1]) \in Texts
    BY <2>1 DEF Written
  <2> QED
    BY <2>2, <2>3, <2>4, BeforeIsStrict
<1> QED
  BY <1>1, <1>2

\* The first place, and every place that differs from the one before, are at
\* least as many as there are values, and then as many.
LEMMA GroupsCounted ==
    ASSUME NEW z \in Nat \ {0}, NEW v
    PROVE  /\ Cardinality({v[k] : k \in 1 .. z}) \in Nat
           /\ Cardinality({v[k] : k \in 1 .. z}) <=
                  1 + Cardinality({k \in 2 .. z : v[k - 1] # v[k]})
           /\ (\A j, k \in 1 .. z : j < k /\ v[j] = v[k] => v[k - 1] = v[k])
                  => Cardinality({v[k] : k \in 1 .. z}) =
                         1 + Cardinality({k \in 2 .. z : v[k - 1] # v[k]})
<1> DEFINE D == {k \in 2 .. z : v[k - 1] # v[k]}
           H == D \cup {1}
           R == {v[k] : k \in 1 .. z}
           Together == \A j, k \in 1 .. z : j < k /\ v[j] = v[k] => v[k - 1] = v[k]
           fun == [k \in H |-> v[k]]
<1>1. H \subseteq 1 .. z /\ 1 \notin D
  OBVIOUS
<1>2. IsFiniteSet(D) /\ IsFiniteSet(H) /\ Cardinality(H) = Cardinality(D) + 1
      /\ Cardinality(D) \in Nat
  <2>1. IsFiniteSet(2 .. z)
    BY FS_Interval
  <2>2. IsFiniteSet(D)
    BY <2>1, FS_Subset
  <2> HIDE DEF D
  <2> QED
    BY <1>1, <2>2, FS_AddElement, FS_CardinalityType
<1>3. fun \in [H -> R]
  BY <1>1
<1>4. Together => \A j, k \in H : j < k => v[j] # v[k]
  <2> SUFFICES ASSUME Together, NEW j \in H, NEW k \in H, j < k, v[j] = v[k]
               PROVE  FALSE
    OBVIOUS
  <2>1. j \in 1 .. z /\ k \in 1 .. z /\ k # 1
    BY <1>1
  <2>2. v[k - 1] = v[k]
    BY <2>1
  <2> QED
    BY <2>1, <2>2
<1>5. Together => \A j, k \in H : v[j] = v[k] => j = k
  <2>1. \A j, k \in H : j < k \/ k < j \/ j = k
    BY <1>1
  <2> QED
    BY <1>4, <2>1
<1>6. \A x \in R : \E k \in H : v[k] = x
  <2> TAKE x \in R
  <2> DEFINE S == {k \in 1 .. z : v[k] = x}
  <2>1. S \in SUBSET Nat /\ S # {}
    OBVIOUS
  <2>2. PICK k : k = Min(S)
    OBVIOUS
  <2>3. k \in S /\ \A y \in S : k <= y
    BY <2>1, <2>2, Least
  <2>4. k = 1 \/ k \in D
    <3> SUFFICES ASSUME k # 1 PROVE k \in D
      OBVIOUS
    <3>1. k \in 2 .. z /\ k - 1 \in 1 .. z /\ ~ (k <= k - 1) /\ v[k] = x
      BY <2>3
    <3>2. v[k - 1] # x
      BY <2>3, <3>1
    <3> QED
      BY <3>1, <3>2
  <2> QED
    BY <2>3, <2>4
<1>7. fun \in Surjection(H, R)
  BY <1>3, <1>6 DEF Surjection
<1>8. Together => fun \in Bijection(H, R)
  <2> SUFFICES ASSUME Together PROVE fun \in Bijection(H, R)
    OBVIOUS
  <2>1. fun \in Injection(H, R)
    BY <1>3, <1>5 DEF Injection, IsInjective
  <2> QED
    BY <1>7, <2>1 DEF Bijection
<1> HIDE DEF fun, H, R, D, Together
<1>9. IsFiniteSet(R) /\ Cardinality(R) <= Cardinality(H)
  BY <1>2, <1>7, FS_Surjection
<1>10. Together => Cardinality(R) = Cardinality(H)
  BY <1>2, <1>8, FS_Bijection DEF ExistsBijection
<1>11. Cardinality(R) \in Nat
  BY <1>9, FS_CardinalityType
<1>12. /\ Cardinality(R) <= 1 + Cardinality(D)
       /\ Together => Cardinality(R) = 1 + Cardinality(D)
  BY <1>2, <1>9, <1>10, <1>11
<1> QED
  BY <1>11, <1>12 DEF R, D, Together

\* The user processes, while nobody logs in or out: the array is made for
\* all of them.
Room ==
    changes = 0 /\ pc \in {"copy", "unique"} => n = Cardinality(Sessions)

\* The second pass has copied the users of the entries it has read, and what
\* it has not written yet is as malloc returned it.
Copied ==
    changes = 0 /\ Bounded /\ pc = "copy" =>
        /\ \A e \in 1 .. cursor :
              utmp[e] # None => \E k \in 1 .. i : Text(names[k]) = utmp[e]
        /\ \A k \in 1 .. i : names[k].len <= NameLen /\ Text(names[k]) \in Users
        /\ heap = "zero" =>
              /\ \A k \in 1 .. i : Clean(names[k])
              /\ \A k \in i + 1 .. n : \A j \in 1 .. NameLen : names[k].s[j] = 0

\* What is counted in the end.
Sorted ==
    pc = "unique" =>
        /\ InOrder(names)
        /\ changes = 0 /\ Bounded =>
              /\ {Text(names[k]) : k \in 1 .. n} = Users
              /\ \A k \in 1 .. n : names[k].len <= NameLen
              /\ heap = "zero" => \A k \in 1 .. n : Clean(names[k])

Counted == CountsUsersOnce /\ MissesNoUser

OnceInv == IInv /\ Room /\ Copied /\ Sorted /\ Counted

\* Without a change nobody has logged in or out.
LEMMA NoChange ==
    ASSUME TypeOK, changes = 0
    PROVE  logins = 0 /\ logouts = 0
BY NUsersAssumption DEF TypeOK

LEMMA SessionsLeft == Sessions = Left(0)
BY NUsersAssumption DEF Sessions, Left, Entries

\* What is claimed of the end only.
LEMMA CountedLater == pc # "end" => Counted
BY DEF Counted, CountsUsersOnce, MissesNoUser, CountsUsers, Undisturbed

LEMMA CountedAsBefore ==
    ASSUME UNCHANGED <<utmp, heap>>
    PROVE  /\ Users' = Users /\ Sessions' = Sessions
           /\ Bounded' <=> Bounded
           /\ PrefixFree' <=> PrefixFree
BY DEF Users, Sessions, Bounded, PrefixFree

\* When the first pass is through.
LEMMA FirstPass ==
    ASSUME IInv, pc = "count", cursor = Slots, changes = 0
    PROVE  i = Cardinality(Sessions)
<1>1. TypeOK /\ i \in Nat
  BY NUsersAssumption DEF IInv, TypeOK
<1>2. Seen = i
  BY <1>1, LeftAtEnd DEF Seen
<1>3. Seen >= Cardinality(Left(0)) /\ Seen <= Cardinality(Left(0))
  BY <1>1, NoChange DEF IInv, LoginFree, LogoutFree
<1> QED
  BY <1>1, <1>2, <1>3, LeftFinite, SessionsLeft

\* The first pass has counted one user at most.
LEMMA AtMostOneOnce == OnceInv /\ IInv' /\ CountedAtMostOne => OnceInv'
<1> SUFFICES ASSUME OnceInv, IInv', CountedAtMostOne PROVE OnceInv'
  OBVIOUS
<1>1. /\ pc = "count" /\ cursor = Slots /\ i <= 1 /\ nusers' = i /\ pc' = "end"
      /\ UNCHANGED <<utmp, heap, changes>>
  BY DEF CountedAtMostOne, history
<1>2. IInv /\ TypeOK /\ Slots \in Nat /\ i \in Nat
  BY NUsersAssumption DEF OnceInv, IInv, TypeOK
<1>3. ASSUME changes = 0
      PROVE  nusers' = Cardinality(Users) /\ nusers' = Cardinality(Sessions)
  <2>1. Cardinality(Sessions) = i
    BY <1>1, <1>2, <1>3, FirstPass
  <2>2. Users = {utmp[e] : e \in Sessions}
    BY DEF Users, Sessions
  <2>3. IsFiniteSet(Sessions)
    BY LeftFinite, SessionsLeft
  <2>4. CASE i = 0
    <3>1. Sessions = {}
      BY <2>1, <2>3, <2>4, FS_EmptySet
    <3>2. Users = {}
      BY <2>2, <3>1
    <3> QED
      BY <1>1, <2>1, <2>4, <3>2, FS_EmptySet
  <2>5. CASE i = 1
    <3>1. PICK e : Sessions = {e}
      BY <2>1, <2>3, <2>5, FS_Singleton
    <3>2. Users = {utmp[e]}
      BY <2>2, <3>1
    <3> QED
      BY <1>1, <2>1, <2>5, <3>2, FS_Singleton
  <2> QED
    BY <1>1, <1>2, <2>4, <2>5
<1>4. Users' = Users /\ Sessions' = Sessions
  BY <1>1, CountedAsBefore
<1>5. Counted'
  BY <1>1, <1>2, <1>3, <1>4
     DEF Counted, CountsUsersOnce, MissesNoUser, CountsUsers, Undisturbed
<1> QED
  BY <1>1, <1>5 DEF OnceInv, Room, Copied, Sorted

LEMMA AllocateOnce == OnceInv /\ IInv' /\ Allocate => OnceInv'
<1> SUFFICES ASSUME OnceInv, IInv', Allocate PROVE OnceInv'
  OBVIOUS
<1>1. /\ pc = "count" /\ cursor = Slots
      /\ pc' = "copy" /\ i' = 0 /\ cursor' = 0 /\ n' = i
      /\ UNCHANGED <<utmp, heap, changes>>
      /\ names' \in [1 .. i -> Fresh]
  BY DEF Allocate, history
<1>2. Room'
  BY <1>1, FirstPass, CountedAsBefore DEF OnceInv, Room
<1>3. Copied'
  <2>1. ASSUME heap = "zero", NEW k \in 1 .. i, NEW j \in 1 .. NameLen
        PROVE  names'[k].s[j] = 0
    <3>1. names'[k] \in Fresh
      BY <1>1
    <3> QED
      BY <2>1, <3>1 DEF Fresh
  <2>2. i' + 1 = 1
    BY <1>1
  <2> QED
    BY <1>1, <2>1, <2>2 DEF Copied
<1>4. Counted'
  BY <1>1 DEF Counted, CountsUsersOnce, MissesNoUser, CountsUsers, Undisturbed
<1> QED
  BY <1>1, <1>2, <1>3, <1>4 DEF OnceInv, Sorted

\* One more text in the array.
LEMMA CopyOnce == OnceInv /\ IInv' /\ Copy => OnceInv'
<1> SUFFICES ASSUME OnceInv, IInv', Copy PROVE OnceInv'
  OBVIOUS
<1> DEFINE text == utmp[cursor + 1]
<1>1. /\ pc = "copy" /\ cursor < Slots /\ cursor' = cursor + 1
      /\ UNCHANGED <<utmp, heap, n, changes>>
      /\ pc' \in {"copy", "overrun"}
      /\ \/ text = None /\ UNCHANGED <<i, pc, names>>
         \/ /\ text # None
            /\ i' = i + 1
            /\ \/ Fits(i + 1, text) /\ UNCHANGED pc
                  /\ \E d \in 1 .. NameLen : names' = byte_copy(i + 1, text, d)
               \/ ~ Fits(i + 1, text) /\ pc' = "overrun" /\ UNCHANGED names
  <2>1. /\ pc = "copy" /\ cursor < Slots /\ cursor' = cursor + 1
        /\ UNCHANGED <<utmp, heap, n, changes>>
    BY DEF Copy, Get, history
  <2> QED
    BY <2>1 DEF Copy
<1>2. /\ TypeOK /\ Slots \in Nat /\ i \in Nat /\ n \in Nat /\ cursor \in Nat
      /\ cursor + 1 \in Entries
      /\ names \in [1 .. n -> NameT]
      /\ text \in Texts \cup {None}
  BY <1>1, NUsersAssumption DEF OnceInv, IInv, TypeOK, Entries
<1>3. Users' = Users /\ Sessions' = Sessions /\ (Bounded' <=> Bounded)
  BY <1>1, CountedAsBefore
<1>4. ASSUME changes = 0, Bounded, pc' = "copy" PROVE Copied'
  <2>1. /\ \A e \in 1 .. cursor :
              utmp[e] # None => \E k \in 1 .. i : Text(names[k]) = utmp[e]
        /\ \A k \in 1 .. i : names[k].len <= NameLen /\ Text(names[k]) \in Users
        /\ heap = "zero" =>
              /\ \A k \in 1 .. i : Clean(names[k])
              /\ \A k \in i + 1 .. n : \A j \in 1 .. NameLen : names[k].s[j] = 0
    BY <1>1, <1>4 DEF OnceInv, Copied
  <2>2. \A e \in 1 .. cursor + 1 : e = cursor + 1 \/ e \in 1 .. cursor
    BY <1>2
  <2>3. CASE text = None
    <3>1. UNCHANGED <<i, names>>
      BY <1>1, <2>3
    <3>2. \A e \in 1 .. cursor' :
              utmp'[e] # None => \E k \in 1 .. i' : Text(names'[k]) = utmp'[e]
      BY <1>1, <2>1, <2>2, <2>3, <3>1
    <3> QED
      BY <1>1, <1>3, <2>1, <3>1, <3>2 DEF Copied
  <2>4. CASE text # None
    <3>1. PICK d \in 1 .. NameLen : names' = byte_copy(i + 1, text, d)
      BY <1>1, <1>4, <2>4
    <3>2. i' = i + 1 /\ Fits(i + 1, text)
      BY <1>1, <1>4, <2>4
    <3>3. i + 1 \in 1 .. n /\ text \in Texts
      BY <1>2, <2>4, <3>2 DEF Fits
    <3>4. Len(text) <= NameLen /\ text \in Users
      BY <1>2, <1>4, <2>4 DEF Bounded, Users
    <3> DEFINE new == names'[i + 1]
    <3>5. /\ new.len = Len(text)
          /\ \A j \in 1 .. NameLen : new.s[j] =
                IF j <= Len(text) THEN text[j] ELSE names[i + 1].s[j]
          /\ \A k \in 1 .. n : k # i + 1 => names'[k] = names[k]
      BY <1>2, <3>1, <3>3, <3>4, CopyOne
    <3>6. \A k \in 1 .. i : k \in 1 .. n /\ k # i + 1 /\ k \in 1 .. i + 1 /\ names'[k] = names[k]
      BY <1>2, <3>3, <3>5
    <3>7. i + 1 \in 1 .. i + 1 /\ \A k \in 1 .. i + 1 : k = i + 1 \/ k \in 1 .. i
      BY <1>2
    <3> HIDE DEF new
    <3>8. Text(new) = text /\ new.len <= NameLen
      <4>1. \A j \in 1 .. Len(text) : new.s[j] = text[j]
        BY <3>3, <3>4, <3>5, TextLen, Sizes
      <4> QED
        BY <3>3, <3>4, <3>5, <4>1, TextOf
    <3>9. ASSUME heap = "zero" PROVE Clean(new)
      <4>1. \A j \in Len(text) + 1 .. NameLen :
                j \in 1 .. NameLen /\ ~ (j <= Len(text))
        BY <3>3, TextLen, Sizes
      <4>2. i + 1 \in i + 1 .. n
        BY <1>2, <3>3
      <4>3. \A j \in 1 .. NameLen : names[i + 1].s[j] = 0
        BY <2>1, <3>9, <4>2
      <4> QED
        BY <3>5, <4>1, <4>3 DEF Clean
    <3>10. ASSUME heap = "zero", NEW k \in i' + 1 .. n
           PROVE  \A j \in 1 .. NameLen : names'[k].s[j] = 0
      <4>1. k \in 1 .. n /\ k # i + 1 /\ k \in i + 1 .. n
        BY <1>2, <3>2
      <4>2. names'[k] = names[k]
        BY <3>5, <4>1
      <4> QED
        BY <2>1, <3>10, <4>1, <4>2
    <3>11. ASSUME NEW e \in 1 .. cursor + 1, utmp[e] # None
           PROVE  \E k \in 1 .. i + 1 : Text(names'[k]) = utmp[e]
      <4>1. CASE e = cursor + 1
        BY <3>7, <3>8, <4>1 DEF new
      <4>2. CASE e \in 1 .. cursor
        BY <2>1, <3>6, <3>11, <4>2
      <4> QED
        BY <2>2, <4>1, <4>2
    <3>12. ASSUME NEW k \in 1 .. i + 1
           PROVE  /\ names'[k].len <= NameLen /\ Text(names'[k]) \in Users
                  /\ heap = "zero" => Clean(names'[k])
      <4>1. CASE k = i + 1
        BY <3>4, <3>8, <3>9, <4>1 DEF new
      <4>2. CASE k \in 1 .. i
        BY <2>1, <3>6, <4>2
      <4> QED
        BY <3>7, <4>1, <4>2
    <3>13. /\ utmp' = utmp /\ heap' = heap /\ n' = n /\ cursor' = cursor + 1
           /\ Users' = Users
      BY <1>1, <1>3
    <3> HIDE DEF text
    <3> QED
      BY <3>2, <3>10, <3>11, <3>12, <3>13 DEF Copied, Clean, Text
  <2> QED
    BY <2>3, <2>4
<1>5. Copied'
  BY <1>1, <1>3, <1>4 DEF Copied
<1>6. Room'
  BY <1>1, <1>3 DEF OnceInv, Room
<1>7. Counted'
  BY <1>1 DEF Counted, CountsUsersOnce, MissesNoUser, CountsUsers, Undisturbed
<1> QED
  BY <1>1, <1>5, <1>6, <1>7 DEF OnceInv, Sorted

\* qsort moves the elements, and loses none.
LEMMA SortOnce == OnceInv /\ IInv' /\ Sort => OnceInv'
<1> SUFFICES ASSUME OnceInv, IInv', Sort PROVE OnceInv'
  OBVIOUS
<1>1. /\ pc = "copy" /\ cursor = Slots /\ pc' = "unique"
      /\ names' \in Sortings(names) /\ InOrder(names')
      /\ UNCHANGED <<utmp, heap, cursor, i, n, changes>>
  BY DEF Sort, history
<1>2. TypeOK /\ Slots \in Nat /\ n \in Nat /\ i \in Nat /\ names \in [1 .. n -> NameT]
  BY NUsersAssumption DEF OnceInv, IInv, TypeOK
<1>3. PICK p \in SetToSeqs(1 .. n) : names' = [k \in 1 .. n |-> names[p[k]]]
  BY <1>1, <1>2 DEF Sortings
<1>4. p \in [1 .. n -> 1 .. n] /\ \A x \in 1 .. n : \E k \in 1 .. n : p[k] = x
  <2>1. IsFiniteSet(1 .. n) /\ Cardinality(1 .. n) = n
    BY <1>2, FS_Interval
  <2>2. p \in Injection(1 .. n, 1 .. n)
    BY <2>1 DEF SetToSeqs, Injection, IsInjective
  <2>3. p \in Surjection(1 .. n, 1 .. n)
    BY <2>1, <2>2, FS_Injection
  <2> QED
    BY <2>3 DEF Surjection
<1>5. ASSUME changes = 0, Bounded
      PROVE  /\ {Text(names'[k]) : k \in 1 .. n} = Users
             /\ \A k \in 1 .. n : names'[k].len <= NameLen
             /\ heap = "zero" => \A k \in 1 .. n : Clean(names'[k])
  <2>1. i = n
    <3>1. Seen = i
      BY <1>1, <1>2, LeftAtEnd DEF Seen
    <3>2. Seen >= n /\ Seen <= n
      BY <1>1, <1>2, <1>5, NoChange DEF OnceInv, IInv, LoginFree, LogoutFree
    <3> QED
      BY <1>2, <3>1, <3>2
  <2>2. /\ \A e \in 1 .. Slots :
              utmp[e] # None => \E k \in 1 .. n : Text(names[k]) = utmp[e]
        /\ \A k \in 1 .. n : names[k].len <= NameLen /\ Text(names[k]) \in Users
        /\ heap = "zero" => \A k \in 1 .. n : Clean(names[k])
    BY <1>1, <1>5, <2>1 DEF OnceInv, Copied
  <2>3. {Text(names[k]) : k \in 1 .. n} = Users
    BY <2>2 DEF Users, Entries
  <2>4. \A k \in 1 .. n : p[k] \in 1 .. n /\ names'[k] = names[p[k]]
    BY <1>3, <1>4
  <2>5. {Text(names'[k]) : k \in 1 .. n} = {Text(names[k]) : k \in 1 .. n}
    <3>1. \A k \in 1 .. n : \E x \in 1 .. n : Text(names'[k]) = Text(names[x])
      BY <2>4
    <3>2. \A x \in 1 .. n : \E k \in 1 .. n : Text(names'[k]) = Text(names[x])
      <4> TAKE x \in 1 .. n
      <4>1. PICK k \in 1 .. n : p[k] = x
        BY <1>4
      <4>2. names'[k] = names[x]
        BY <2>4, <4>1
      <4> QED
        BY <4>2
    <3> QED
      BY <3>1, <3>2
  <2> QED
    BY <2>2, <2>3, <2>4, <2>5
<1>6. Users' = Users /\ Sessions' = Sessions /\ (Bounded' <=> Bounded)
  BY <1>1, CountedAsBefore
<1>7. Sorted'
  BY <1>1, <1>5, <1>6 DEF Sorted, InOrder, name_t_cmp, str_diffn, Clean, Text
<1>8. Room'
  BY <1>1, <1>6 DEF OnceInv, Room
<1>9. Counted'
  BY <1>1 DEF Counted, CountsUsersOnce, MissesNoUser, CountsUsers, Undisturbed
<1> QED
  BY <1>1, <1>7, <1>8, <1>9 DEF OnceInv, Copied

\* The count against the users; nusers counts each place that differs.
LEMMA UniqueOnce == OnceInv /\ IInv' /\ Unique => OnceInv'
<1> SUFFICES ASSUME OnceInv, IInv', Unique PROVE OnceInv'
  OBVIOUS
<1> DEFINE D == {k \in 2 .. n : str_diffn(names[k - 1].s, names[k].s, NameLen) # 0}
<1>1. /\ pc = "unique" /\ pc' = "end"
      /\ nusers' = 1 + Cardinality(D)
      /\ UNCHANGED <<utmp, heap, changes>>
  BY DEF Unique, history
<1>2. n \in Nat \ {0} /\ names \in [1 .. n -> NameT]
  BY <1>1, NUsersAssumption DEF OnceInv, IInv, TypeOK, Passes
<1>3. IsFiniteSet(D) /\ Cardinality(D) \in Nat /\ Cardinality(D) <= n - 1
  <2>1. IsFiniteSet(2 .. n) /\ Cardinality(2 .. n) = n - 1
    BY <1>2, FS_Interval
  <2> QED
    BY <2>1, FS_Subset, FS_CardinalityType
<1> HIDE DEF D
<1>4. ASSUME changes = 0, Bounded, heap = "zero" \/ PrefixFree
      PROVE  /\ nusers' \in Cardinality(Users) .. Cardinality(Sessions)
             /\ heap = "zero" /\ PrefixFree => nusers' = Cardinality(Users)
  <2>1. /\ InOrder(names) /\ {Text(names[k]) : k \in 1 .. n} = Users
        /\ \A k \in 1 .. n : names[k].len <= NameLen
        /\ heap = "zero" => \A k \in 1 .. n : Clean(names[k])
        /\ n = Cardinality(Sessions)
    BY <1>1, <1>4 DEF OnceInv, Sorted, Room
  <2>2. names \in [1 .. n -> Written]
    <3>1. Users \subseteq Texts
      BY DEF OnceInv, IInv, TypeOK, Users
    <3>2. \A k \in 1 .. n : names[k] \in Written
      BY <1>2, <2>1, <3>1 DEF Written
    <3> QED
      BY <1>2, <3>2
  <2>3. PrefixFree => \A j, k \in 1 .. n : Apart(Text(names[j]), Text(names[k]))
    BY <2>1 DEF PrefixFree, Apart
  <2>4. PICK v : v = [k \in 1 .. n |-> Text(names[k])]
    OBVIOUS
  <2> DEFINE V == {k \in 2 .. n : v[k - 1] # v[k]}
  <2>5. {v[k] : k \in 1 .. n} = Users
    BY <2>1, <2>4
  <2>6. ASSUME NEW k \in 2 .. n
        PROVE  /\ k \in V => k \in D
               /\ heap = "zero" => (k \in V <=> k \in D)
    <3>1. k - 1 \in 1 .. n /\ k \in 1 .. n
      BY <1>2
    <3>2. names[k - 1] \in Written /\ names[k] \in Written
      BY <2>2, <3>1
    <3>3. v[k - 1] = Text(names[k - 1]) /\ v[k] = Text(names[k])
      BY <2>4, <3>1
    <3>4. k \in D <=> str_diffn(names[k - 1].s, names[k].s, NameLen) # 0
      BY DEF D
    <3>5. CASE heap = "zero"
      <4>1. Clean(names[k - 1]) /\ Clean(names[k])
        BY <2>1, <3>1, <3>5
      <4> QED
        BY <3>2, <3>3, <3>4, <4>1, CleanTold
    <3>6. CASE heap # "zero"
      <4>1. Apart(Text(names[k - 1]), Text(names[k]))
        BY <1>4, <2>3, <3>1, <3>6
      <4> QED
        BY <3>2, <3>3, <3>4, <3>6, <4>1, ApartTold
    <3> QED
      BY <3>5, <3>6
  <2>7. /\ Cardinality(Users) \in Nat
        /\ Cardinality(Users) <= 1 + Cardinality(V)
        /\ (\A j, k \in 1 .. n : j < k /\ v[j] = v[k] => v[k - 1] = v[k])
              => Cardinality(Users) = 1 + Cardinality(V)
    BY <1>2, <2>5, GroupsCounted
  <2>8. V \subseteq D /\ (heap = "zero" => V = D)
    <3>1. D \subseteq 2 .. n
      BY DEF D
    <3> QED
      BY <2>6, <3>1
  <2> HIDE DEF V
  <2>9. Cardinality(V) \in Nat /\ Cardinality(V) <= Cardinality(D)
    BY <1>3, <2>8, FS_Subset, FS_CardinalityType
  <2>10. nusers' \in Cardinality(Users) .. Cardinality(Sessions)
    BY <1>1, <1>2, <1>3, <2>1, <2>7, <2>9
  <2>11. ASSUME heap = "zero", PrefixFree PROVE nusers' = Cardinality(Users)
    <3>1. ASSUME NEW j \in 1 .. n, NEW k \in 1 .. n, j < k, v[j] = v[k]
          PROVE  v[k - 1] = v[k]
      <4>1. k - 1 \in 1 .. n /\ Text(names[j]) = Text(names[k])
        BY <1>2, <2>4, <3>1
      <4>2. n \in Nat /\ \A x, y \in 1 .. n : Apart(Text(names[x]), Text(names[y]))
        BY <1>2, <2>3, <2>11
      <4>3. Text(names[k - 1]) = Text(names[k])
        BY <2>1, <2>2, <3>1, <4>1, <4>2, Grouped
      <4> QED
        BY <2>4, <4>1, <4>3
    <3> QED
      BY <1>1, <2>7, <2>8, <2>11, <3>1
  <2> QED
    BY <2>10, <2>11
<1>5. /\ Users' = Users /\ Sessions' = Sessions
      /\ Bounded' <=> Bounded
      /\ PrefixFree' <=> PrefixFree
  BY <1>1, CountedAsBefore
<1>6. Counted'
  BY <1>1, <1>4, <1>5
     DEF Counted, CountsUsersOnce, MissesNoUser, CountsUsers, Undisturbed
<1> QED
  BY <1>1, <1>6 DEF OnceInv, Room, Copied, Sorted

LEMMA OnceKept == OnceInv /\ [Next]_vars => OnceInv'
<1> SUFFICES ASSUME OnceInv, [Next]_vars PROVE OnceInv'
  OBVIOUS
<1>0. IInv'
  BY StepKeeps DEF OnceInv
<1>1. CASE Count
  <2>1. pc = "count" /\ pc' = "count"
    BY <1>1 DEF Count
  <2> QED
    BY <1>0, <2>1 DEF OnceInv, Room, Copied, Sorted, Counted, CountsUsersOnce,
                      MissesNoUser, CountsUsers, Undisturbed
<1>2. CASE Change
  <2>1. /\ changes' = changes + 1 /\ pc' = pc /\ pc \in {"count", "copy"}
    BY <1>2 DEF Change
  <2>2. changes' # 0
    BY <2>1, NUsersAssumption DEF OnceInv, IInv, TypeOK
  <2> QED
    BY <1>0, <2>1, <2>2 DEF OnceInv, Room, Copied, Sorted, Counted, CountsUsersOnce,
                            MissesNoUser, CountsUsers, Undisturbed
<1>3. CASE UNCHANGED vars
  <2>1. /\ UNCHANGED <<utmp, heap, pc, cursor, i, n, names, nusers, changes>>
    BY <1>3 DEF vars, history
  <2>2. /\ Users' = Users /\ Sessions' = Sessions
        /\ Bounded' <=> Bounded
        /\ PrefixFree' <=> PrefixFree
    BY <2>1, CountedAsBefore
  <2>3. Room' /\ Copied'
    BY <2>1, <2>2 DEF OnceInv, Room, Copied, Text, Clean
  <2>4. Sorted'
    <3>1. InOrder(names)' <=> InOrder(names)
      BY <2>1 DEF InOrder, name_t_cmp, str_diffn
    <3>2. /\ {Text(names[k]) : k \in 1 .. n}' = {Text(names[k]) : k \in 1 .. n}
          /\ (\A k \in 1 .. n : names[k].len <= NameLen)'
                <=> (\A k \in 1 .. n : names[k].len <= NameLen)
          /\ (\A k \in 1 .. n : Clean(names[k]))' <=> (\A k \in 1 .. n : Clean(names[k]))
      BY <2>1 DEF Text, Clean
    <3> QED
      BY <2>1, <2>2, <3>1, <3>2 DEF OnceInv, Sorted
  <2>5. Counted'
    BY <2>1, <2>2 DEF OnceInv, Counted, CountsUsersOnce, MissesNoUser, CountsUsers, Undisturbed
  <2> QED
    BY <1>0, <2>3, <2>4, <2>5 DEF OnceInv
<1> QED
  BY <1>0, <1>1, <1>2, <1>3, AtMostOneOnce, AllocateOnce, CopyOnce, SortOnce, UniqueOnce
     DEF Next, Step, Returned

LEMMA OnceAlways == Spec => []OnceInv
<1>1. Init => OnceInv
  BY InitInv DEF Init, OnceInv, Room, Copied, Sorted, Counted, CountsUsersOnce,
                 MissesNoUser, CountsUsers, Undisturbed
<1> QED
  BY <1>1, OnceKept, PTL DEF Spec

\* Each user is counted once, however often and in whatever order logged in,
\* while nobody logs in or out, for names of which none is the beginning of
\* another and in zeroed memory.
THEOREM UsersCountedOnce == Spec => []CountsUsersOnce
<1>1. OnceInv => CountsUsersOnce
  BY DEF OnceInv, Counted
<1> QED
  BY <1>1, OnceAlways, PTL

\* Without one of these two conditions a user may be counted again, but none
\* is missed.
THEOREM NobodyMissed == Spec => []MissesNoUser
<1>1. OnceInv => MissesNoUser
  BY DEF OnceInv, Counted
<1> QED
  BY <1>1, OnceAlways, PTL

=============================================================================
