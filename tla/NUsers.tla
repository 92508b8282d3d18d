------------------------------- MODULE NUsers -------------------------------
(***************************************************************************)
(* Counting the users that are logged in (nusers_init, ustat_user.c): the  *)
(* user processes in utmp are counted, then read once more into an array   *)
(* of that size, sorted, and counted without repetition.  Users log in and *)
(* out at any time, between any two reads of an entry.                     *)
(***************************************************************************)
EXTENDS Integers, Sequences, FiniteSets, SequencesExt, FiniteSetsExt

CONSTANTS
    Slots,          \* number of entries in the utmp file
    Texts,          \* what may stand in an entry from ut_user up to the next
                    \* zero: sequences of positive bytes
    NameLen,        \* sizeof(u->ut_user)
    LenSize,        \* sizeof(size_t)
    Heaps,          \* what malloc may return: "zero" bytes or "dirty" ones
    MaxChanges      \* bound on the changes of the file

\* No user process.  A shorter user name ends within ut_user; one that fills
\* it has no zero behind it, and the text goes on with ut_host.
None == << >>
Entries == 1 .. Slots

ASSUME NUsersAssumption ==
    /\ Slots \in Nat
    /\ Texts \subseteq Seq(Nat \ {0}) \ {None}
    /\ NameLen \in Nat \ {0} /\ LenSize \in Nat \ {0}
    /\ Heaps \subseteq {"zero", "dirty"}
    /\ MaxChanges \in Nat

VARIABLES
    utmp,       \* entry -> the text of a USER_PROCESS, or None
    heap,       \* what malloc will return
    pc,
    cursor,     \* entries handed out by getutxent since setutxent
    i, n,       \* as in the code
    names,      \* names[0 .. n - 1], from index 1
    nusers,
    changes,    \* history: number of changes of utmp since the first read
    logins,     \* history: those that made one more user process
    logouts     \* history: those that made one less

history == <<changes, logins, logouts>>
vars == <<utmp, heap, pc, cursor, i, n, names, nusers, history>>

\* struct name_t, and its size: s lies between the elements' lengths.
NameT == [len : Nat, s : [1 .. NameLen -> Nat]]
ns == LenSize + NameLen

\* names after the text is copied into the k-th element and its length noted.
\* What is longer than s goes on through the elements behind; a length it
\* falls into is no longer zero, and name_t_cmp asks only if it is below
\* NameLen: it reads as any length d.
byte_copy(k, text, d) ==
    [e \in 1 .. n |->
        [len |-> IF e = k THEN Len(text)
                 ELSE IF e > k /\ (e - k) * ns - LenSize < Len(text) THEN d
                 ELSE names[e].len,
         s |-> [j \in 1 .. NameLen |->
                   IF (e - k) * ns + j \in 1 .. Len(text)
                   THEN text[(e - k) * ns + j]
                   ELSE names[e].s[j]]]]

\* Compares at most len bytes, and none behind a zero (djb/str_diffn.c).
str_diffn(a, b, len) ==
    LET stops == {k \in 1 .. len : a[k] # b[k] \/ a[k] = 0}
    IN IF stops = {} THEN 0 ELSE a[Min(stops)] - b[Min(stops)]

\* A slip: names of different lengths are never told apart.
Bug_name_t_cmp(a, b) ==
    IF a.len = b.len THEN str_diffn(a.s, b.s, Min({a.len, NameLen})) ELSE 0

\* Two texts that are the same as far as s goes are compared by what lies
\* behind the two elements at the time: either may come first.
name_t_cmp(a, b) == str_diffn(a.s, b.s, Min({a.len, b.len, NameLen}))

-----------------------------------------------------------------------------

Init ==
    /\ utmp \in [Entries -> Texts \cup {None}]
    /\ heap \in Heaps
    /\ pc = "count"
    /\ cursor = 0 /\ i = 0 /\ n = 0
    /\ names = << >>
    /\ nusers = -1
    /\ changes = 0 /\ logins = 0 /\ logouts = 0

\* Another process logs a user in or out: no lock is held between two reads.
Change ==
    /\ changes < MaxChanges
    /\ pc \in {"count", "copy"}
    /\ \E e \in Entries, u \in Texts \cup {None} :
          /\ u # utmp[e]
          /\ utmp' = [utmp EXCEPT ![e] = u]
          /\ logins' = IF utmp[e] = None THEN logins + 1 ELSE logins
          /\ logouts' = IF u = None THEN logouts + 1 ELSE logouts
    /\ changes' = changes + 1
    /\ UNCHANGED <<heap, pc, cursor, i, n, names, nusers>>

\* getutxent() returns the next entry.
Get ==
    /\ cursor < Slots
    /\ cursor' = cursor + 1

\* A slip: the entry read before the loop is not looked at.
Bug_Count ==
    /\ pc = "count"
    /\ Get
    /\ i' = IF cursor > 0 /\ utmp[cursor'] # None THEN i + 1 ELSE i
    /\ UNCHANGED <<utmp, heap, pc, n, names, nusers, history>>

\* The first loop.
Count ==
    /\ pc = "count"
    /\ Get
    /\ i' = IF utmp[cursor'] # None THEN i + 1 ELSE i
    /\ UNCHANGED <<utmp, heap, pc, n, names, nusers, history>>

\* "no need to sort anything"
CountedAtMostOne ==
    /\ pc = "count" /\ cursor = Slots
    /\ i <= 1
    /\ nusers' = i
    /\ pc' = "end"
    /\ UNCHANGED <<utmp, heap, cursor, i, n, names, history>>

\* What malloc returns.
Fresh == IF heap = "zero" THEN [len : {0}, s : [1 .. NameLen -> {0}]]
         ELSE [len : {0, NameLen}, s : [1 .. NameLen -> {0, 1}]]

\* A slip: an element is asked for behind the last one.
Bug_Allocate ==
    /\ pc = "count" /\ cursor = Slots
    /\ i > 1
    /\ n' = i + 1
    /\ names' \in [1 .. n' -> Fresh]
    /\ i' = 0 /\ cursor' = 0
    /\ pc' = "copy"
    /\ UNCHANGED <<utmp, heap, nusers, history>>

\* n = i, malloc, setutxent.
Allocate ==
    /\ pc = "count" /\ cursor = Slots
    /\ i > 1
    /\ n' = i
    /\ names' \in [1 .. i -> Fresh]
    /\ i' = 0 /\ cursor' = 0
    /\ pc' = "copy"
    /\ UNCHANGED <<utmp, heap, nusers, history>>

\* The k-th element and the text lie within the array.
Fits(k, text) == k <= n /\ LenSize + Len(text) <= (n - k + 1) * ns

\* A slip: an entry is left out if the one before it was of the same user.
Bug_Copy ==
    /\ pc = "copy"
    /\ Get
    /\ LET text == utmp[cursor'] IN
       \/ /\ text = None \/ (cursor > 0 /\ text = utmp[cursor])
          /\ UNCHANGED <<i, pc, names>>
       \/ /\ text # None /\ ~ (cursor > 0 /\ text = utmp[cursor])
          /\ i' = i + 1
          /\ \/ Fits(i + 1, text) /\ UNCHANGED pc
                /\ \E d \in 1 .. NameLen : names' = byte_copy(i + 1, text, d)
             \/ ~ Fits(i + 1, text) /\ pc' = "overrun" /\ UNCHANGED names
    /\ UNCHANGED <<utmp, heap, n, nusers, history>>

\* The second loop; it looks neither at n nor at the size of s.  Nothing is
\* said of a program that has written behind its array.
Copy ==
    /\ pc = "copy"
    /\ Get
    /\ LET text == utmp[cursor'] IN
       \/ text = None /\ UNCHANGED <<i, pc, names>>
       \/ /\ text # None
          /\ i' = i + 1
          /\ \/ Fits(i + 1, text) /\ UNCHANGED pc
                /\ \E d \in 1 .. NameLen : names' = byte_copy(i + 1, text, d)
             \/ ~ Fits(i + 1, text) /\ pc' = "overrun" /\ UNCHANGED names
    /\ UNCHANGED <<utmp, heap, n, nusers, history>>

\* qsort leaves a permutation in which no element is above its successor.
Sortings(t) ==
    {[k \in DOMAIN t |-> t[p[k]]] : p \in SetToSeqs(DOMAIN t)}

InOrder(t) == \A k \in 1 .. Len(t) - 1 : name_t_cmp(t[k], t[k + 1]) <= 0

Sort ==
    /\ pc = "copy" /\ cursor = Slots
    /\ \E t \in Sortings(names) : InOrder(t) /\ names' = t
    /\ pc' = "unique"
    /\ UNCHANGED <<utmp, heap, cursor, i, n, nusers, history>>

\* A slip: neighbours are compared as they were sorted.
Bug_Unique ==
    /\ pc = "unique"
    /\ nusers' = 1 + Cardinality({k \in 2 .. n : name_t_cmp(names[k - 1], names[k]) # 0})
    /\ i' = n
    /\ pc' = "end"
    /\ UNCHANGED <<utmp, heap, cursor, n, names, history>>

\* nusers = 1 and the last loop, which compares all bytes of neighbours.
Unique ==
    /\ pc = "unique"
    /\ nusers' = 1 + Cardinality({k \in 2 .. n :
                        str_diffn(names[k - 1].s, names[k].s, NameLen) # 0})
    /\ i' = n
    /\ pc' = "end"
    /\ UNCHANGED <<utmp, heap, cursor, n, names, history>>

Step == \/ Count \/ CountedAtMostOne \/ Allocate \/ Copy \/ Sort \/ Unique

Returned == pc \in {"end", "overrun"} /\ UNCHANGED vars

Next == Step \/ Change \/ Returned

Spec == Init /\ [][Next]_vars

-----------------------------------------------------------------------------
(***************************************************************************)
(* Properties.                                                             *)
(***************************************************************************)

TypeOK ==
    /\ utmp \in [Entries -> Texts \cup {None}]
    /\ heap \in Heaps
    /\ pc \in {"count", "copy", "unique", "end", "overrun"}
    /\ cursor \in 0 .. Slots
    /\ i \in 0 .. Slots /\ n \in 0 .. Slots
    /\ names \in [1 .. n -> NameT]
    /\ nusers \in -1 .. Slots
    /\ changes \in 0 .. MaxChanges
    /\ logins \in 0 .. changes /\ logouts \in 0 .. changes

\* Nothing stands behind a user name that fills ut_user: then what is read
\* of an entry is the name of its user.
Bounded == \A e \in Entries : Len(utmp[e]) <= NameLen

Users == {utmp[e] : e \in Entries} \ {None}

Sessions == {e \in Entries : utmp[e] # None}

PrefixFree == \A a, b \in Users : IsPrefix(a, b) => a = b

\* Nobody logged in or out.
Undisturbed == pc = "end" /\ changes = 0 /\ Bounded

CountsUsers == Undisturbed => nusers = Cardinality(Users)

\* While nobody logs in or out, each user is counted once, however often and
\* in whatever order logged in; provided that no user's name starts with
\* another user's name and that malloc returns zeroed memory.
CountsUsersOnce == heap = "zero" /\ PrefixFree => CountsUsers

\* Names that tie, and what used memory holds behind a copied name, may let a
\* user be counted again: each of the two alone lets no user be missed, and
\* nobody is counted more often than logged in.
MissesNoUser ==
    Undisturbed /\ (heap = "zero" \/ PrefixFree) =>
        nusers \in Cardinality(Users) .. Cardinality(Sessions)

\* The second pass writes behind the array only if someone logged in since
\* the first one began, or where it has just read a name that fills ut_user
\* with a host behind it: other changes between the passes are harmless.
OverrunNeedsLoginOrHost ==
    pc = "overrun" => logins > 0 \/ Len(utmp[cursor]) > NameLen

\* Elements that the second pass left as malloc returned them are sorted and
\* counted only if someone logged out since the first one began.
GarbageNeedsLogout == pc = "unique" /\ i < n => logouts > 0

\* The comment of ustat_user.c:59-62, the entries "have to be sorted and made
\* unique in order to get a correct answer": sorting makes them unique, for
\* all names.
SortedAndUnique == heap = "zero" => CountsUsers

=============================================================================
