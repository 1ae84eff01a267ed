--------------------------- MODULE CueOrder_proofs ---------------------------
(***************************************************************************)
(* Proofs about CueOrder: that a list in which every row follows the row   *)
(* before it (Orderly) stays one under every edit, and what follows from   *)
(* that for groups, the selection and the playhead.                        *)
(***************************************************************************)
EXTENDS CueOrder, SequenceTheorems, FiniteSetTheorems, WellFoundedInduction, TLAPS

\* Row d may come after row c: at top level, as c's sibling or as its member.
Follows(c, d) ==
    \/ d.parent = NoCue
    \/ d.parent = c.parent
    \/ IsGroup(c) /\ d.parent = c.q

\* A group is at top level and has a trigger that groups are given.
Placed(cue) ==
    IsGroup(cue) => cue.parent = NoCue /\ cue.trigger \in GroupTriggers \union {"Go"}

\* The rows have numbers of their own, and every group is placed.
Proper(list) ==
    /\ list \in Seq(Cue)
    /\ \A i, k \in Rows(list) : list[i].q = list[k].q => i = k
    /\ \A i \in Rows(list) : Placed(list[i])

\* A list a show file may hold and every edit keeps: each row follows the one
\* before it, the first is at top level.
Orderly(list) ==
    /\ Proper(list)
    /\ list # <<>> => list[1].parent = NoCue
    /\ \A i \in 2 .. Len(list) : Follows(list[i - 1], list[i])

-----------------------------------------------------------------------------
(* Numbers *)

\* A set of numbers has a least element.
LEMMA LeastExists ==
  ASSUME NEW S, S # {}, S \subseteq Nat
  PROVE  \E n \in S : \A m \in S : n <= m
<1> DEFINE T == {1 .. n : n \in S}
           R == StrictSubsetOrdering(Nat)
<1>1. T \subseteq FiniteSubsetsOf(Nat) /\ T # {}
  <2>1. \A n \in S : IsFiniteSet(1 .. n) /\ 1 .. n \subseteq Nat
    BY FS_Interval
  <2> QED
    BY <2>1 DEF FiniteSubsetsOf
<1>2. PICK x \in T : \A y \in T : <<y, x>> \notin R
  <2>1. IsWellFoundedOn(R, FiniteSubsetsOf(Nat))
    BY FS_StrictSubsetOrderingWellFounded
  <2> HIDE DEF T, R
  <2> QED
    BY <1>1, <2>1, WFMin
<1>3. PICK n \in S : x = 1 .. n
  OBVIOUS
<1>4. ASSUME NEW m \in S PROVE n <= m
  <2> SUFFICES ASSUME m < n PROVE FALSE
    OBVIOUS
  <2> DEFINE y == 1 .. m
  <2>1. y \in SUBSET Nat /\ x \in SUBSET Nat /\ y \subseteq x /\ y # x
    <3>1. n \in x /\ n \notin y
      BY <1>3
    <3>2. y \subseteq x /\ x \subseteq Nat
      BY <1>3
    <3> QED
      BY <3>1, <3>2
  <2>2. <<y, x>> \in R
    <3> HIDE DEF y
    <3> QED
      BY <2>1 DEF StrictSubsetOrdering
  <2> QED
    BY <1>2, <2>2
<1> QED
  BY <1>4

\* MaxOf gives the greatest of a bounded set of numbers.
LEMMA MaxOfIsGreatest ==
  ASSUME NEW n \in Nat, NEW S, S # {}, S \subseteq 0 .. n
  PROVE  MaxOf(S) \in S /\ \A m \in S : m <= MaxOf(S)
<1> DEFINE T == {n - m : m \in S}
<1>1. T # {} /\ T \subseteq Nat
  OBVIOUS
<1>2. PICK t \in T : \A u \in T : t <= u
  <2> HIDE DEF T
  <2> QED
    BY <1>1, LeastExists
<1>3. n - t \in S /\ \A m \in S : m <= n - t
  <2>1. \A m \in S : m \in 0 .. n /\ t <= n - m
    BY <1>2
  <2> QED
    BY <1>2, <2>1
<1> QED
  BY <1>3 DEF MaxOf

\* ... which is the one that no greater element has.
LEMMA MaxOfIs ==
  ASSUME NEW n \in Nat, NEW S, S \subseteq 0 .. n, NEW e \in S, \A m \in S : m <= e
  PROVE  MaxOf(S) = e
<1>1. S # {}
  OBVIOUS
<1>2. MaxOf(S) \in S /\ e <= MaxOf(S) /\ MaxOf(S) <= e
  BY <1>1, MaxOfIsGreatest
<1>3. MaxOf(S) \in 0 .. n /\ e \in 0 .. n
  BY <1>2
<1> QED
  BY <1>2, <1>3

-----------------------------------------------------------------------------
(* Blocks of rows *)

\* The block of a group: its header and the rows that name it, up to one that
\* does not.
LEMMA SpanOfGroup ==
  ASSUME NEW list \in Seq(Cue), NEW i \in Rows(list), IsGroup(list[i])
  PROVE  \E e \in i .. Len(list) :
            /\ Span(list, i) = <<i, e>>
            /\ \A k \in i + 1 .. e : list[k].parent = list[i].q
            /\ e < Len(list) => list[e + 1].parent # list[i].q
<1> DEFINE S == {j \in i .. Len(list) : \A k \in i + 1 .. j : list[k].parent = list[i].q}
           e == MaxOf(S)
<1>1. Len(list) \in Nat /\ i \in 1 .. Len(list)
  BY LenProperties DEF Rows
<1>2. i \in S /\ S \subseteq 0 .. Len(list)
  BY <1>1
<1>3. e \in S /\ \A m \in S : m <= e
  <2> HIDE DEF S
  <2> QED
    BY <1>1, <1>2, MaxOfIsGreatest
<1>4. ASSUME e < Len(list), list[e + 1].parent = list[i].q PROVE FALSE
  <2>1. e \in i .. Len(list) /\ \A k \in i + 1 .. e : list[k].parent = list[i].q
    BY <1>3
  <2> HIDE DEF e
  <2>2. e + 1 \in S
    BY <1>1, <1>4, <2>1
  <2> HIDE DEF S
  <2>3. e + 1 <= e
    BY <1>3, <2>2
  <2> QED
    BY <1>1, <2>1, <2>3
<1>5. Span(list, i) = <<i, e>>
  BY DEF Span
<1> QED
  BY <1>3, <1>4, <1>5

\* ... and no other end of the block is one.
LEMMA SpanIs ==
  ASSUME NEW list \in Seq(Cue), NEW i \in Rows(list), IsGroup(list[i]),
         NEW e \in i .. Len(list),
         \A k \in i + 1 .. e : list[k].parent = list[i].q,
         e < Len(list) => list[e + 1].parent # list[i].q
  PROVE  Span(list, i) = <<i, e>>
<1> DEFINE S == {j \in i .. Len(list) : \A k \in i + 1 .. j : list[k].parent = list[i].q}
<1>1. Len(list) \in Nat /\ i \in 1 .. Len(list)
  BY LenProperties DEF Rows
<1>2. e \in S /\ S \subseteq 0 .. Len(list)
  BY <1>1
<1>3. \A m \in S : m <= e
  <2> SUFFICES ASSUME NEW m \in S, e < m PROVE FALSE
    BY <1>1
  <2>1. e + 1 \in i + 1 .. m /\ e < Len(list)
    BY <1>1
  <2> QED
    BY <2>1
<1>4. MaxOf(S) = e
  <2> HIDE DEF S
  <2> QED
    BY <1>1, <1>2, <1>3, MaxOfIs
<1> QED
  BY <1>4 DEF Span

\* A member comes in a run of members of its group, right after the header.
LEMMA Headed ==
  ASSUME NEW list, Orderly(list), NEW k \in Rows(list), list[k].parent # NoCue
  PROVE  \E h \in 1 .. k - 1 :
            /\ IsGroup(list[h]) /\ list[h].q = list[k].parent
            /\ \A m \in h + 1 .. k : list[m].parent = list[k].parent
<1> DEFINE S == {m \in 1 .. k : \A x \in m .. k : list[x].parent = list[k].parent}
<1>1. Len(list) \in Nat /\ k \in 1 .. Len(list)
  BY LenProperties DEF Orderly, Proper, Rows
<1>2. k \in S /\ S \subseteq Nat
  BY <1>1
<1>3. PICK m \in S : \A x \in S : m <= x
  <2> HIDE DEF S
  <2> QED
    BY <1>2, LeastExists
<1>4. m # 1
  <2>1. list # <<>>
    BY <1>1
  <2>2. list[1].parent = NoCue
    BY <2>1 DEF Orderly
  <2> QED
    BY <2>2, <1>1
<1>5. m - 1 \in 1 .. k - 1 /\ m \in 2 .. Len(list)
  BY <1>1, <1>3, <1>4
<1>6. list[m - 1].parent # list[k].parent
  <2> SUFFICES ASSUME list[m - 1].parent = list[k].parent PROVE m - 1 \in S
    BY <1>1, <1>3, <1>5
  <2> QED
    BY <1>1, <1>5
<1>7. list[m].parent = list[k].parent
  BY <1>1
<1>8. Follows(list[m - 1], list[m])
  BY <1>5 DEF Orderly
<1>9. IsGroup(list[m - 1]) /\ list[m - 1].q = list[k].parent
  BY <1>6, <1>7, <1>8 DEF Follows
<1>10. \A x \in (m - 1) + 1 .. k : list[x].parent = list[k].parent
  BY <1>1, <1>5
<1> QED
  BY <1>5, <1>9, <1>10

\* The block of any row: after one at top level the next is at top level too.
LEMMA Blocks ==
  ASSUME NEW list, Orderly(list), NEW i \in Rows(list)
  PROVE  \E e \in i .. Len(list) :
            /\ Span(list, i) = <<i, e>>
            /\ ~IsGroup(list[i]) => e = i
            /\ \A k \in i + 1 .. e : list[k].parent = list[i].q
            /\ e < Len(list) /\ list[i].parent = NoCue => list[e + 1].parent = NoCue
            /\ IsGroup(list[i]) /\ e < Len(list) => list[e + 1].parent # list[i].q
<1>1. list \in Seq(Cue) /\ Len(list) \in Nat /\ i \in 1 .. Len(list)
  BY LenProperties DEF Orderly, Proper, Rows
<1>2. CASE ~IsGroup(list[i])
  <2>1. Span(list, i) = <<i, i>> /\ i \in i .. Len(list)
    BY <1>1, <1>2 DEF Span
  <2>2. i < Len(list) /\ list[i].parent = NoCue => list[i + 1].parent = NoCue
    <3> SUFFICES ASSUME i < Len(list), list[i].parent = NoCue PROVE list[i + 1].parent = NoCue
      OBVIOUS
    <3>1. i + 1 \in 2 .. Len(list) /\ (i + 1) - 1 = i
      BY <1>1
    <3>2. Follows(list[i], list[i + 1])
      BY <3>1 DEF Orderly
    <3> QED
      BY <1>2, <3>2 DEF Follows
  <2> QED
    BY <1>1, <1>2, <2>1, <2>2
<1>3. CASE IsGroup(list[i])
  <2>1. PICK e \in i .. Len(list) :
            /\ Span(list, i) = <<i, e>>
            /\ \A k \in i + 1 .. e : list[k].parent = list[i].q
            /\ e < Len(list) => list[e + 1].parent # list[i].q
    BY <1>1, <1>3, SpanOfGroup
  <2>2. ASSUME e < Len(list) PROVE list[e + 1].parent = NoCue
    <3>1. e + 1 \in 2 .. Len(list) /\ (e + 1) - 1 = e /\ e \in Rows(list)
      BY <1>1, <2>2 DEF Rows
    <3>2. Follows(list[e], list[e + 1])
      BY <3>1 DEF Orderly
    <3>3. list[i].parent = NoCue /\ list[i].q # NoCue
      <4>1. list[i] \in Cue
        BY <1>1
      <4> QED
        BY <1>1, <1>3, <4>1, OrderAssumption DEF Orderly, Proper, Placed, Cue, Rows
    <3>4. CASE e = i
      BY <2>1, <2>2, <3>2, <3>3, <3>4 DEF Follows
    <3>5. CASE e # i
      <4>1. list[e].parent = list[i].q
        BY <1>1, <2>1, <3>5
      <4>2. ~IsGroup(list[e])
        BY <3>1, <3>3, <4>1 DEF Orderly, Proper, Placed
      <4> QED
        BY <2>1, <2>2, <3>2, <4>1, <4>2 DEF Follows
    <3> QED
      BY <3>4, <3>5
  <2> QED
    BY <1>3, <2>1, <2>2
<1> QED
  BY <1>2, <1>3

\* Every member of a group is in its block.
LEMMA MemberInBlock ==
  ASSUME NEW list, Orderly(list), NEW i \in Rows(list), IsGroup(list[i]),
         NEW k \in Rows(list), list[k].parent = list[i].q
  PROVE  k \in i + 1 .. Span(list, i)[2]
<1>1. list \in Seq(Cue) /\ Len(list) \in Nat /\ i \in 1 .. Len(list) /\ k \in 1 .. Len(list)
  BY LenProperties DEF Orderly, Proper, Rows
<1>2. list[k].parent # NoCue
  <2>1. list[i] \in Cue
    BY <1>1
  <2> QED
    BY <2>1, OrderAssumption DEF Cue
<1>3. PICK h \in 1 .. k - 1 :
            /\ IsGroup(list[h]) /\ list[h].q = list[k].parent
            /\ \A m \in h + 1 .. k : list[m].parent = list[k].parent
  BY <1>2, Headed
<1>4. h = i
  <2>1. h \in Rows(list)
    BY <1>1 DEF Rows
  <2> QED
    BY <1>3, <2>1 DEF Orderly, Proper
<1>5. PICK e \in i .. Len(list) :
            /\ Span(list, i) = <<i, e>>
            /\ e < Len(list) => list[e + 1].parent # list[i].q
  BY <1>1, SpanOfGroup
<1>6. k <= e
  <2> SUFFICES ASSUME e < k PROVE FALSE
    BY <1>1
  <2>1. e < Len(list) /\ e + 1 \in h + 1 .. k
    BY <1>1, <1>4
  <2> QED
    BY <1>3, <1>5, <2>1
<1> QED
  BY <1>1, <1>3, <1>4, <1>5, <1>6

\* The block of the top-level row that a row belongs to.
LEMMA Enclosings ==
  ASSUME NEW list, Orderly(list), NEW i \in Rows(list)
  PROVE  \E h \in 1 .. i, e \in i .. Len(list) :
            /\ EnclosingSpan(list, i) = <<h, e>> /\ Span(list, h) = <<h, e>>
            /\ list[h].parent = NoCue
            /\ e < Len(list) => list[e + 1].parent = NoCue
            /\ \A k \in h + 1 .. e : list[k].parent = list[h].q
            /\ list[i].parent = NoCue => h = i
            /\ list[i].parent # NoCue => IsGroup(list[h]) /\ list[h].q = list[i].parent
            /\ ~IsGroup(list[h]) => e = h
<1>1. list \in Seq(Cue) /\ Len(list) \in Nat /\ i \in 1 .. Len(list)
  BY LenProperties DEF Orderly, Proper, Rows
<1>2. CASE list[i].parent = NoCue
  <2>1. EnclosingSpan(list, i) = Span(list, i)
    BY <1>2 DEF EnclosingSpan
  <2>2. PICK e \in i .. Len(list) :
            /\ Span(list, i) = <<i, e>>
            /\ ~IsGroup(list[i]) => e = i
            /\ \A k \in i + 1 .. e : list[k].parent = list[i].q
            /\ e < Len(list) /\ list[i].parent = NoCue => list[e + 1].parent = NoCue
    BY Blocks
  <2> QED
    BY <1>1, <1>2, <2>1, <2>2
<1>3. CASE list[i].parent # NoCue
  <2> DEFINE headers == {h \in 1 .. i - 1 : IsGroup(list[h]) /\ list[h].q = list[i].parent}
  <2>1. PICK h \in 1 .. i - 1 :
            /\ IsGroup(list[h]) /\ list[h].q = list[i].parent
            /\ \A m \in h + 1 .. i : list[m].parent = list[i].parent
    BY <1>3, Headed
  <2>2. h \in Rows(list)
    BY <1>1 DEF Rows
  <2>3. headers = {h}
    <3>1. \A x \in headers : x \in Rows(list) /\ list[x].q = list[h].q
      BY <1>1, <2>1 DEF Rows
    <3> QED
      BY <2>1, <2>2, <3>1 DEF Orderly, Proper
  <2>4. MaxOf(headers) = h
    <3>1. headers \subseteq 0 .. Len(list) /\ h \in headers /\ \A m \in headers : m <= h
      BY <1>1, <2>1, <2>3
    <3> HIDE DEF headers
    <3> QED
      BY <1>1, <3>1, MaxOfIs
  <2>5. i \in h + 1 .. Span(list, h)[2]
    BY <2>1, <2>2, MemberInBlock
  <2>6. EnclosingSpan(list, i) = Span(list, h)
    <3>1. headers # {} /\ i <= Span(list, MaxOf(headers))[2]
      <4>1. i <= Span(list, h)[2]
        <5>1. PICK e \in h .. Len(list) : Span(list, h) = <<h, e>>
          BY <2>2, Blocks
        <5> QED
          BY <1>1, <2>5, <5>1
      <4> QED
        BY <2>3, <2>4, <4>1
    <3> HIDE DEF headers
    <3>2. EnclosingSpan(list, i) = Span(list, MaxOf(headers))
      BY <1>3, <3>1 DEF EnclosingSpan, headers
    <3> QED
      BY <2>4, <3>2
  <2>7. list[h].parent = NoCue
    BY <2>1, <2>2 DEF Orderly, Proper, Placed
  <2>8. PICK e \in h .. Len(list) :
            /\ Span(list, h) = <<h, e>>
            /\ ~IsGroup(list[h]) => e = h
            /\ \A k \in h + 1 .. e : list[k].parent = list[h].q
            /\ e < Len(list) /\ list[h].parent = NoCue => list[e + 1].parent = NoCue
    BY <2>2, Blocks
  <2>9. h \in 1 .. i /\ e \in i .. Len(list)
    BY <1>1, <2>5, <2>8
  <2> QED
    BY <1>3, <2>1, <2>6, <2>7, <2>8, <2>9
<1> QED
  BY <1>2, <1>3

\* The rows of an orderly list are in the block of their group, and only they.
LEMMA OrderlyContiguous ==
  ASSUME Orderly(cues)
  PROVE  GroupsContiguous
<1> SUFFICES ASSUME NEW i \in Rows(cues), NEW k \in Rows(cues)
             PROVE  (IsGroup(cues[i]) /\ cues[k].parent = cues[i].q) <=>
                      (k # i /\ k \in Span(cues, i)[1]..Span(cues, i)[2])
  BY DEF GroupsContiguous
<1>1. PICK e \in i .. Len(cues) :
            /\ Span(cues, i) = <<i, e>>
            /\ ~IsGroup(cues[i]) => e = i
            /\ \A m \in i + 1 .. e : cues[m].parent = cues[i].q
  BY Blocks
<1>2. i \in Nat /\ k \in Nat /\ e \in Nat
  BY LenProperties DEF Orderly, Proper, Rows
<1>3. IsGroup(cues[i]) /\ cues[k].parent = cues[i].q => k \in i + 1 .. e
  BY <1>1, MemberInBlock
<1> QED
  BY <1>1, <1>2, <1>3

\* Every member of an orderly list has its group.
LEMMA OrderlyMembers ==
  ASSUME Orderly(cues)
  PROVE  MembersHaveGroup
<1> SUFFICES ASSUME NEW k \in Rows(cues), cues[k].parent # NoCue
             PROVE  \E i \in Rows(cues) : IsGroup(cues[i]) /\ cues[i].q = cues[k].parent
  BY DEF MembersHaveGroup
<1>1. PICK h \in 1 .. k - 1 : IsGroup(cues[h]) /\ cues[h].q = cues[k].parent
  BY Headed
<1>2. h \in Rows(cues)
  BY LenProperties DEF Orderly, Proper, Rows
<1> QED
  BY <1>1, <1>2

-----------------------------------------------------------------------------
(* Lists that are taken apart and put together                             *)

\* What RemoveSpan leaves.
LEMMA RemovedRows ==
  ASSUME NEW list \in Seq(Cue), NEW f \in 1 .. Len(list), NEW l \in f .. Len(list)
  PROVE  /\ RemoveSpan(list, <<f, l>>) \in Seq(Cue)
         /\ Len(RemoveSpan(list, <<f, l>>)) = Len(list) - (l - f + 1)
         /\ \A j \in 1 .. Len(list) - (l - f + 1) :
               RemoveSpan(list, <<f, l>>)[j] =
                  IF j < f THEN list[j] ELSE list[j + (l - f + 1)]
<1> DEFINE A == SubSeq(list, 1, f - 1)
           D == SubSeq(list, l + 1, Len(list))
<1>1. Len(list) \in Nat /\ \A j \in 1 .. Len(list) : list[j] \in Cue
  BY LenProperties
<1>2. /\ A \in Seq(Cue) /\ Len(A) = f - 1
      /\ \A j \in 1 .. f - 1 : A[j] = list[j]
  <2>1. \A j \in 1 .. f - 1 : list[j] \in Cue
    BY <1>1
  <2>2. /\ A \in Seq(Cue) /\ Len(A) = IF 1 <= f - 1 THEN (f - 1) - 1 + 1 ELSE 0
        /\ \A j \in 1 .. (f - 1) - 1 + 1 : A[j] = list[1 + j - 1]
    BY <1>1, <2>1, SubSeqProperties
  <2> HIDE DEF A
  <2> QED
    BY <1>1, <2>2
<1>3. /\ D \in Seq(Cue) /\ Len(D) = Len(list) - l
      /\ \A j \in 1 .. Len(list) - l : D[j] = list[l + j]
  <2>1. \A j \in l + 1 .. Len(list) : list[j] \in Cue
    BY <1>1
  <2>2. /\ D \in Seq(Cue)
        /\ Len(D) = IF l + 1 <= Len(list) THEN Len(list) - (l + 1) + 1 ELSE 0
        /\ \A j \in 1 .. Len(list) - (l + 1) + 1 : D[j] = list[(l + 1) + j - 1]
    BY <1>1, <2>1, SubSeqProperties
  <2> HIDE DEF D
  <2> QED
    BY <1>1, <2>2
<1> HIDE DEF A, D
<1>4. /\ A \o D \in Seq(Cue) /\ Len(A \o D) = Len(A) + Len(D)
      /\ \A j \in 1 .. Len(A) + Len(D) :
            (A \o D)[j] = IF j <= Len(A) THEN A[j] ELSE D[j - Len(A)]
  BY <1>2, <1>3, ConcatProperties
<1>5. RemoveSpan(list, <<f, l>>) = A \o D
  BY DEF RemoveSpan, A, D
<1> DEFINE rest == A \o D
<1>6. ASSUME NEW j \in 1 .. Len(list) - (l - f + 1)
      PROVE  rest[j] = IF j < f THEN list[j] ELSE list[j + (l - f + 1)]
  <2>1. CASE j < f
    BY <1>1, <1>2, <1>3, <1>4, <2>1
  <2>2. CASE ~(j < f)
    <3>1. j - (f - 1) \in 1 .. Len(list) - l /\ l + (j - (f - 1)) = j + (l - f + 1)
      BY <1>1, <2>2
    <3>2. D[j - (f - 1)] = list[j + (l - f + 1)]
      BY <1>3, <3>1
    <3> QED
      BY <1>1, <1>2, <1>3, <1>4, <2>2, <3>2
  <2> QED
    BY <2>1, <2>2
<1>7. rest \in Seq(Cue) /\ Len(rest) = Len(list) - (l - f + 1)
  <2>1. Len(rest) = (f - 1) + (Len(list) - l)
    BY <1>2, <1>3, <1>4
  <2> QED
    BY <1>1, <1>4, <2>1
<1> HIDE DEF rest
<1> QED
  BY <1>5, <1>6, <1>7 DEF rest

\* What InsertAt makes.
LEMMA InsertedRows ==
  ASSUME NEW list \in Seq(Cue), NEW at \in 1 .. Len(list) + 1, NEW block \in Seq(Cue)
  PROVE  /\ InsertAt(list, at, block) \in Seq(Cue)
         /\ Len(InsertAt(list, at, block)) = Len(list) + Len(block)
         /\ \A j \in 1 .. Len(list) + Len(block) :
               InsertAt(list, at, block)[j] =
                  IF j < at THEN list[j]
                  ELSE IF j < at + Len(block) THEN block[j - at + 1]
                  ELSE list[j - Len(block)]
<1> DEFINE A == SubSeq(list, 1, at - 1)
           D == SubSeq(list, at, Len(list))
<1>1. Len(list) \in Nat /\ Len(block) \in Nat /\ \A j \in 1 .. Len(list) : list[j] \in Cue
  BY LenProperties
<1>2. /\ A \in Seq(Cue) /\ Len(A) = at - 1
      /\ \A j \in 1 .. at - 1 : A[j] = list[j]
  <2>1. \A j \in 1 .. at - 1 : list[j] \in Cue
    BY <1>1
  <2>2. /\ A \in Seq(Cue) /\ Len(A) = IF 1 <= at - 1 THEN (at - 1) - 1 + 1 ELSE 0
        /\ \A j \in 1 .. (at - 1) - 1 + 1 : A[j] = list[1 + j - 1]
    BY <1>1, <2>1, SubSeqProperties
  <2> HIDE DEF A
  <2> QED
    BY <1>1, <2>2
<1>3. /\ D \in Seq(Cue) /\ Len(D) = Len(list) - at + 1
      /\ \A j \in 1 .. Len(list) - at + 1 : D[j] = list[at + j - 1]
  <2>1. \A j \in at .. Len(list) : list[j] \in Cue
    BY <1>1
  <2>2. /\ D \in Seq(Cue)
        /\ Len(D) = IF at <= Len(list) THEN Len(list) - at + 1 ELSE 0
        /\ \A j \in 1 .. Len(list) - at + 1 : D[j] = list[at + j - 1]
    BY <1>1, <2>1, SubSeqProperties
  <2> HIDE DEF D
  <2> QED
    BY <1>1, <2>2
<1> HIDE DEF A, D
<1> DEFINE B == A \o block
<1>4. /\ B \in Seq(Cue) /\ Len(B) = at - 1 + Len(block)
      /\ \A j \in 1 .. at - 1 + Len(block) :
            B[j] = IF j < at THEN list[j] ELSE block[j - at + 1]
  <2>1. /\ B \in Seq(Cue) /\ Len(B) = Len(A) + Len(block)
        /\ \A j \in 1 .. Len(A) + Len(block) :
              B[j] = IF j <= Len(A) THEN A[j] ELSE block[j - Len(A)]
    BY <1>2, ConcatProperties
  <2> HIDE DEF B
  <2>2. \A j \in 1 .. at - 1 + Len(block) : j <= at - 1 <=> j < at
    BY <1>1
  <2>3. \A j \in 1 .. at - 1 + Len(block) : j - (at - 1) = j - at + 1
    BY <1>1
  <2> QED
    BY <1>1, <1>2, <2>1, <2>2, <2>3
<1> HIDE DEF B
<1> DEFINE whole == B \o D
<1>5. /\ whole \in Seq(Cue) /\ Len(whole) = Len(B) + Len(D)
      /\ \A j \in 1 .. Len(B) + Len(D) :
            whole[j] = IF j <= Len(B) THEN B[j] ELSE D[j - Len(B)]
  <2>1. B \in Seq(Cue) /\ D \in Seq(Cue)
    BY <1>3, <1>4
  <2> QED
    BY <2>1, ConcatProperties
<1>6. InsertAt(list, at, block) = whole
  BY DEF InsertAt, A, B, D
<1> HIDE DEF whole
<1>7. ASSUME NEW j \in 1 .. Len(list) + Len(block)
      PROVE  whole[j] = IF j < at THEN list[j]
                        ELSE IF j < at + Len(block) THEN block[j - at + 1]
                        ELSE list[j - Len(block)]
  <2> USE <1>1
  <2>0. whole[j] = IF j <= Len(B) THEN B[j] ELSE D[j - Len(B)]
    BY <1>3, <1>4, <1>5
  <2>1. CASE j < at + Len(block)
    <3>1. j \in 1 .. at - 1 + Len(block)
      BY <2>1
    <3>2. B[j] = IF j < at THEN list[j] ELSE block[j - at + 1]
      BY <1>4, <3>1
    <3>3. j <= Len(B)
      BY <1>4, <3>1
    <3> QED
      BY <2>0, <2>1, <3>2, <3>3
  <2>2. CASE ~(j < at + Len(block))
    <3> DEFINE m == j - (at - 1 + Len(block))
    <3>1. m \in 1 .. Len(list) - at + 1 /\ at + m - 1 = j - Len(block)
      BY <1>1, <2>2
    <3>2. D[m] = list[j - Len(block)]
      BY <1>3, <3>1
    <3>3. ~(j <= Len(B)) /\ j - Len(B) = m
      BY <1>4, <2>2
    <3>4. ~(j < at)
      BY <2>2
    <3> HIDE DEF m
    <3> QED
      BY <2>0, <2>2, <3>2, <3>3, <3>4
  <2> QED
    BY <2>1, <2>2
<1> QED
  BY <1>1, <1>3, <1>4, <1>5, <1>6, <1>7

\* The list with the rows a .. b - 1 and b .. c - 1 in each other's place.
Place(a, b, c, j) ==
    IF j < a THEN j
    ELSE IF j < a + (c - b) THEN j + (b - a)
    ELSE IF j < c THEN j - (c - b)
    ELSE j

Swapped(list, a, b, c) == [j \in 1 .. Len(list) |-> list[Place(a, b, c, j)]]

\* A block that is moved down changes places with the rows it passes ...
LEMMA MovedDown ==
  ASSUME NEW list \in Seq(Cue), NEW a \in 1 .. Len(list), NEW b \in a + 1 .. Len(list),
         NEW c \in b + 1 .. Len(list) + 1
  PROVE  MoveSpan(list, <<a, b - 1>>, c) = Swapped(list, a, b, c)
<1> DEFINE n == Len(list)
           size == b - a
           rest == RemoveSpan(list, <<a, b - 1>>)
           block == SubSeq(list, a, b - 1)
           whole == InsertAt(rest, c - size, block)
<1>1. n \in Nat /\ \A j \in 1 .. n : list[j] \in Cue
  BY LenProperties
<1>2. b - 1 \in a .. n /\ (b - 1) - a + 1 = size
  BY <1>1
<1>3. /\ rest \in Seq(Cue)
      /\ Len(rest) = n - size
      /\ \A j \in 1 .. n - size : rest[j] = IF j < a THEN list[j] ELSE list[j + size]
  <2>1. /\ rest \in Seq(Cue)
        /\ Len(rest) = n - ((b - 1) - a + 1)
        /\ \A j \in 1 .. n - ((b - 1) - a + 1) :
              rest[j] = IF j < a THEN list[j] ELSE list[j + ((b - 1) - a + 1)]
    BY <1>2, RemovedRows
  <2> HIDE DEF rest, size
  <2> QED
    BY <1>2, <2>1
<1>4. block \in Seq(Cue) /\ Len(block) = size /\ \A j \in 1 .. size : block[j] = list[a + j - 1]
  <2>1. \A j \in a .. b - 1 : list[j] \in Cue
    BY <1>1
  <2>2. /\ block \in Seq(Cue) /\ Len(block) = IF a <= b - 1 THEN (b - 1) - a + 1 ELSE 0
        /\ \A j \in 1 .. (b - 1) - a + 1 : block[j] = list[a + j - 1]
    BY <1>1, <2>1, SubSeqProperties
  <2> HIDE DEF block
  <2> QED
    BY <1>1, <1>2, <2>2
<1>5. MoveSpan(list, <<a, b - 1>>, c) = whole
  <2>1. ~(c \in a .. (b - 1) + 1) /\ c > b - 1
    BY <1>1
  <2> QED
    BY <1>2, <2>1 DEF MoveSpan
<1> HIDE DEF rest, block
<1>6. c - size \in 1 .. Len(rest) + 1
  BY <1>1, <1>3
<1>7. /\ whole \in Seq(Cue)
      /\ Len(whole) = Len(rest) + Len(block)
      /\ \A j \in 1 .. Len(rest) + Len(block) :
            whole[j] = IF j < c - size THEN rest[j]
                       ELSE IF j < (c - size) + Len(block) THEN block[j - (c - size) + 1]
                       ELSE rest[j - Len(block)]
  BY <1>3, <1>4, <1>6, InsertedRows
<1> HIDE DEF whole
<1>8. ASSUME NEW j \in 1 .. n PROVE whole[j] = list[Place(a, b, c, j)]
  <2>1. whole[j] = IF j < c - size THEN rest[j]
                   ELSE IF j < c THEN block[j - (c - size) + 1] ELSE rest[j - size]
    BY <1>1, <1>3, <1>4, <1>7
  <2>2. CASE j < a
    <3>1. j \in 1 .. n - size /\ j < c - size
      BY <1>1, <2>2
    <3> QED
      BY <1>3, <2>1, <2>2, <3>1 DEF Place
  <2>3. CASE j >= a /\ j < c - size
    <3>1. j \in 1 .. n - size /\ ~(j < a) /\ j < a + (c - b)
      BY <1>1, <2>3
    <3> QED
      BY <1>3, <2>1, <2>3, <3>1 DEF Place
  <2>4. CASE j >= c - size /\ j < c
    <3>1. /\ j - (c - size) + 1 \in 1 .. size /\ ~(j < a) /\ ~(j < a + (c - b))
          /\ a + (j - (c - size) + 1) - 1 = j - (c - b) /\ ~(j < c - size)
      BY <1>1, <2>4
    <3>2. block[j - (c - size) + 1] = list[j - (c - b)]
      BY <1>4, <3>1
    <3> QED
      BY <2>1, <2>4, <3>1, <3>2 DEF Place
  <2>5. CASE j >= c
    <3>1. /\ j - size \in 1 .. n - size /\ ~(j - size < a) /\ (j - size) + size = j
          /\ ~(j < a) /\ ~(j < a + (c - b)) /\ ~(j < c) /\ ~(j < c - size)
      BY <1>1, <2>5
    <3> QED
      BY <1>3, <2>1, <3>1 DEF Place
  <2> QED
    BY <1>1, <2>2, <2>3, <2>4, <2>5
<1>9. Len(whole) = n /\ whole = [j \in 1 .. n |-> whole[j]]
  <2>1. Len(whole) = n /\ whole \in Seq(Cue)
    BY <1>1, <1>3, <1>4, <1>7
  <2>2. whole \in [1 .. n -> Cue]
    BY <2>1, LenProperties
  <2> QED
    BY <2>1, <2>2
<1> QED
  BY <1>5, <1>8, <1>9 DEF Swapped

\* ... and so does one that is moved up.
LEMMA MovedUp ==
  ASSUME NEW list \in Seq(Cue), NEW a \in 1 .. Len(list), NEW b \in a + 1 .. Len(list),
         NEW c \in b + 1 .. Len(list) + 1
  PROVE  MoveSpan(list, <<b, c - 1>>, a) = Swapped(list, a, b, c)
<1> DEFINE n == Len(list)
           size == c - b
           rest == RemoveSpan(list, <<b, c - 1>>)
           block == SubSeq(list, b, c - 1)
           whole == InsertAt(rest, a, block)
<1>1. n \in Nat /\ \A j \in 1 .. n : list[j] \in Cue
  BY LenProperties
<1>2. b \in 1 .. n /\ c - 1 \in b .. n /\ (c - 1) - b + 1 = size
  BY <1>1
<1>3. /\ rest \in Seq(Cue)
      /\ Len(rest) = n - size
      /\ \A j \in 1 .. n - size : rest[j] = IF j < b THEN list[j] ELSE list[j + size]
  <2>1. /\ rest \in Seq(Cue)
        /\ Len(rest) = n - ((c - 1) - b + 1)
        /\ \A j \in 1 .. n - ((c - 1) - b + 1) :
              rest[j] = IF j < b THEN list[j] ELSE list[j + ((c - 1) - b + 1)]
    BY <1>2, RemovedRows
  <2> HIDE DEF rest, size
  <2> QED
    BY <1>2, <2>1
<1>4. block \in Seq(Cue) /\ Len(block) = size /\ \A j \in 1 .. size : block[j] = list[b + j - 1]
  <2>1. \A j \in b .. c - 1 : list[j] \in Cue
    BY <1>1
  <2>2. /\ block \in Seq(Cue) /\ Len(block) = IF b <= c - 1 THEN (c - 1) - b + 1 ELSE 0
        /\ \A j \in 1 .. (c - 1) - b + 1 : block[j] = list[b + j - 1]
    BY <1>1, <2>1, SubSeqProperties
  <2> HIDE DEF block
  <2> QED
    BY <1>1, <1>2, <2>2
<1>5. MoveSpan(list, <<b, c - 1>>, a) = whole
  <2>1. ~(a \in b .. (c - 1) + 1) /\ ~(a > c - 1)
    BY <1>1
  <2> QED
    BY <1>2, <2>1 DEF MoveSpan
<1> HIDE DEF rest, block
<1>6. a \in 1 .. Len(rest) + 1
  BY <1>1, <1>3
<1>7. /\ whole \in Seq(Cue)
      /\ Len(whole) = Len(rest) + Len(block)
      /\ \A j \in 1 .. Len(rest) + Len(block) :
            whole[j] = IF j < a THEN rest[j]
                       ELSE IF j < a + Len(block) THEN block[j - a + 1]
                       ELSE rest[j - Len(block)]
  BY <1>3, <1>4, <1>6, InsertedRows
<1> HIDE DEF whole
<1>8. ASSUME NEW j \in 1 .. n PROVE whole[j] = list[Place(a, b, c, j)]
  <2>1. whole[j] = IF j < a THEN rest[j]
                   ELSE IF j < a + size THEN block[j - a + 1] ELSE rest[j - size]
    BY <1>1, <1>3, <1>4, <1>7
  <2>2. CASE j < a
    <3>1. j \in 1 .. n - size /\ j < b
      BY <1>1, <2>2
    <3> QED
      BY <1>3, <2>1, <2>2, <3>1 DEF Place
  <2>3. CASE j >= a /\ j < a + size
    <3>1. j - a + 1 \in 1 .. size /\ ~(j < a) /\ b + (j - a + 1) - 1 = j + (b - a)
      BY <1>1, <2>3
    <3>2. block[j - a + 1] = list[j + (b - a)]
      BY <1>4, <3>1
    <3> QED
      BY <2>1, <2>3, <3>1, <3>2 DEF Place
  <2>4. CASE j >= a + size /\ j < c
    <3>1. j - size \in 1 .. n - size /\ j - size < b /\ ~(j < a) /\ ~(j < a + size)
      BY <1>1, <2>4
    <3> QED
      BY <1>3, <2>1, <2>4, <3>1 DEF Place
  <2>5. CASE j >= c
    <3>1. /\ j - size \in 1 .. n - size /\ ~(j - size < b) /\ (j - size) + size = j
          /\ ~(j < a) /\ ~(j < a + size) /\ ~(j < c)
      BY <1>1, <2>5
    <3> QED
      BY <1>3, <2>1, <3>1 DEF Place
  <2> QED
    BY <1>1, <2>2, <2>3, <2>4, <2>5
<1>9. Len(whole) = n /\ whole = [j \in 1 .. n |-> whole[j]]
  <2>1. Len(whole) = n /\ whole \in Seq(Cue)
    BY <1>1, <1>3, <1>4, <1>7
  <2>2. whole \in [1 .. n -> Cue]
    BY <2>1, LenProperties
  <2> QED
    BY <2>1, <2>2
<1> QED
  BY <1>5, <1>8, <1>9 DEF Swapped

\* Where the rows of such a list were, and which were neighbours.
LEMMA Places ==
  ASSUME NEW n \in Nat, NEW a \in 1 .. n, NEW b \in a + 1 .. n, NEW c \in b + 1 .. n + 1
  PROVE  /\ \A j \in 1 .. n : Place(a, b, c, j) \in 1 .. n
         /\ \A i, j \in 1 .. n : Place(a, b, c, i) = Place(a, b, c, j) => i = j
         /\ Place(a, b, c, 1) = IF a = 1 THEN b ELSE 1
         /\ \A j \in 2 .. n :
              \/ /\ Place(a, b, c, j - 1) = Place(a, b, c, j) - 1
                 /\ Place(a, b, c, j) \in 2 .. n \ {a, b, c}
              \/ a > 1 /\ Place(a, b, c, j - 1) = a - 1 /\ Place(a, b, c, j) = b
              \/ Place(a, b, c, j - 1) = c - 1 /\ Place(a, b, c, j) = a
              \/ c <= n /\ Place(a, b, c, j - 1) = b - 1 /\ Place(a, b, c, j) = c
  BY DEF Place

\* Two pieces may change places when the rows follow each other at the seams.
LEMMA SwappedOrderly ==
  ASSUME NEW list, Proper(list),
         NEW a \in 1 .. Len(list), NEW b \in a + 1 .. Len(list),
         NEW c \in b + 1 .. Len(list) + 1,
         \A j \in 2 .. Len(list) \ {a, b, c} : Follows(list[j - 1], list[j]),
         a = 1 => list[b].parent = NoCue,
         a > 1 => list[1].parent = NoCue /\ Follows(list[a - 1], list[b]),
         Follows(list[c - 1], list[a]),
         c <= Len(list) => Follows(list[b - 1], list[c])
  PROVE  Orderly(Swapped(list, a, b, c)) /\ Len(Swapped(list, a, b, c)) = Len(list)
<1> DEFINE n == Len(list)
           P(j) == Place(a, b, c, j)
           s == Swapped(list, a, b, c)
<1>1. n \in Nat /\ n > 0 /\ list \in Seq(Cue) /\ \A j \in 1 .. n : list[j] \in Cue
  BY LenProperties DEF Proper
<1>2. /\ \A j \in 1 .. n : P(j) \in 1 .. n
      /\ \A i, j \in 1 .. n : P(i) = P(j) => i = j
      /\ P(1) = IF a = 1 THEN b ELSE 1
      /\ \A j \in 2 .. n :
           \/ P(j - 1) = P(j) - 1 /\ P(j) \in 2 .. n \ {a, b, c}
           \/ a > 1 /\ P(j - 1) = a - 1 /\ P(j) = b
           \/ P(j - 1) = c - 1 /\ P(j) = a
           \/ c <= n /\ P(j - 1) = b - 1 /\ P(j) = c
  <2> HIDE DEF n
  <2>1. a \in 1 .. n /\ b \in a + 1 .. n /\ c \in b + 1 .. n + 1
    BY DEF n
  <2> QED
    BY <1>1, <2>1 DEF Place
<1>3. s \in Seq(Cue) /\ Len(s) = n /\ \A j \in 1 .. n : s[j] = list[P(j)]
  <2>1. s = [j \in 1 .. n |-> list[P(j)]]
    BY DEF Swapped
  <2>2. \A j \in 1 .. n : list[P(j)] \in Cue
    BY <1>1, <1>2
  <2> HIDE DEF s, P
  <2> QED
    BY <1>1, <2>1, <2>2
<1> HIDE DEF s, P
<1>4. Proper(s)
  <2>1. ASSUME NEW i \in 1 .. n, NEW k \in 1 .. n, s[i].q = s[k].q PROVE i = k
    <3>1. P(i) \in 1 .. n /\ P(k) \in 1 .. n /\ s[i] = list[P(i)] /\ s[k] = list[P(k)]
      BY <1>2, <1>3
    <3>2. \A x, y \in 1 .. n : list[x].q = list[y].q => x = y
      BY DEF Proper, Rows
    <3>3. P(i) = P(k)
      BY <2>1, <3>1, <3>2
    <3> QED
      BY <1>2, <1>3, <3>3
  <2>2. ASSUME NEW i \in 1 .. n PROVE Placed(s[i])
    <3>1. P(i) \in 1 .. n /\ s[i] = list[P(i)]
      BY <1>2, <1>3
    <3>2. \A x \in 1 .. n : Placed(list[x])
      BY DEF Proper, Rows
    <3> QED
      BY <2>2, <3>1, <3>2
  <2> QED
    BY <1>3, <2>1, <2>2 DEF Proper, Rows
<1>5. s[1].parent = NoCue
  <2>1. 1 \in 1 .. n /\ (a = 1 \/ a > 1)
    BY <1>1
  <2>2. s[1] = list[IF a = 1 THEN b ELSE 1]
    BY <1>2, <1>3, <2>1
  <2> QED
    BY <2>1, <2>2
<1>6. ASSUME NEW j \in 2 .. n PROVE Follows(s[j - 1], s[j])
  <2>1. s[j] = list[P(j)] /\ s[j - 1] = list[P(j - 1)]
    <3>1. j \in 1 .. n /\ j - 1 \in 1 .. n
      BY <1>1
    <3> QED
      BY <1>3, <3>1
  <2>2. CASE P(j - 1) = P(j) - 1 /\ P(j) \in 2 .. n \ {a, b, c}
    BY <2>1, <2>2
  <2>3. CASE a > 1 /\ P(j - 1) = a - 1 /\ P(j) = b
    BY <2>1, <2>3
  <2>4. CASE P(j - 1) = c - 1 /\ P(j) = a
    BY <2>1, <2>4
  <2>5. CASE c <= n /\ P(j - 1) = b - 1 /\ P(j) = c
    BY <2>1, <2>5
  <2> QED
    BY <1>2, <2>2, <2>3, <2>4, <2>5
<1> QED
  BY <1>3, <1>4, <1>5, <1>6 DEF Orderly, s

\* Rows that are taken out leave an orderly list when the ones around them
\* follow each other.
LEMMA RemovedOrderly ==
  ASSUME NEW list, Orderly(list), NEW f \in 1 .. Len(list), NEW l \in f .. Len(list),
         f = 1 /\ l < Len(list) => list[l + 1].parent = NoCue,
         f > 1 /\ l < Len(list) => Follows(list[f - 1], list[l + 1])
  PROVE  Orderly(RemoveSpan(list, <<f, l>>))
<1> DEFINE s == RemoveSpan(list, <<f, l>>)
           size == l - f + 1
           n == Len(list) - size
           P(j) == IF j < f THEN j ELSE j + size
<1>1. Len(list) \in Nat /\ list \in Seq(Cue) /\ list # <<>>
  BY LenProperties, EmptySeq DEF Orderly, Proper
<1>2. s \in Seq(Cue) /\ Len(s) = n /\ \A j \in 1 .. n : s[j] = list[P(j)]
  <2>1. \A j \in 1 .. n : s[j] = IF j < f THEN list[j] ELSE list[j + size]
    BY <1>1, RemovedRows
  <2>2. s \in Seq(Cue) /\ Len(s) = n
    BY <1>1, RemovedRows
  <2> HIDE DEF s, size, n
  <2> QED
    BY <2>1, <2>2
<1>3. /\ n \in Nat
      /\ \A j \in 1 .. n : P(j) \in 1 .. Len(list)
      /\ \A i, j \in 1 .. n : P(i) = P(j) => i = j
      /\ \A j \in 2 .. n :
           \/ P(j - 1) = P(j) - 1 /\ P(j) \in 2 .. Len(list)
           \/ f > 1 /\ l < Len(list) /\ P(j - 1) = f - 1 /\ P(j) = l + 1
      /\ n > 0 => P(1) = 1 \/ (f = 1 /\ l < Len(list) /\ P(1) = l + 1)
  BY <1>1
<1> HIDE DEF s, P, n, size
<1>4. Proper(s)
  <2>1. ASSUME NEW i \in 1 .. n, NEW k \in 1 .. n, s[i].q = s[k].q PROVE i = k
    <3>1. P(i) \in 1 .. Len(list) /\ P(k) \in 1 .. Len(list) /\ s[i] = list[P(i)] /\ s[k] = list[P(k)]
      BY <1>2, <1>3
    <3>2. \A x, y \in 1 .. Len(list) : list[x].q = list[y].q => x = y
      BY DEF Orderly, Proper, Rows
    <3>3. P(i) = P(k)
      BY <2>1, <3>1, <3>2
    <3> QED
      BY <1>2, <1>3, <3>3
  <2>2. ASSUME NEW i \in 1 .. n PROVE Placed(s[i])
    <3>1. P(i) \in 1 .. Len(list) /\ s[i] = list[P(i)]
      BY <1>2, <1>3
    <3>2. \A x \in 1 .. Len(list) : Placed(list[x])
      BY DEF Orderly, Proper, Rows
    <3> QED
      BY <2>2, <3>1, <3>2
  <2> QED
    BY <1>2, <2>1, <2>2 DEF Proper, Rows
<1>5. ASSUME s # <<>> PROVE s[1].parent = NoCue
  <2>1. n > 0 /\ 1 \in 1 .. n
    BY <1>2, <1>3, <1>5, EmptySeq
  <2>2. list[1].parent = NoCue
    BY <1>1 DEF Orderly
  <2> QED
    BY <1>2, <1>3, <2>1, <2>2
<1>6. ASSUME NEW j \in 2 .. n PROVE Follows(s[j - 1], s[j])
  <2>1. s[j] = list[P(j)] /\ s[j - 1] = list[P(j - 1)]
    <3>1. n \in Nat
      BY <1>3
    <3>2. j \in 1 .. n /\ j - 1 \in 1 .. n
      BY <3>1
    <3> QED
      BY <1>2, <3>2
  <2>2. CASE P(j - 1) = P(j) - 1 /\ P(j) \in 2 .. Len(list)
    BY <2>1, <2>2 DEF Orderly
  <2>3. CASE f > 1 /\ l < Len(list) /\ P(j - 1) = f - 1 /\ P(j) = l + 1
    BY <2>1, <2>3
  <2> QED
    BY <1>3, <2>2, <2>3
<1> QED
  BY <1>2, <1>4, <1>5, <1>6 DEF Orderly, s

\* Rows that are put in keep the list orderly when they are orderly, with
\* numbers of their own, and follow at both seams.
LEMMA InsertedOrderly ==
  ASSUME NEW list, Orderly(list), NEW at \in 1 .. Len(list) + 1,
         NEW block, Proper(block), block # <<>>,
         \A j \in 1 .. Len(block) : block[j].q \notin Taken(list),
         \A j \in 2 .. Len(block) : Follows(block[j - 1], block[j]),
         at = 1 => block[1].parent = NoCue,
         at > 1 => Follows(list[at - 1], block[1]),
         at <= Len(list) => Follows(block[Len(block)], list[at])
  PROVE  Orderly(InsertAt(list, at, block))
<1> DEFINE s == InsertAt(list, at, block)
           m == Len(block)
           n == Len(list) + m
<1>1. /\ Len(list) \in Nat /\ list \in Seq(Cue)
      /\ m \in Nat /\ m > 0 /\ block \in Seq(Cue) /\ m = Len(block)
  BY LenProperties, EmptySeq DEF Orderly, Proper
<1>2. /\ s \in Seq(Cue) /\ Len(s) = n
      /\ \A j \in 1 .. n : s[j] = IF j < at THEN list[j]
                                  ELSE IF j < at + m THEN block[j - at + 1]
                                  ELSE list[j - m]
  BY <1>1, InsertedRows
<1> HIDE DEF s
<1>3. \A i, k \in 1 .. Len(list) : list[i].q = list[k].q => i = k
  BY DEF Orderly, Proper, Rows
<1>4. \A i, k \in 1 .. m : block[i].q = block[k].q => i = k
  BY DEF Proper, Rows
<1>5. \A i \in 1 .. Len(list), k \in 1 .. m : list[i].q # block[k].q
  BY DEF Taken, Rows
<1>A. /\ \A j \in 1 .. m : Placed(block[j])
      /\ \A j \in 2 .. m : Follows(block[j - 1], block[j])
      /\ at <= Len(list) => Follows(block[m], list[at])
  BY DEF Proper, Rows
<1>B. /\ n \in Nat /\ n = Len(list) + m /\ at \in 1 .. Len(list) + 1
      /\ \A j \in 2 .. n : j - 1 \in 1 .. n /\ j \in 1 .. n
  BY <1>1
<1> HIDE DEF m, n
<1> DEFINE inner(j) == j \in at .. at + m - 1
           row(j) == IF j < at THEN j ELSE j - m
<1>C. ASSUME NEW j \in 1 .. n, inner(j)
      PROVE  j - at + 1 \in 1 .. m /\ s[j] = block[j - at + 1]
  <2>1. m \in Nat /\ at \in Nat /\ Len(list) \in Nat
    BY <1>1
  <2>2. j - at + 1 \in 1 .. m /\ ~(j < at) /\ j < at + m
    BY <1>B, <1>C, <2>1
  <2> HIDE DEF inner
  <2> QED
    BY <1>2, <2>2
<1>D. ASSUME NEW j \in 1 .. n, ~inner(j)
      PROVE  row(j) \in 1 .. Len(list) /\ s[j] = list[row(j)]
  <2>1. m \in Nat /\ at \in Nat /\ Len(list) \in Nat
    BY <1>1
  <2>2. row(j) \in 1 .. Len(list) /\ (j < at \/ (~(j < at) /\ ~(j < at + m)))
    BY <1>B, <1>D, <2>1
  <2>3. s[j] = list[row(j)]
    BY <1>2, <2>2
  <2> QED
    BY <2>2, <2>3
<1>E. ASSUME NEW i \in 1 .. n, NEW k \in 1 .. n, i # k
      PROVE  /\ inner(i) /\ inner(k) => i - at + 1 # k - at + 1
             /\ ~inner(i) /\ ~inner(k) => row(i) # row(k)
  <2>1. m \in Nat /\ at \in Nat /\ i \in Nat /\ k \in Nat
    BY <1>1, <1>B
  <2> QED
    BY <1>E, <2>1
<1> HIDE DEF inner, row
<1>6. \A i, k \in 1 .. n : s[i].q = s[k].q => i = k
  <2> SUFFICES ASSUME NEW i \in 1 .. n, NEW k \in 1 .. n, i # k PROVE s[i].q # s[k].q
    OBVIOUS
  <2>1. CASE inner(i) /\ inner(k)
    BY <1>4, <1>C, <1>E, <2>1
  <2>2. CASE inner(i) /\ ~inner(k)
    BY <1>5, <1>C, <1>D, <2>2
  <2>3. CASE ~inner(i) /\ inner(k)
    BY <1>5, <1>C, <1>D, <2>3
  <2>4. CASE ~inner(i) /\ ~inner(k)
    BY <1>3, <1>D, <1>E, <2>4
  <2> QED
    BY <2>1, <2>2, <2>3, <2>4
<1>7. ASSUME NEW i \in 1 .. n PROVE Placed(s[i])
  <2>1. \A x \in 1 .. Len(list) : Placed(list[x])
    BY DEF Orderly, Proper, Rows
  <2>2. CASE inner(i)
    BY <1>A, <1>C, <2>2
  <2>3. CASE ~inner(i)
    BY <1>D, <2>1, <2>3
  <2> QED
    BY <2>2, <2>3
<1>8. Proper(s)
  BY <1>2, <1>6, <1>7 DEF Proper, Rows
<1>9. s[1].parent = NoCue
  <2>1. CASE at = 1
    BY <1>1, <1>B, <1>2, <2>1
  <2>2. CASE at # 1
    <3>1. s[1] = list[1] /\ list # <<>> /\ at > 1
      BY <1>1, <1>B, <1>2, <2>2
    <3> QED
      BY <3>1 DEF Orderly
  <2> QED
    BY <2>1, <2>2
<1>10. ASSUME NEW j \in 2 .. n PROVE Follows(s[j - 1], s[j])
  <2>0. /\ j - 1 \in 1 .. n /\ j \in 1 .. n
        /\ s[j - 1] = IF j - 1 < at THEN list[j - 1]
                      ELSE IF j - 1 < at + m THEN block[j - 1 - at + 1]
                      ELSE list[j - 1 - m]
        /\ s[j] = IF j < at THEN list[j]
                  ELSE IF j < at + m THEN block[j - at + 1]
                  ELSE list[j - m]
    BY <1>2, <1>B
  <2>6. j < at \/ j = at \/ (j > at /\ j < at + m) \/ j = at + m \/ j > at + m
    <3>1. j \in Int /\ at \in Int /\ m \in Int
      BY <1>1, <1>B, <2>0
    <3> QED
      BY <3>1
  <2> USE <1>1, <1>B
  <2>1. CASE j < at
    <3>1. j - 1 < at /\ j \in 2 .. Len(list)
      BY <2>1
    <3> QED
      BY <2>0, <2>1, <3>1 DEF Orderly
  <2>2. CASE j = at
    <3>1. j - 1 < at /\ ~(j < at) /\ j < at + m /\ j - at + 1 = 1 /\ at > 1
      BY <2>2
    <3>2. s[j - 1] = list[at - 1] /\ s[j] = block[1]
      BY <2>0, <2>2, <3>1
    <3> QED
      BY <3>1, <3>2
  <2>3. CASE j > at /\ j < at + m
    <3>1. /\ ~(j - 1 < at) /\ j - 1 < at + m /\ ~(j < at)
          /\ j - 1 - at + 1 = (j - at + 1) - 1 /\ j - at + 1 \in 2 .. m
      BY <2>3
    <3>2. s[j - 1] = block[(j - at + 1) - 1] /\ s[j] = block[j - at + 1]
      BY <2>0, <2>3, <3>1
    <3> QED
      BY <1>A, <3>1, <3>2
  <2>4. CASE j = at + m
    <3>1. /\ ~(j - 1 < at) /\ j - 1 < at + m /\ ~(j < at) /\ ~(j < at + m)
          /\ j - 1 - at + 1 = m /\ j - m = at /\ at <= Len(list)
      BY <2>4
    <3>2. s[j - 1] = block[m] /\ s[j] = list[at]
      BY <2>0, <3>1
    <3> QED
      BY <1>A, <3>1, <3>2
  <2>5. CASE j > at + m
    <3>1. /\ ~(j - 1 < at) /\ ~(j - 1 < at + m) /\ ~(j < at) /\ ~(j < at + m)
          /\ j - 1 - m = (j - m) - 1 /\ j - m \in 2 .. Len(list)
      BY <2>5
    <3>2. s[j - 1] = list[(j - m) - 1] /\ s[j] = list[j - m]
      BY <2>0, <3>1
    <3> QED
      BY <3>1, <3>2 DEF Orderly
  <2> QED
    BY <2>1, <2>2, <2>3, <2>4, <2>5, <2>6
<1> QED
  BY <1>2, <1>8, <1>9, <1>10 DEF Orderly, s

\* A whole block may be moved to where a row at top level, or none, is.
LEMMA BlockMoved ==
  ASSUME NEW list, Orderly(list), NEW f \in Rows(list), NEW l \in f .. Len(list),
         list[f].parent = NoCue, l < Len(list) => list[l + 1].parent = NoCue,
         NEW to \in 1 .. Len(list) + 1, to <= Len(list) => list[to].parent = NoCue
  PROVE  Orderly(MoveSpan(list, <<f, l>>, to))
<1>1. /\ Len(list) \in Nat /\ list \in Seq(Cue) /\ Proper(list) /\ f \in 1 .. Len(list)
      /\ list[1].parent = NoCue /\ \A j \in 2 .. Len(list) : Follows(list[j - 1], list[j])
  <2>1. Len(list) \in Nat /\ list \in Seq(Cue) /\ Proper(list) /\ f \in 1 .. Len(list)
    BY LenProperties DEF Orderly, Proper, Rows
  <2>2. list # <<>>
    BY <2>1, EmptySeq
  <2> QED
    BY <2>1, <2>2 DEF Orderly
<1>2. CASE to \in f .. l + 1
  BY <1>2 DEF MoveSpan
<1>3. CASE to > l + 1
  <2>1. l + 1 \in f + 1 .. Len(list) /\ to \in (l + 1) + 1 .. Len(list) + 1 /\ (l + 1) - 1 = l
    BY <1>1, <1>3
  <2>2. MoveSpan(list, <<f, l>>, to) = Swapped(list, f, l + 1, to)
    BY <1>1, <2>1, MovedDown
  <2>3. /\ list[l + 1].parent = NoCue
        /\ f > 1 => Follows(list[f - 1], list[l + 1])
        /\ Follows(list[to - 1], list[f])
        /\ to <= Len(list) => Follows(list[(l + 1) - 1], list[to])
    BY <2>1 DEF Follows
  <2> QED
    BY <1>1, <2>1, <2>2, <2>3, SwappedOrderly
<1>4. CASE to < f
  <2>1. /\ to \in 1 .. Len(list) /\ f \in to + 1 .. Len(list)
        /\ l + 1 \in f + 1 .. Len(list) + 1 /\ (l + 1) - 1 = l
    BY <1>1, <1>4
  <2>2. MoveSpan(list, <<f, l>>, to) = Swapped(list, to, f, l + 1)
    BY <1>1, <2>1, MovedUp
  <2>3. /\ list[f].parent = NoCue
        /\ to > 1 => Follows(list[to - 1], list[f])
        /\ Follows(list[(l + 1) - 1], list[to])
        /\ l + 1 <= Len(list) => Follows(list[f - 1], list[l + 1])
    BY <1>1, <2>1 DEF Follows
  <2> QED
    BY <1>1, <2>1, <2>2, <2>3, SwappedOrderly
<1> QED
  BY <1>1, <1>2, <1>3, <1>4

\* What comes after a row that is no group may come before it.
LEMMA RowSkipped ==
  ASSUME NEW list, Orderly(list), NEW i \in 1 .. Len(list) - 1, ~IsGroup(list[i])
  PROVE  /\ list[i + 1].parent \in {NoCue, list[i].parent}
         /\ i = 1 => list[i + 1].parent = NoCue
         /\ i > 1 => Follows(list[i - 1], list[i + 1])
<1>1. Len(list) \in Nat /\ list \in Seq(Cue) /\ list # <<>>
  BY LenProperties, EmptySeq DEF Orderly, Proper
<1>2. Follows(list[i], list[i + 1])
  <2>1. i + 1 \in 2 .. Len(list) /\ (i + 1) - 1 = i
    BY <1>1
  <2> QED
    BY <2>1 DEF Orderly
<1>3. list[i + 1].parent \in {NoCue, list[i].parent}
  BY <1>2 DEF Follows
<1>4. i = 1 => list[i].parent = NoCue
  BY <1>1 DEF Orderly
<1>5. i > 1 => Follows(list[i - 1], list[i])
  <2>1. i > 1 => i \in 2 .. Len(list)
    BY <1>1
  <2> QED
    BY <2>1 DEF Orderly
<1>6. ASSUME i > 1 PROVE Follows(list[i - 1], list[i + 1])
  BY <1>3, <1>5, <1>6 DEF Follows
<1> QED
  BY <1>3, <1>4, <1>6

\* The list with row i in group p.
Regrouped(list, i, p) == [list EXCEPT ![i].parent = p]

\* A row that is no group may be moved, into group p or out of any, to where
\* the row before it is of p and the row after it is of p or of none.
LEMMA RowMoved ==
  ASSUME NEW list, Orderly(list), NEW i \in Rows(list), ~IsGroup(list[i]),
         NEW to \in 1 .. Len(list) + 1, NEW p \in Numbers \union {NoCue},
         NEW before, before = IF to \in i .. i + 1 THEN i - 1 ELSE to - 1,
         NEW after, after = IF to \in i .. i + 1 THEN i + 1 ELSE to,
         p = NoCue \/ (before >= 1 /\ (p = list[before].parent
                                        \/ (IsGroup(list[before]) /\ p = list[before].q))),
         after <= Len(list) => list[after].parent \in {NoCue, p}
  PROVE  Orderly(MoveSpan(Regrouped(list, i, p), <<i, i>>, to))
<1> DEFINE n == Len(list)
           new == Regrouped(list, i, p)
<1>1. /\ n \in Nat /\ list \in Seq(Cue) /\ i \in 1 .. n /\ list # <<>> /\ list[i] \in Cue
      /\ list[1].parent = NoCue /\ \A j \in 2 .. n : Follows(list[j - 1], list[j])
  <2>1. n \in Nat /\ list \in Seq(Cue) /\ i \in 1 .. n
    BY LenProperties DEF Orderly, Proper, Rows
  <2>2. list # <<>> /\ list[i] \in Cue
    BY <2>1, EmptySeq
  <2> QED
    BY <2>1, <2>2 DEF Orderly
<1>2. /\ new \in Seq(Cue) /\ Len(new) = n
      /\ \A j \in 1 .. n : j # i => new[j] = list[j]
      /\ new[i].parent = p /\ new[i].q = list[i].q /\ new[i].kind = list[i].kind
  <2>1. [list[i] EXCEPT !.parent = p] \in Cue
    BY <1>1 DEF Cue
  <2>2. new = [list EXCEPT ![i] = [list[i] EXCEPT !.parent = p]]
    BY <1>1 DEF Regrouped
  <2>3. /\ new \in Seq(Cue) /\ Len(new) = n
        /\ \A j \in 1 .. n : new[j] = IF j = i THEN [list[i] EXCEPT !.parent = p] ELSE list[j]
    BY <1>1, <2>1, <2>2, ExceptSeq
  <2>4. list[i] \in [q : Numbers, kind : {"Cue", "Group"}, parent : Numbers \union {NoCue},
                     trigger : Triggers]
    BY <1>1 DEF Cue
  <2> HIDE DEF new
  <2> QED
    BY <1>1, <2>3, <2>4
<1> HIDE DEF new
<1>3. Proper(new)
  <2>1. \A x, y \in 1 .. n : list[x].q = list[y].q => x = y
    BY DEF Orderly, Proper, Rows
  <2>2. \A x \in 1 .. n : Placed(list[x])
    BY DEF Orderly, Proper, Rows
  <2>3. \A x \in 1 .. n : new[x].q = list[x].q
    BY <1>2
  <2>4. \A x \in 1 .. n : IsGroup(new[x]) => x # i
    BY <1>2 DEF IsGroup
  <2>5. \A x \in 1 .. n : Placed(new[x])
    BY <1>2, <2>2, <2>4 DEF Placed
  <2>6. Rows(new) = 1 .. n
    BY <1>2 DEF Rows
  <2> QED
    BY <1>2, <2>1, <2>3, <2>5, <2>6 DEF Proper
<1>4. ASSUME NEW j \in 2 .. n, j # i, j # i + 1 PROVE Follows(new[j - 1], new[j])
  <2>0. j \in 1 .. n /\ j - 1 \in 1 .. n /\ j - 1 # i
    BY <1>1, <1>4
  <2>1. new[j - 1] = list[j - 1] /\ new[j] = list[j]
    BY <1>2, <1>4, <2>0
  <2> QED
    BY <1>1, <2>1
\* the gap the row leaves
<1>5. ASSUME i < n PROVE /\ i = 1 => new[i + 1].parent = NoCue
                         /\ i > 1 => Follows(new[i - 1], new[i + 1])
  <2>1. i \in 1 .. n - 1 /\ i + 1 \in 1 .. n
    BY <1>1, <1>5
  <2>2. i \in 1 .. n /\ n \in Nat
    BY <1>1
  <2>3. i + 1 # i /\ i - 1 # i /\ (i > 1 => i - 1 \in 1 .. n)
    BY <2>2
  <2>4. new[i + 1] = list[i + 1] /\ (i > 1 => new[i - 1] = list[i - 1])
    BY <1>2, <2>1, <2>3
  <2> QED
    BY <2>1, <2>4, RowSkipped
\* the seams of the row
<1>6. ASSUME before >= 1, before <= n, before # i PROVE Follows(new[before], new[i])
  <2>1. new[before] = list[before]
    BY <1>1, <1>2, <1>6
  <2> QED
    BY <1>2, <2>1 DEF Follows
<1>7. ASSUME after >= 1, after <= n, after # i PROVE Follows(new[i], new[after])
  <2>1. new[after] = list[after]
    BY <1>1, <1>2, <1>7
  <2> QED
    BY <1>2, <1>7, <2>1 DEF Follows
<1>8. before < 1 => p = NoCue
  BY <1>1
<1>9. CASE to \in i .. i + 1
  <2>1. MoveSpan(new, <<i, i>>, to) = new
    BY <1>9 DEF MoveSpan
  <2>2. new[1].parent = NoCue
    <3>1. CASE i = 1
      BY <1>2, <1>8, <1>9, <3>1
    <3>2. CASE i # 1
      BY <1>1, <1>2, <3>2
    <3> QED
      BY <3>1, <3>2
  <2>3. ASSUME NEW j \in 2 .. n PROVE Follows(new[j - 1], new[j])
    <3>1. CASE j = i
      BY <1>1, <1>6, <1>9, <3>1
    <3>2. CASE j = i + 1
      <4>1. j - 1 = i /\ after = j
        BY <1>1, <1>9, <3>2
      <4> QED
        BY <1>1, <1>7, <3>2, <4>1
    <3> QED
      BY <1>4, <3>1, <3>2
  <2> QED
    BY <1>2, <1>3, <2>1, <2>2, <2>3 DEF Orderly, new
<1>10. CASE to > i + 1
  <2>1. /\ i \in 1 .. Len(new) /\ i + 1 \in i + 1 .. Len(new) /\ to \in (i + 1) + 1 .. Len(new) + 1
        /\ (i + 1) - 1 = i /\ i < n /\ before = to - 1 /\ after = to
    BY <1>1, <1>2, <1>10
  <2>2. MoveSpan(new, <<i, i>>, to) = Swapped(new, i, i + 1, to)
    BY <1>2, <2>1, MovedDown
  <2>3. \A j \in 2 .. Len(new) \ {i, i + 1, to} : Follows(new[j - 1], new[j])
    BY <1>2, <1>4
  <2>4. i > 1 => new[1].parent = NoCue
    BY <1>1, <1>2
  <2>5. Follows(new[to - 1], new[i])
    BY <1>1, <1>2, <1>6, <2>1
  <2>6. to <= Len(new) => Follows(new[(i + 1) - 1], new[to])
    BY <1>1, <1>2, <1>7, <2>1
  <2> QED
    BY <1>3, <1>5, <2>1, <2>2, <2>3, <2>4, <2>5, <2>6, SwappedOrderly DEF new
<1>11. CASE to < i
  <2>1. /\ to \in 1 .. Len(new) /\ i \in to + 1 .. Len(new) /\ i + 1 \in i + 1 .. Len(new) + 1
        /\ (i + 1) - 1 = i /\ before = to - 1 /\ after = to
    BY <1>1, <1>2, <1>11
  <2>2. MoveSpan(new, <<i, i>>, to) = Swapped(new, to, i, i + 1)
    BY <1>2, <2>1, MovedUp
  <2>3. \A j \in 2 .. Len(new) \ {to, i, i + 1} : Follows(new[j - 1], new[j])
    BY <1>2, <1>4
  <2>4. to = 1 => new[i].parent = NoCue
    BY <1>2, <1>8, <2>1
  <2>5. to > 1 => new[1].parent = NoCue /\ Follows(new[to - 1], new[i])
    <3>1. to > 1 => before >= 1 /\ before <= n /\ before # i /\ before = to - 1
      BY <1>1, <1>2, <2>1
    <3>2. new[1] = list[1]
      BY <1>1, <1>2, <1>11
    <3> QED
      BY <1>1, <1>6, <3>1, <3>2
  <2>6. Follows(new[(i + 1) - 1], new[to])
    BY <1>1, <1>2, <1>7, <1>11, <2>1
  <2>7. i + 1 <= Len(new) => Follows(new[i - 1], new[i + 1])
    BY <1>1, <1>2, <1>5, <1>11
  <2>8. Orderly(Swapped(new, to, i, i + 1))
    BY <1>3, <2>1, <2>3, <2>4, <2>5, <2>6, <2>7, SwappedOrderly
  <2> QED
    BY <2>2, <2>8 DEF new
<1> QED
  BY <1>1, <1>9, <1>10, <1>11

\* A block that is moved takes no number with it and brings none.
LEMMA MoveKeepsNumbers ==
  ASSUME NEW list \in Seq(Cue), NEW f \in Rows(list), NEW l \in f .. Len(list),
         NEW to \in 1 .. Len(list) + 1
  PROVE  /\ Taken(MoveSpan(list, <<f, l>>, to)) = Taken(list)
         /\ Len(MoveSpan(list, <<f, l>>, to)) = Len(list)
<1> DEFINE n == Len(list)
<1>1. n \in Nat /\ f \in 1 .. n
  BY LenProperties DEF Rows
<1>2. ASSUME NEW a \in 1 .. n, NEW b \in a + 1 .. n, NEW c \in b + 1 .. n + 1
      PROVE  Taken(Swapped(list, a, b, c)) = Taken(list) /\ Len(Swapped(list, a, b, c)) = n
  <2> DEFINE s == Swapped(list, a, b, c)
  <2>1. Len(s) = n /\ \A j \in 1 .. n : s[j] = list[Place(a, b, c, j)]
    BY <1>1 DEF Swapped
  <2>2. \A j \in 1 .. n : Place(a, b, c, j) \in 1 .. n
    BY <1>1 DEF Place
  <2>3. \A k \in 1 .. n : /\ Place(a, a + (c - b), c, k) \in 1 .. n
                          /\ Place(a, b, c, Place(a, a + (c - b), c, k)) = k
    BY <1>1 DEF Place
  <2> HIDE DEF s
  <2>4. \A j \in 1 .. n : s[j].q \in Taken(list)
    BY <2>1, <2>2 DEF Taken, Rows
  <2>5. ASSUME NEW k \in 1 .. n PROVE list[k].q \in Taken(s)
    <3>1. list[k] = s[Place(a, a + (c - b), c, k)] /\ Place(a, a + (c - b), c, k) \in Rows(s)
      BY <2>1, <2>3 DEF Rows
    <3> QED
      BY <3>1 DEF Taken
  <2> QED
    BY <2>1, <2>4, <2>5 DEF Taken, Rows, s
<1>3. CASE to \in f .. l + 1
  BY <1>3 DEF MoveSpan
<1>4. CASE to > l + 1
  <2>1. l + 1 \in f + 1 .. n /\ to \in (l + 1) + 1 .. n + 1 /\ (l + 1) - 1 = l
    BY <1>1, <1>4
  <2>2. MoveSpan(list, <<f, l>>, to) = Swapped(list, f, l + 1, to)
    BY <1>1, <2>1, MovedDown
  <2> QED
    BY <1>1, <1>2, <2>1, <2>2
<1>5. CASE to < f
  <2>1. to \in 1 .. n /\ f \in to + 1 .. n /\ l + 1 \in f + 1 .. n + 1 /\ (l + 1) - 1 = l
    BY <1>1, <1>5
  <2>2. MoveSpan(list, <<f, l>>, to) = Swapped(list, to, f, l + 1)
    BY <1>1, <2>1, MovedUp
  <2> QED
    BY <1>2, <2>1, <2>2
<1> QED
  BY <1>1, <1>3, <1>4, <1>5

-----------------------------------------------------------------------------
(* The numbers that are drawn                                              *)

\* As many numbers are taken as there are rows.
LEMMA TakenSize ==
  ASSUME NEW list, Proper(list)
  PROVE  /\ Taken(list) \subseteq Numbers /\ IsFiniteSet(Taken(list))
         /\ Cardinality(Taken(list)) = Len(list)
<1> DEFINE n == Len(list)
           f == [i \in 1 .. n |-> list[i].q]
<1>1. n \in Nat /\ \A i \in 1 .. n : list[i] \in Cue
  BY LenProperties DEF Proper
<1>2. Taken(list) \subseteq Numbers
  BY <1>1 DEF Taken, Rows, Cue
<1>3. f \in Surjection(1 .. n, Taken(list))
  BY DEF Surjection, Taken, Rows
<1>4. f \in Injection(1 .. n, Taken(list))
  <2>1. \A x, y \in 1 .. n : list[x].q = list[y].q => x = y
    BY DEF Proper, Rows
  <2>2. \A x, y \in 1 .. n : f[x] = f[y] => x = y
    BY <2>1
  <2>3. f \in [1 .. n -> Taken(list)]
    BY DEF Taken, Rows
  <2> HIDE DEF f
  <2> QED
    BY <2>2, <2>3 DEF Injection, IsInjective
<1>5. IsFiniteSet(1 .. n) /\ Cardinality(1 .. n) = n
  BY <1>1, FS_Interval
<1> HIDE DEF f
<1>6. IsFiniteSet(Taken(list)) /\ Cardinality(Taken(list)) = n
  BY <1>3, <1>4, <1>5, FS_Surjection
<1> QED
  BY <1>2, <1>6

\* Each number up to the size of a set is the rank of one of its elements.
LEMMA RanksExist ==
  ASSUME NEW S, S \subseteq Nat, IsFiniteSet(S), NEW k \in 1 .. Cardinality(S)
  PROVE  \E x \in S : Cardinality({y \in S : y <= x}) = k
<1> DEFINE UpTo(x) == {y \in S : y <= x}
           Initial(n) == \E I \in SUBSET S :
                            /\ Cardinality(I) = n
                            /\ \A x \in I, y \in S : y < x => y \in I
           Bad == {n \in Nat : n <= Cardinality(S) /\ ~Initial(n)}
<1>0. Cardinality(S) \in Nat
  BY FS_CardinalityType
<1>1. \A I \in SUBSET S : IsFiniteSet(I) /\ Cardinality(I) \in Nat
  BY FS_Subset, FS_CardinalityType
<1>2. \A n \in Nat : n < Cardinality(S) /\ Initial(n) =>
        Initial(n + 1) /\ \E x \in S : Cardinality(UpTo(x)) = n + 1
  <2> SUFFICES ASSUME NEW n \in Nat, n < Cardinality(S), Initial(n)
               PROVE  Initial(n + 1) /\ \E x \in S : Cardinality(UpTo(x)) = n + 1
    OBVIOUS
  <2>1. PICK I \in SUBSET S : /\ Cardinality(I) = n
                              /\ \A x \in I, y \in S : y < x => y \in I
    OBVIOUS
  <2>2. S \ I # {}
    <3>1. S \ I = {} => I = S
      OBVIOUS
    <3> QED
      BY <2>1, <3>1
  <2>3. PICK x \in S \ I : \A y \in S \ I : x <= y
    <3>1. S \ I \subseteq Nat
      OBVIOUS
    <3> QED
      BY <2>2, <3>1, LeastExists
  <2>4. UpTo(x) = I \cup {x}
    <3>1. ASSUME NEW y \in S, y <= x, y # x PROVE y \in I
      BY <2>3, <3>1
    <3>2. ASSUME NEW y \in I PROVE y <= x
      <4>1. ~(x < y) /\ x \in Nat /\ y \in Nat
        BY <2>1, <2>3
      <4> QED
        BY <4>1
    <3>3. x \in S /\ x <= x
      OBVIOUS
    <3> QED
      BY <3>1, <3>2, <3>3
  <2>5. IsFiniteSet(I \cup {x}) /\ Cardinality(I \cup {x}) = n + 1
    BY <1>1, <2>1, <2>3, FS_AddElement
  <2>6. \A z \in I \cup {x}, y \in S : y < z => y \in I \cup {x}
    <3>1. ASSUME NEW y \in S, y < x PROVE y \in UpTo(x)
      BY <3>1
    <3> QED
      BY <2>1, <2>4, <3>1
  <2>7. I \cup {x} \in SUBSET S
    BY <2>3
  <2>8. Initial(n + 1)
    BY <2>5, <2>6, <2>7
  <2> QED
    BY <2>3, <2>4, <2>5, <2>8
<1>3. Initial(0)
  <2>1. {} \in SUBSET S /\ Cardinality({}) = 0
    BY FS_EmptySet
  <2> QED
    BY <2>1
<1> HIDE DEF Initial, UpTo
<1>4. Bad = {}
  <2> SUFFICES ASSUME Bad # {} PROVE FALSE
    OBVIOUS
  <2>1. PICK n \in Bad : \A m \in Bad : n <= m
    BY LeastExists
  <2>2. n # 0
    BY <1>3
  <2>3. n - 1 \in Nat /\ n - 1 \notin Bad /\ n - 1 < Cardinality(S)
    BY <1>0, <2>1, <2>2
  <2>4. Initial(n - 1)
    BY <1>0, <2>3
  <2>5. Initial(n)
    BY <1>2, <2>3, <2>4
  <2> QED
    BY <2>1, <2>5
<1>5. Initial(k - 1) /\ k - 1 \in Nat /\ k - 1 < Cardinality(S) /\ (k - 1) + 1 = k
  BY <1>0, <1>4
<1> QED
  BY <1>2, <1>5 DEF UpTo

\* The numbers drawn for copies are in no use and differ.
LEMMA FreeNumbers ==
  ASSUME NEW list, Proper(list), NEW m \in Nat, Len(list) + m <= 2 * MaxCues
  PROVE  /\ \A k \in 1 .. m : Free(list, k) \in Numbers \ Taken(list)
         /\ \A j, k \in 1 .. m : Free(list, j) = Free(list, k) => j = k
<1> DEFINE S == Numbers \ Taken(list)
           Rank(q) == Cardinality({r \in S : r <= q})
<1>1. /\ Len(list) \in Nat /\ S \subseteq Nat /\ IsFiniteSet(Numbers) /\ MaxCues \in Nat
      /\ Cardinality(Numbers) \in Nat /\ Cardinality(Numbers) >= 2 * MaxCues
  BY OrderAssumption, FS_CardinalityType, LenProperties DEF Proper
<1>2. IsFiniteSet(S) /\ Cardinality(S) = Cardinality(Numbers) - Len(list)
  <2>1. Numbers \cap Taken(list) = Taken(list)
    BY TakenSize
  <2>2. /\ IsFiniteSet(S)
        /\ Cardinality(S) = Cardinality(Numbers) - Cardinality(Numbers \cap Taken(list))
    BY <1>1, FS_Difference
  <2>3. Cardinality(Taken(list)) = Len(list)
    BY TakenSize
  <2> QED
    BY <2>1, <2>2, <2>3
<1>3. \A k \in 1 .. m : k \in 1 .. Cardinality(S)
  BY <1>1, <1>2
<1>4. ASSUME NEW k \in 1 .. m PROVE Free(list, k) \in S /\ Rank(Free(list, k)) = k
  <2>1. \E q \in S : Rank(q) = k
    <3> HIDE DEF S
    <3> QED
      BY <1>1, <1>2, <1>3, RanksExist
  <2>2. Free(list, k) = CHOOSE q \in S : Rank(q) = k
    BY DEF Free
  <2> HIDE DEF S, Rank
  <2> QED
    BY <2>1, <2>2
<1> HIDE DEF Rank
<1> QED
  BY <1>4

-----------------------------------------------------------------------------
(* The edits *)

\* The invariant: the list is orderly, and what is selected is in it.
IndInv == Orderly(cues) /\ Len(cues) <= MaxCues /\ SelectionExists

\* A nudge keeps the list orderly.
LEMMA NudgedOrderly ==
  ASSUME NEW list, Orderly(list), NEW i \in Rows(list), NEW down \in BOOLEAN
  PROVE  /\ Orderly(Nudge(list, i, down))
         /\ Taken(Nudge(list, i, down)) = Taken(list)
         /\ Len(Nudge(list, i, down)) = Len(list)
<1> DEFINE n == Len(list)
<1>1. n \in Nat /\ list \in Seq(Cue) /\ i \in 1 .. n
  BY LenProperties DEF Orderly, Proper, Rows
<1>2. PICK e \in i .. n :
            /\ Span(list, i) = <<i, e>>
            /\ ~IsGroup(list[i]) => e = i
            /\ e < n /\ list[i].parent = NoCue => list[e + 1].parent = NoCue
  BY Blocks
<1> DEFINE next == IF down THEN e + 1 ELSE i - 1
           sibling == list[next].parent = list[i].parent /\ ~IsGroup(list[next])
           over == IF sibling THEN Span(list, next) ELSE EnclosingSpan(list, next)
           to == IF down THEN over[2] + 1 ELSE over[1]
           moved == MoveSpan(list, <<i, e>>, to)
<1>3. Nudge(list, i, down) = IF next \notin Rows(list) THEN list
                             ELSE IF ~sibling /\ list[i].parent # NoCue THEN list
                             ELSE moved
  BY <1>2 DEF Nudge
<1> SUFFICES ASSUME next \in Rows(list), sibling \/ list[i].parent = NoCue
             PROVE  /\ to \in 1 .. n + 1
                    /\ Orderly(moved)
  <2>1. to \in 1 .. n + 1 => Taken(moved) = Taken(list) /\ Len(moved) = n
    <3> HIDE DEF to
    <3> QED
      BY <1>1, <1>2, MoveKeepsNumbers
  <2> HIDE DEF moved, next, sibling, to
  <2> QED
    BY <1>1, <1>3, <2>1
<1>4. next \in 1 .. n /\ next # i
  BY <1>1, <1>2 DEF Rows
<1>5. CASE sibling
  <2>1. over = <<next, next>>
    BY <1>5 DEF Span
  <2>2. to = IF down THEN next + 1 ELSE next
    BY <2>1
  <2>3. to \in 1 .. n + 1
    BY <1>1, <1>4, <2>2
  <2>4. CASE list[i].parent = NoCue
    <3>1. list[next].parent = NoCue
      BY <1>5, <2>4
    <3>2. next < n => list[next + 1].parent = NoCue
      <4>1. PICK x \in next .. n :
              /\ ~IsGroup(list[next]) => x = next
              /\ x < n /\ list[next].parent = NoCue => list[x + 1].parent = NoCue
        BY <1>4, Blocks DEF Rows
      <4> QED
        BY <1>5, <3>1, <4>1
    <3>3. to <= n => list[to].parent = NoCue
      BY <1>1, <1>4, <2>2, <3>1, <3>2
    <3> HIDE DEF to
    <3> QED
      BY <1>1, <1>2, <2>3, <2>4, <3>3, BlockMoved
  <2>5. CASE list[i].parent # NoCue
    <3> DEFINE p == list[i].parent
               before == IF to \in i .. i + 1 THEN i - 1 ELSE to - 1
               after == IF to \in i .. i + 1 THEN i + 1 ELSE to
    <3>1. ~IsGroup(list[i]) /\ e = i
      BY <1>1, <1>2, <2>5 DEF Orderly, Proper, Placed, Rows
    <3>2. Regrouped(list, i, p) = list /\ p \in Numbers \union {NoCue}
      <4>1. list[i] \in [q : Numbers, kind : {"Cue", "Group"}, parent : Numbers \union {NoCue},
                         trigger : Triggers]
        <5>1. list[i] \in Cue
          BY <1>1
        <5> QED
          BY <5>1 DEF Cue
      <4>2. [list[i] EXCEPT !.parent = p] = list[i]
        BY <4>1
      <4> QED
        BY <1>1, <4>1, <4>2 DEF Regrouped
    <3>3. before = to - 1 /\ after = to /\ after \in 1 .. n + 1
      BY <1>1, <1>4, <2>2, <3>1
    <3>4. before >= 1 /\ (p = list[before].parent \/ (IsGroup(list[before]) /\ p = list[before].q))
      <4>1. CASE down
        <5>1. before = next /\ list[next].parent = p
          <6>1. to = next + 1
            BY <2>2, <4>1
          <6> HIDE DEF to, before, next
          <6> QED
            BY <1>4, <1>5, <3>3, <6>1
        <5>2. next >= 1
          BY <1>4
        <5> HIDE DEF before, next, p
        <5> QED
          BY <5>1, <5>2
      <4>2. CASE ~down
        <5>1. before = next - 1 /\ list[next].parent = p
          BY <1>5, <2>2, <3>3, <4>2
        <5>2. next # 1
          BY <1>1, <1>4, <2>5, <5>1, EmptySeq DEF Orderly
        <5>3. Follows(list[next - 1], list[next])
          BY <1>1, <1>4, <5>2 DEF Orderly
        <5>4. next - 1 >= 1 /\ p # NoCue
          BY <1>1, <1>4, <2>5, <5>2
        <5> HIDE DEF before, next, p
        <5> QED
          BY <5>1, <5>3, <5>4 DEF Follows
      <4> QED
        BY <4>1, <4>2
    <3>5. after <= n => list[after].parent \in {NoCue, p}
      <4>1. CASE down
        <5>1. after = next + 1
          BY <2>2, <3>3, <4>1
        <5>2. next < n => list[next + 1].parent \in {NoCue, list[next].parent}
          BY <1>1, <1>4, <1>5, RowSkipped
        <5> QED
          BY <1>1, <1>4, <1>5, <5>1, <5>2
      <4>2. CASE ~down
        BY <1>5, <2>2, <3>3, <4>2
      <4> QED
        BY <4>1, <4>2
    <3> HIDE DEF p, before, after, to
    <3>6. Orderly(MoveSpan(Regrouped(list, i, p), <<i, i>>, to))
      BY <2>3, <3>1, <3>2, <3>4, <3>5, RowMoved DEF before, after
    <3> QED
      BY <2>3, <3>1, <3>2, <3>6
  <2> QED
    BY <2>4, <2>5
<1>6. CASE ~sibling
  <2>1. PICK h \in 1 .. next, x \in next .. n :
            /\ EnclosingSpan(list, next) = <<h, x>>
            /\ list[h].parent = NoCue
            /\ x < n => list[x + 1].parent = NoCue
    BY Enclosings
  <2>2. to = IF down THEN x + 1 ELSE h
    BY <1>6, <2>1
  <2>3. to \in 1 .. n + 1 /\ (to <= n => list[to].parent = NoCue)
    <3> HIDE DEF to, next
    <3>1. h \in 1 .. n /\ x + 1 \in 1 .. n + 1 /\ (x + 1 <= n => x < n)
      BY <1>1, <1>4, <2>1
    <3>2. CASE down
      BY <2>1, <2>2, <3>1, <3>2
    <3>3. CASE ~down
      <4>1. h \in 1 .. n + 1
        BY <1>1, <3>1
      <4> QED
        BY <2>1, <2>2, <3>3, <4>1
    <3> QED
      BY <3>2, <3>3
  <2> HIDE DEF to
  <2> QED
    BY <1>1, <1>2, <1>6, <2>3, BlockMoved
<1> QED
  BY <1>5, <1>6

\* What a state of the invariant gives every edit.
LEMMA InvFacts ==
  IndInv => /\ Orderly(cues) /\ Proper(cues) /\ cues \in Seq(Cue)
            /\ Len(cues) \in Nat /\ Len(cues) <= MaxCues /\ MaxCues \in Nat
            /\ Rows(cues) = 1 .. Len(cues)
            /\ SelectionExists
  BY OrderAssumption, LenProperties DEF IndInv, Orderly, Proper, Rows

\* A move that takes no number with it keeps what is selected in the list.
LEMMA MovedInv ==
  ASSUME IndInv, Orderly(cues'), Taken(cues') = Taken(cues), Len(cues') = Len(cues),
         selected' = selected
  PROVE  IndInv'
  BY DEF IndInv, SelectionExists

\* A click selects a row of the list.
LEMMA SelectInv == IndInv /\ SelectCue => IndInv'
<1> SUFFICES ASSUME IndInv, SelectCue PROVE IndInv'
  OBVIOUS
<1> QED
  BY DEF SelectCue, IndInv, SelectionExists

\* A nudge keeps the invariant.
LEMMA NudgeInv == IndInv /\ MoveCueUpOrDown => IndInv'
<1> SUFFICES ASSUME IndInv, MoveCueUpOrDown PROVE IndInv'
  OBVIOUS
<1>1. PICK i \in Rows(cues), down \in BOOLEAN : cues' = Nudge(cues, i, down)
  BY DEF MoveCueUpOrDown
<1>2. Orderly(cues') /\ Taken(cues') = Taken(cues) /\ Len(cues') = Len(cues)
  BY <1>1, InvFacts, NudgedOrderly
<1> QED
  BY <1>2, MovedInv DEF MoveCueUpOrDown

\* A block that is deleted leaves rows that follow each other, and a selection.
LEMMA DeleteInv == IndInv /\ DeleteCue => IndInv'
<1> SUFFICES ASSUME IndInv, DeleteCue PROVE IndInv'
  OBVIOUS
<1> DEFINE n == Len(cues)
<1>1. PICK i \in Rows(cues) : /\ selected' = SelectionAfterRemoval(cues, Span(cues, i))
                              /\ cues' = RemoveSpan(cues, Span(cues, i))
  BY DEF DeleteCue
<1>2. /\ Orderly(cues) /\ cues \in Seq(Cue) /\ n \in Nat /\ n <= MaxCues /\ MaxCues \in Nat
      /\ i \in 1 .. n /\ cues[1].parent = NoCue
      /\ \A j \in 2 .. n : Follows(cues[j - 1], cues[j])
  <2>1. cues # <<>>
    BY <1>1, InvFacts, EmptySeq
  <2> QED
    BY <1>1, <2>1, InvFacts DEF Orderly
<1>3. PICK e \in i .. n :
            /\ Span(cues, i) = <<i, e>>
            /\ ~IsGroup(cues[i]) => e = i
            /\ e < n /\ cues[i].parent = NoCue => cues[e + 1].parent = NoCue
  BY <1>2, Blocks
<1>4. Orderly(cues')
  <2>1. i = 1 /\ e < n => cues[e + 1].parent = NoCue
    BY <1>2, <1>3
  <2>2. ASSUME i > 1, e < n PROVE Follows(cues[i - 1], cues[e + 1])
    <3>1. CASE IsGroup(cues[i])
      <4>1. cues[i].parent = NoCue
        BY <1>1, <1>2, <3>1 DEF Orderly, Proper, Placed
      <4> QED
        BY <1>3, <2>2, <4>1 DEF Follows
    <3>2. CASE ~IsGroup(cues[i])
      <4>1. e = i /\ i \in 1 .. n - 1
        BY <1>2, <1>3, <2>2, <3>2
      <4> QED
        BY <1>2, <2>2, <3>2, <4>1, RowSkipped
    <3> QED
      BY <3>1, <3>2
  <2> QED
    BY <1>1, <1>2, <1>3, <2>1, <2>2, RemovedOrderly
<1>5. /\ Len(cues') = n - (e - i + 1)
      /\ \A j \in 1 .. n - (e - i + 1) :
            cues'[j] = IF j < i THEN cues[j] ELSE cues[j + (e - i + 1)]
  <2>1. cues' = RemoveSpan(cues, <<i, e>>)
    BY <1>1, <1>3
  <2> QED
    BY <1>2, <1>3, <2>1, RemovedRows
<1>6. SelectionExists'
  <2>1. CASE e < n
    <3>1. selected' = cues[e + 1].q
      BY <1>1, <1>3, <2>1 DEF SelectionAfterRemoval
    <3>2. i \in 1 .. n - (e - i + 1) /\ i + (e - i + 1) = e + 1 /\ ~(i < i)
      BY <1>2, <1>3, <2>1
    <3>3. cues'[i] = cues[e + 1] /\ i \in Rows(cues')
      BY <1>5, <3>2 DEF Rows
    <3> QED
      BY <3>1, <3>3 DEF SelectionExists, Taken
  <2>2. CASE ~(e < n) /\ i > 1
    <3>1. selected' = cues[i - 1].q
      BY <1>1, <1>3, <2>2 DEF SelectionAfterRemoval
    <3>2. i - 1 \in 1 .. n - (e - i + 1) /\ i - 1 < i
      BY <1>2, <1>3, <2>2
    <3>3. cues'[i - 1] = cues[i - 1] /\ i - 1 \in Rows(cues')
      BY <1>5, <3>2 DEF Rows
    <3> QED
      BY <3>1, <3>3 DEF SelectionExists, Taken
  <2>3. CASE ~(e < n) /\ ~(i > 1)
    <3>1. selected' = NoCue
      BY <1>1, <1>3, <2>3 DEF SelectionAfterRemoval
    <3> QED
      BY <3>1 DEF SelectionExists
  <2> QED
    BY <2>1, <2>2, <2>3
<1>7. Len(cues') <= MaxCues
  BY <1>2, <1>3, <1>5
<1> QED
  BY <1>4, <1>6, <1>7 DEF IndInv

\* A list keeps its numbers when a row changes its parent.
LEMMA ParentChanged ==
  ASSUME NEW list \in Seq(Cue), NEW i \in Rows(list), NEW p \in Numbers \union {NoCue}
  PROVE  /\ Regrouped(list, i, p) \in Seq(Cue)
         /\ Rows(Regrouped(list, i, p)) = Rows(list)
         /\ Len(Regrouped(list, i, p)) = Len(list)
         /\ Taken(Regrouped(list, i, p)) = Taken(list)
         /\ p = list[i].parent => Regrouped(list, i, p) = list
<1> DEFINE new == Regrouped(list, i, p)
           row == [list[i] EXCEPT !.parent = p]
<1>1. Len(list) \in Nat /\ i \in 1 .. Len(list) /\ list[i] \in Cue
  BY LenProperties DEF Rows
<1>2. list[i] \in [q : Numbers, kind : {"Cue", "Group"}, parent : Numbers \union {NoCue},
                   trigger : Triggers]
  BY <1>1 DEF Cue
<1>3. row \in Cue /\ row.q = list[i].q /\ (p = list[i].parent => row = list[i])
  BY <1>2 DEF Cue
<1>4. new = [list EXCEPT ![i] = row]
  BY <1>1 DEF Regrouped
<1> HIDE DEF row
<1>5. /\ new \in Seq(Cue) /\ Len(new) = Len(list)
      /\ \A j \in 1 .. Len(list) : new[j] = IF j = i THEN row ELSE list[j]
  BY <1>1, <1>3, <1>4, ExceptSeq
<1>6. p = list[i].parent => new = list
  BY <1>1, <1>3, <1>4
<1> HIDE DEF new
<1>7. \A j \in 1 .. Len(list) : new[j].q = list[j].q
  BY <1>3, <1>5
<1>8. Taken(new) = Taken(list)
  BY <1>5, <1>7 DEF Taken, Rows
<1> QED
  BY <1>5, <1>6, <1>8 DEF new, Rows

\* The invariant holds after a row that is no group was moved where it may be.
LEMMA RowMovedInv ==
  ASSUME IndInv, selected' = selected,
         NEW i \in Rows(cues), ~IsGroup(cues[i]),
         NEW to \in 1 .. Len(cues) + 1, NEW p \in Numbers \union {NoCue},
         cues' = MoveSpan(Regrouped(cues, i, p), <<i, i>>, to),
         NEW before, before = IF to \in i .. i + 1 THEN i - 1 ELSE to - 1,
         NEW after, after = IF to \in i .. i + 1 THEN i + 1 ELSE to,
         p = NoCue \/ (before >= 1 /\ (p = cues[before].parent
                                        \/ (IsGroup(cues[before]) /\ p = cues[before].q))),
         after <= Len(cues) => cues[after].parent \in {NoCue, p}
  PROVE  IndInv'
<1> DEFINE new == Regrouped(cues, i, p)
<1>1. /\ new \in Seq(Cue) /\ Rows(new) = Rows(cues) /\ Len(new) = Len(cues)
      /\ Taken(new) = Taken(cues)
  <2>1. cues \in Seq(Cue)
    BY InvFacts
  <2> QED
    BY <2>1, ParentChanged
<1>2. Orderly(cues')
  BY InvFacts, RowMoved
<1> HIDE DEF new
<1>3. i \in Rows(new) /\ i \in i .. Len(new) /\ to \in 1 .. Len(new) + 1
  BY <1>1, InvFacts
<1>4. /\ Taken(MoveSpan(new, <<i, i>>, to)) = Taken(new)
      /\ Len(MoveSpan(new, <<i, i>>, to)) = Len(new)
  BY <1>1, <1>3, MoveKeepsNumbers
<1>5. Taken(cues') = Taken(cues) /\ Len(cues') = Len(cues)
  BY <1>1, <1>4 DEF new
<1> QED
  BY <1>2, <1>5, MovedInv

\* A freed member steps past the whole group, where a row at top level may be.
LEMMA UngroupInv == IndInv /\ UngroupCue => IndInv'
<1> SUFFICES ASSUME IndInv, UngroupCue PROVE IndInv'
  OBVIOUS
<1> DEFINE n == Len(cues)
<1>1. PICK i \in Rows(cues) :
            /\ cues[i].parent # NoCue
            /\ cues' = MoveSpan(Regrouped(cues, i, NoCue), <<i, i>>,
                                EnclosingSpan(cues, i)[2] + 1)
  BY DEF UngroupCue, Regrouped
<1>2. Orderly(cues) /\ n \in Nat /\ i \in 1 .. n
  BY <1>1, InvFacts
<1>3. PICK h \in 1 .. i, e \in i .. n :
            /\ EnclosingSpan(cues, i) = <<h, e>>
            /\ e < n => cues[e + 1].parent = NoCue
  BY <1>2, Enclosings
<1> DEFINE to == e + 1
           before == IF to \in i .. i + 1 THEN i - 1 ELSE to - 1
           after == IF to \in i .. i + 1 THEN i + 1 ELSE to
<1>4. ~IsGroup(cues[i])
  BY <1>1, <1>2 DEF Orderly, Proper, Placed
<1>5. to \in 1 .. n + 1 /\ after = to
  BY <1>2, <1>3
<1>6. after <= n => cues[after].parent \in {NoCue, NoCue}
  BY <1>2, <1>3, <1>5
<1>7. cues' = MoveSpan(Regrouped(cues, i, NoCue), <<i, i>>, to)
  BY <1>1, <1>3
<1>8. selected' = selected /\ NoCue \in Numbers \union {NoCue}
  BY DEF UngroupCue
<1>9. /\ before = IF to \in i .. i + 1 THEN i - 1 ELSE to - 1
      /\ after = IF to \in i .. i + 1 THEN i + 1 ELSE to
  OBVIOUS
<1> HIDE DEF to, before, after
<1> QED
  BY <1>4, <1>5, <1>6, <1>7, <1>8, <1>9, RowMovedInv

\* A group that is dropped lands on the boundary of a block.
LEMMA DropGroupInv ==
  ASSUME IndInv, selected' = selected, NEW i \in Rows(cues), IsGroup(cues[i]),
         NEW to \in 1 .. Len(cues) + 1, NEW group, MoveCue(i, to, group)
  PROVE  IndInv'
<1> DEFINE n == Len(cues)
           at == IF to <= n THEN EnclosingSpan(cues, to)[1] ELSE to
<1>1. Orderly(cues) /\ cues \in Seq(Cue) /\ n \in Nat /\ Rows(cues) = 1 .. n /\ i \in 1 .. n
  BY InvFacts
<1>2. PICK e \in i .. n :
            /\ Span(cues, i) = <<i, e>>
            /\ e < n /\ cues[i].parent = NoCue => cues[e + 1].parent = NoCue
  BY <1>1, Blocks
<1>3. cues[i].parent = NoCue
  BY <1>1 DEF Orderly, Proper, Placed
<1>4. Regrouped(cues, i, NoCue) = cues
  <2>1. NoCue \in Numbers \union {NoCue}
    OBVIOUS
  <2> QED
    BY <1>1, <1>3, <2>1, ParentChanged
<1>5. cues' = MoveSpan(cues, <<i, e>>, at)
  BY <1>2, <1>4 DEF MoveCue, Regrouped
<1>6. at \in 1 .. n + 1 /\ (at <= n => cues[at].parent = NoCue)
  <2>1. CASE to <= n
    <3>1. PICK h \in 1 .. to, x \in to .. n :
             EnclosingSpan(cues, to) = <<h, x>> /\ cues[h].parent = NoCue
      <4>1. to \in Rows(cues)
        BY <1>1, <2>1
      <4> QED
        BY <1>1, <4>1, Enclosings
    <3>2. at = h
      BY <2>1, <3>1
    <3> HIDE DEF at
    <3> QED
      BY <1>1, <2>1, <3>1, <3>2
  <2>2. CASE ~(to <= n)
    BY <1>1, <2>2
  <2> QED
    BY <2>1, <2>2
<1> HIDE DEF at
<1>7. Orderly(cues')
  BY <1>1, <1>2, <1>3, <1>5, <1>6, BlockMoved
<1>8. Taken(cues') = Taken(cues) /\ Len(cues') = Len(cues)
  BY <1>1, <1>2, <1>5, <1>6, MoveKeepsNumbers
<1> QED
  BY <1>7, <1>8, MovedInv

\* A cue that is dropped on a group is its first member.
LEMMA DropOnGroupInv ==
  ASSUME IndInv, selected' = selected, NEW i \in Rows(cues), ~IsGroup(cues[i]),
         NEW row \in Rows(cues) \ {i}, IsGroup(cues[row]), MoveCue(i, row + 1, cues[row].q)
  PROVE  IndInv'
<1> DEFINE n == Len(cues)
           to == row + 1
           p == cues[row].q
           before == IF to \in i .. i + 1 THEN i - 1 ELSE to - 1
           after == IF to \in i .. i + 1 THEN i + 1 ELSE to
<1>1. /\ Orderly(cues) /\ cues \in Seq(Cue) /\ n \in Nat /\ Rows(cues) = 1 .. n
      /\ i \in 1 .. n /\ row \in 1 .. n /\ row # i
      /\ \A j \in 2 .. n : Follows(cues[j - 1], cues[j])
  BY InvFacts DEF Orderly
<1>2. p # cues[i].q /\ cues[row].parent = NoCue
  BY <1>1 DEF Orderly, Proper, Placed
<1>3. p \in Numbers \union {NoCue}
  <2>1. cues[row] \in Cue
    BY <1>1
  <2> QED
    BY <2>1 DEF Cue
<1>4. Span(cues, i) = <<i, i>>
  BY DEF Span
<1>5. cues' = MoveSpan(Regrouped(cues, i, p), <<i, i>>, to)
  BY <1>2, <1>4 DEF MoveCue, Regrouped
<1>6. before = row
  BY <1>1
<1>7. row < n => cues[row + 1].parent \in {NoCue, p}
  <2>1. row < n => row + 1 \in 2 .. n /\ (row + 1) - 1 = row
    BY <1>1
  <2>2. row < n => Follows(cues[row], cues[row + 1])
    BY <1>1, <2>1
  <2> QED
    BY <1>2, <2>2 DEF Follows
<1>8. ASSUME after <= n PROVE cues[after].parent \in {NoCue, p}
  <2>1. CASE to \in i .. i + 1
    <3>1. i = row + 1 /\ after = i + 1 /\ i \in 1 .. n - 1
      BY <1>1, <1>8, <2>1
    <3>2. cues[i].parent \in {NoCue, p}
      BY <1>1, <1>7, <3>1
    <3>3. cues[i + 1].parent \in {NoCue, cues[i].parent}
      BY <1>1, <3>1, RowSkipped
    <3> HIDE DEF after, to, p
    <3> QED
      BY <3>1, <3>2, <3>3
  <2>2. CASE ~(to \in i .. i + 1)
    BY <1>1, <1>7, <1>8, <2>2
  <2> QED
    BY <2>1, <2>2
<1>9. /\ before = IF to \in i .. i + 1 THEN i - 1 ELSE to - 1
      /\ after = IF to \in i .. i + 1 THEN i + 1 ELSE to
      /\ to \in 1 .. n + 1
  BY <1>1
<1>10. before >= 1 /\ IsGroup(cues[before]) /\ p = cues[before].q
  BY <1>1, <1>6
<1> HIDE DEF to, before, after, p
<1> QED
  BY <1>1, <1>3, <1>5, <1>8, <1>9, <1>10, RowMovedInv

\* A cue that is dropped on another one comes before it, in its group.
LEMMA DropOnCueInv ==
  ASSUME IndInv, selected' = selected, NEW i \in Rows(cues), ~IsGroup(cues[i]),
         NEW row \in Rows(cues) \ {i}, ~IsGroup(cues[row]), MoveCue(i, row, cues[row].parent)
  PROVE  IndInv'
<1> DEFINE n == Len(cues)
           p == cues[row].parent
           before == IF row \in i .. i + 1 THEN i - 1 ELSE row - 1
           after == IF row \in i .. i + 1 THEN i + 1 ELSE row
<1>1. /\ Orderly(cues) /\ cues \in Seq(Cue) /\ n \in Nat /\ Rows(cues) = 1 .. n
      /\ i \in 1 .. n /\ row \in 1 .. n /\ row # i /\ cues[1].parent = NoCue
      /\ \A j \in 2 .. n : Follows(cues[j - 1], cues[j])
  <2>1. cues # <<>>
    BY InvFacts, EmptySeq
  <2> QED
    BY <2>1, InvFacts DEF Orderly
<1>2. p \in Numbers \union {NoCue} /\ cues[i].q # NoCue
  <2>1. cues[row] \in Cue /\ cues[i] \in Cue
    BY <1>1
  <2> QED
    BY <2>1, OrderAssumption DEF Cue
<1>3. p # cues[i].q
  <2> SUFFICES ASSUME p = cues[i].q PROVE FALSE
    OBVIOUS
  <2>1. PICK h \in 1 .. row - 1 : IsGroup(cues[h]) /\ cues[h].q = cues[row].parent
    BY <1>1, <1>2, Headed
  <2>2. h = i
    BY <1>1, <2>1 DEF Orderly, Proper
  <2> QED
    BY <2>1, <2>2
<1>4. cues' = MoveSpan(Regrouped(cues, i, p), <<i, i>>, row)
  <2>1. Span(cues, i) = <<i, i>>
    BY DEF Span
  <2> QED
    BY <1>3, <2>1 DEF MoveCue, Regrouped
<1>5. after = row
  BY <1>1
<1>6. ASSUME p # NoCue
      PROVE  before >= 1 /\ (p = cues[before].parent
                              \/ (IsGroup(cues[before]) /\ p = cues[before].q))
  <2>1. row > 1 /\ Follows(cues[row - 1], cues[row])
    BY <1>1, <1>6
  <2>2. CASE row = i + 1
    <3>1. i \in 1 .. n - 1 /\ before = i - 1
      BY <1>1, <2>2
    <3>2. cues[i].parent = p
      BY <1>1, <1>6, <2>2, <3>1, RowSkipped
    <3>3. i > 1 /\ Follows(cues[i - 1], cues[i])
      BY <1>1, <1>6, <3>2
    <3> HIDE DEF before, p
    <3> QED
      BY <1>1, <1>6, <3>1, <3>2, <3>3 DEF Follows
  <2>3. CASE row # i + 1
    <3>1. before = row - 1
      BY <1>1, <2>3
    <3> HIDE DEF before
    <3> QED
      BY <1>1, <1>6, <2>1, <3>1 DEF Follows
  <2> QED
    BY <2>2, <2>3
<1>7. after <= n => cues[after].parent \in {NoCue, p}
  BY <1>5
<1>8. /\ before = IF row \in i .. i + 1 THEN i - 1 ELSE row - 1
      /\ after = IF row \in i .. i + 1 THEN i + 1 ELSE row
      /\ row \in 1 .. n + 1
  BY <1>1
<1> HIDE DEF before, after, p
<1> QED
  BY <1>1, <1>2, <1>4, <1>6, <1>7, <1>8, RowMovedInv

\* A cue that is dropped at the end of the list is in no group.
LEMMA DropAtEndInv ==
  ASSUME IndInv, selected' = selected, NEW i \in Rows(cues), ~IsGroup(cues[i]),
         MoveCue(i, Len(cues) + 1, NoCue)
  PROVE  IndInv'
<1> DEFINE n == Len(cues)
           to == n + 1
           before == IF to \in i .. i + 1 THEN i - 1 ELSE to - 1
           after == IF to \in i .. i + 1 THEN i + 1 ELSE to
<1>1. n \in Nat /\ i \in 1 .. n
  BY InvFacts
<1>2. cues' = MoveSpan(Regrouped(cues, i, NoCue), <<i, i>>, to)
  BY DEF MoveCue, Span, Regrouped
<1>3. ~(after <= n)
  BY <1>1
<1>4. /\ before = IF to \in i .. i + 1 THEN i - 1 ELSE to - 1
      /\ after = IF to \in i .. i + 1 THEN i + 1 ELSE to
      /\ to \in 1 .. n + 1 /\ NoCue \in Numbers \union {NoCue}
  BY <1>1
<1> HIDE DEF to, before, after
<1> QED
  BY <1>2, <1>3, <1>4, RowMovedInv

\* Wherever a row is dropped, the invariant holds after it.
LEMMA DropInv == IndInv /\ Drop => IndInv'
<1> SUFFICES ASSUME IndInv, Drop PROVE IndInv'
  OBVIOUS
<1>1. PICK i \in Rows(cues) :
          \/ \E row \in Rows(cues) \ {i} :
                IF IsGroup(cues[row]) THEN MoveCue(i, row + 1, cues[row].q)
                ELSE MoveCue(i, row, cues[row].parent)
          \/ MoveCue(i, Len(cues) + 1, NoCue)
  BY DEF Drop
<1>2. selected' = selected /\ Len(cues) \in Nat /\ Rows(cues) = 1 .. Len(cues)
  BY InvFacts DEF Drop
<1>3. CASE IsGroup(cues[i])
  <2>1. \E to \in 1 .. Len(cues) + 1, group \in {cues[k].q : k \in Rows(cues)} \union
                                                {cues[k].parent : k \in Rows(cues)} \union {NoCue} :
           MoveCue(i, to, group)
    <3>1. Len(cues) + 1 \in 1 .. Len(cues) + 1
          /\ \A row \in Rows(cues) : row \in 1 .. Len(cues) + 1 /\ row + 1 \in 1 .. Len(cues) + 1
      BY <1>2
    <3> QED
      BY <1>1, <3>1
  <2> QED
    BY <1>2, <1>3, <2>1, DropGroupInv
<1>4. CASE ~IsGroup(cues[i])
  BY <1>1, <1>2, <1>4, DropOnGroupInv, DropOnCueInv, DropAtEndInv
<1> QED
  BY <1>3, <1>4

\* The invariant holds after rows that fit were put in and one was selected.
LEMMA InsertInv ==
  ASSUME IndInv, NEW at \in 1 .. Len(cues) + 1,
         NEW block, Proper(block), block # <<>>, Len(cues) + Len(block) <= MaxCues,
         \A j \in 1 .. Len(block) : block[j].q \notin Taken(cues),
         \A j \in 2 .. Len(block) : Follows(block[j - 1], block[j]),
         at = 1 => block[1].parent = NoCue,
         at > 1 => Follows(cues[at - 1], block[1]),
         at <= Len(cues) => Follows(block[Len(block)], cues[at]),
         cues' = InsertAt(cues, at, block), selected' = block[1].q
  PROVE  IndInv'
<1>1. Orderly(cues) /\ cues \in Seq(Cue) /\ Len(cues) \in Nat
  BY InvFacts
<1>2. block \in Seq(Cue) /\ Len(block) \in Nat /\ Len(block) > 0
  BY LenProperties, EmptySeq DEF Proper
<1>3. Orderly(cues')
  BY <1>1, InsertedOrderly
<1>4. /\ Len(cues') = Len(cues) + Len(block)
      /\ \A j \in 1 .. Len(cues) + Len(block) :
            cues'[j] = IF j < at THEN cues[j]
                       ELSE IF j < at + Len(block) THEN block[j - at + 1]
                       ELSE cues[j - Len(block)]
  <2> DEFINE whole == InsertAt(cues, at, block)
  <2>1. /\ Len(whole) = Len(cues) + Len(block)
        /\ \A j \in 1 .. Len(cues) + Len(block) :
              whole[j] = IF j < at THEN cues[j]
                         ELSE IF j < at + Len(block) THEN block[j - at + 1]
                         ELSE cues[j - Len(block)]
    BY <1>1, <1>2, InsertedRows
  <2>2. cues' = whole
    OBVIOUS
  <2> HIDE DEF whole
  <2> QED
    BY <2>1, <2>2
<1>5. selected' \in Taken(cues')
  <2>1. /\ at \in 1 .. Len(cues) + Len(block) /\ ~(at < at) /\ at < at + Len(block)
        /\ at - at + 1 = 1
    BY <1>1, <1>2
  <2>2. cues'[at] = block[1] /\ at \in Rows(cues')
    BY <1>4, <2>1 DEF Rows
  <2> QED
    BY <2>2 DEF Taken
<1> QED
  BY <1>3, <1>4, <1>5 DEF IndInv, SelectionExists

\* The cue that is selected is in one row.
LEMMA IndexIsRow ==
  ASSUME NEW list, NEW q \in Taken(list)
  PROVE  Index(list, q) \in Rows(list) /\ list[Index(list, q)].q = q
<1>1. \E i \in Rows(list) : list[i].q = q
  BY DEF Taken
<1> QED
  BY <1>1 DEF Index

\* A cue is added behind what is selected, into its group; a group only between
\* blocks.
LEMMA AddInv ==
  ASSUME MayNest = FALSE
  PROVE  IndInv /\ AddCue => IndInv'
<1> SUFFICES ASSUME IndInv, AddCue PROVE IndInv'
  OBVIOUS
<1> DEFINE n == Len(cues)
           place == Insertion(cues, selected)
           Row(kind) == [q |-> Free(cues, 1), kind |-> kind, parent |-> place.parent,
                         trigger |-> "Go"]
<1>1. PICK kind \in {"Cue", "Group"} :
            /\ kind = "Group" => place.parent = NoCue
            /\ cues' = InsertAt(cues, place.at, <<Row(kind)>>)
  BY DEF AddCue
<1> DEFINE new == Row(kind)
<1>2. /\ Orderly(cues) /\ Proper(cues) /\ cues \in Seq(Cue) /\ n \in Nat /\ n < MaxCues
      /\ MaxCues \in Nat /\ Rows(cues) = 1 .. n
  BY InvFacts DEF AddCue
<1>3. Free(cues, 1) \in Numbers \ Taken(cues)
  <2>1. 1 \in Nat /\ n + 1 <= 2 * MaxCues /\ 1 \in 1 .. 1
    BY <1>2
  <2> QED
    BY <1>2, <2>1, FreeNumbers
<1>4. /\ place.at \in 1 .. n + 1 /\ place.parent \in Numbers \union {NoCue}
      /\ place.at = 1 => place.parent = NoCue
      /\ place.at > 1 => \/ place.parent = NoCue
                         \/ place.parent = cues[place.at - 1].parent
                         \/ IsGroup(cues[place.at - 1]) /\ place.parent = cues[place.at - 1].q
      /\ place.at <= n => cues[place.at].parent \in {NoCue, place.parent}
  <2>1. CASE selected \notin Taken(cues)
    <3>1. place = [at |-> n + 1, parent |-> NoCue]
      BY <2>1 DEF Insertion
    <3> HIDE DEF place
    <3> QED
      BY <1>2, <3>1
  <2>2. CASE selected \in Taken(cues)
    <3> DEFINE i == Index(cues, selected)
    <3>1. i \in 1 .. n /\ cues[i].q = selected
      BY <1>2, <2>2, IndexIsRow
    <3> HIDE DEF i
    <3>2. place = [at |-> i + 1,
                   parent |-> IF IsGroup(cues[i]) THEN cues[i].q ELSE cues[i].parent]
      BY <2>2, <3>1 DEF Insertion, i
    <3>3. cues[i].q \in Numbers /\ cues[i].parent \in Numbers \union {NoCue}
      <4>1. cues[i] \in Cue
        BY <1>2, <3>1
      <4> QED
        BY <4>1 DEF Cue
    <3>4. i < n => cues[i + 1].parent \in {NoCue, place.parent}
      <4>1. CASE IsGroup(cues[i])
        <5>1. i < n => i + 1 \in 2 .. n /\ (i + 1) - 1 = i
          BY <1>2, <3>1
        <5>2. i < n => Follows(cues[i], cues[i + 1])
          BY <1>2, <5>1 DEF Orderly
        <5>3. cues[i].parent = NoCue
          BY <1>2, <3>1, <4>1 DEF Proper, Placed
        <5> QED
          BY <3>2, <4>1, <5>2, <5>3 DEF Follows
      <4>2. CASE ~IsGroup(cues[i])
        <5>1. i < n => i \in 1 .. n - 1
          BY <1>2, <3>1
        <5> QED
          BY <1>2, <3>2, <4>2, <5>1, RowSkipped
      <4> QED
        BY <4>1, <4>2
    <3>5. place.at = i + 1 /\ place.at - 1 = i
      BY <3>1, <3>2
    <3>6. \/ place.parent = cues[i].parent
          \/ IsGroup(cues[i]) /\ place.parent = cues[i].q
      BY <3>2
    <3>7. place.parent \in Numbers \union {NoCue}
      BY <3>2, <3>3
    <3> HIDE DEF place
    <3> QED
      BY <1>2, <3>1, <3>4, <3>5, <3>6, <3>7
  <2> QED
    BY <2>1, <2>2
<1> DEFINE at == place.at
           parent == place.parent
<1> HIDE DEF place
<1>5. new \in Cue /\ new.q = Free(cues, 1) /\ new.parent = parent /\ Placed(new)
  BY <1>1, <1>3, <1>4 DEF Cue, Placed, IsGroup, Triggers
<1> HIDE DEF Row, at, parent
<1>6. /\ <<new>> \in Seq(Cue) /\ Len(<<new>>) = 1 /\ <<new>>[1] = new /\ <<new>> # <<>>
      /\ Proper(<<new>>)
  <2>1. <<new>> \in Seq(Cue) /\ Len(<<new>>) = 1 /\ <<new>>[1] = new /\ <<new>> # <<>>
    BY <1>5
  <2> QED
    BY <1>5, <2>1 DEF Proper, Rows
<1>7. at > 1 => Follows(cues[at - 1], new)
  BY <1>4, <1>5 DEF Follows, at, parent
<1>8. at <= n => Follows(new, cues[at])
  BY <1>4, <1>5 DEF Follows, at, parent
<1>9. at \in 1 .. n + 1 /\ (at = 1 => new.parent = NoCue)
  BY <1>4, <1>5 DEF at, parent
<1>10. cues' = InsertAt(cues, at, <<new>>) /\ selected' = new.q
  BY <1>1, <1>5 DEF at, AddCue
<1> DEFINE block == <<new>>
<1>11. /\ n + Len(block) <= MaxCues
       /\ \A j \in 1 .. Len(block) : block[j].q \notin Taken(cues)
       /\ \A j \in 2 .. Len(block) : Follows(block[j - 1], block[j])
  BY <1>2, <1>3, <1>5, <1>6
<1>12. block[1] = new /\ Len(block) = 1 /\ Proper(block) /\ block # <<>>
  BY <1>6
<1>13. /\ at = 1 => block[1].parent = NoCue
       /\ at > 1 => Follows(cues[at - 1], block[1])
       /\ at <= n => Follows(block[Len(block)], cues[at])
       /\ selected' = block[1].q /\ cues' = InsertAt(cues, at, block)
  BY <1>7, <1>8, <1>9, <1>10, <1>12
<1> HIDE DEF block
<1> QED
  BY <1>9, <1>11, <1>12, <1>13, InsertInv

\* What the copies of a block are.
LEMMA Copies ==
  ASSUME NEW list, Orderly(list), Len(list) <= MaxCues, NEW i \in Rows(list),
         NEW e \in i .. Len(list), Span(list, i) = <<i, e>>,
         NEW m, m = e - i + 1,
         NEW copies, copies = DuplicateSpan(list, <<i, e>>)
  PROVE  /\ copies \in Seq(Cue) /\ Len(copies) = m /\ m \in Nat /\ m > 0
         /\ \A k \in 1 .. m :
              /\ copies[k].q = Free(list, k) /\ copies[k].q \notin Taken(list)
              /\ copies[k].kind = list[i + k - 1].kind
              /\ copies[k].trigger = list[i + k - 1].trigger
              /\ copies[k].parent = IF k > 1 /\ IsGroup(list[i]) THEN Free(list, 1)
                                    ELSE list[i + k - 1].parent
         /\ \A j, k \in 1 .. m : copies[j].q = copies[k].q => j = k
         /\ Free(list, 1) \in Numbers
<1> DEFINE n == Len(list)
           row(k) == list[i + k - 1]
           copy(k) == IF k > 1 /\ IsGroup(list[i])
                      THEN [[row(k) EXCEPT !.q = Free(list, k)] EXCEPT !.parent = Free(list, 1)]
                      ELSE [row(k) EXCEPT !.q = Free(list, k)]
<1>1. /\ Proper(list) /\ list \in Seq(Cue) /\ n \in Nat /\ i \in 1 .. n /\ MaxCues \in Nat
      /\ m \in 1 .. n
  BY OrderAssumption, LenProperties DEF Orderly, Proper, Rows
<1>2. /\ \A k \in 1 .. m : Free(list, k) \in Numbers \ Taken(list)
      /\ \A j, k \in 1 .. m : Free(list, j) = Free(list, k) => j = k
  <2>1. m \in Nat /\ n + m <= 2 * MaxCues
    BY <1>1
  <2> QED
    BY <1>1, <2>1, FreeNumbers
<1>3. copies = [k \in 1 .. m |-> copy(k)]
  BY DEF DuplicateSpan
<1>4. \A k \in 1 .. m :
         row(k) \in [q : Numbers, kind : {"Cue", "Group"}, parent : Numbers \union {NoCue},
                     trigger : Triggers]
  <2>1. \A k \in 1 .. m : i + k - 1 \in 1 .. n
    BY <1>1
  <2>2. \A j \in 1 .. n : list[j] \in Cue
    BY <1>1
  <2> QED
    BY <2>1, <2>2 DEF Cue
<1>5. 1 \in 1 .. m
  BY <1>1
<1> HIDE DEF row
<1>6. ASSUME NEW k \in 1 .. m
      PROVE  /\ copy(k) \in Cue
             /\ copy(k).q = Free(list, k) /\ copy(k).kind = row(k).kind
             /\ copy(k).trigger = row(k).trigger
             /\ copy(k).parent = IF k > 1 /\ IsGroup(list[i]) THEN Free(list, 1)
                                 ELSE row(k).parent
  <2>1. Free(list, 1) \in Numbers /\ Free(list, k) \in Numbers
    BY <1>2, <1>5
  <2>2. row(k) \in [q : Numbers, kind : {"Cue", "Group"}, parent : Numbers \union {NoCue},
                    trigger : Triggers]
    BY <1>4
  <2>3. CASE k > 1 /\ IsGroup(list[i])
    BY <2>1, <2>2, <2>3 DEF Cue
  <2>4. CASE ~(k > 1 /\ IsGroup(list[i]))
    BY <2>1, <2>2, <2>4 DEF Cue
  <2> QED
    BY <2>3, <2>4
<1> HIDE DEF copy
<1>7. copies \in Seq(Cue) /\ Len(copies) = m /\ \A k \in 1 .. m : copies[k] = copy(k)
  <2>1. m \in Nat /\ \A k \in 1 .. m : copy(k) \in Cue
    BY <1>1, <1>6
  <2> QED
    BY <1>3, <2>1
<1>8. \A k \in 1 .. m :
         /\ copies[k].q = Free(list, k) /\ copies[k].q \notin Taken(list)
         /\ copies[k].kind = list[i + k - 1].kind
         /\ copies[k].trigger = list[i + k - 1].trigger
         /\ copies[k].parent = IF k > 1 /\ IsGroup(list[i]) THEN Free(list, 1)
                               ELSE list[i + k - 1].parent
  BY <1>2, <1>6, <1>7 DEF row
<1>9. \A j, k \in 1 .. m : copies[j].q = copies[k].q => j = k
  BY <1>2, <1>8
<1>10. m \in Nat /\ m > 0 /\ Free(list, 1) \in Numbers
  BY <1>1, <1>2, <1>5
<1> QED
  BY <1>7, <1>8, <1>9, <1>10

\* The copies of a block fit behind it.
LEMMA CopiesFit ==
  ASSUME NEW list, Orderly(list), Len(list) <= MaxCues, NEW i \in Rows(list),
         NEW e \in i .. Len(list), Span(list, i) = <<i, e>>,
         NEW copies, copies = DuplicateSpan(list, <<i, e>>)
  PROVE  /\ Proper(copies) /\ copies # <<>> /\ Len(copies) = e - i + 1
         /\ \A j \in 1 .. Len(copies) : copies[j].q \notin Taken(list)
         /\ \A j \in 2 .. Len(copies) : Follows(copies[j - 1], copies[j])
         /\ Follows(list[e], copies[1])
         /\ e + 1 <= Len(list) => Follows(copies[Len(copies)], list[e + 1])
<1> DEFINE n == Len(list)
           m == e - i + 1
<1>1. /\ Proper(list) /\ list \in Seq(Cue) /\ n \in Nat /\ i \in 1 .. n
      /\ m \in 1 .. n /\ i + m - 1 = e
      /\ \A j \in 1 .. m : i + j - 1 \in 1 .. n
  BY LenProperties DEF Orderly, Proper, Rows
<1>2. /\ copies \in Seq(Cue) /\ Len(copies) = m
      /\ \A k \in 1 .. m :
           /\ copies[k].q = Free(list, k) /\ copies[k].q \notin Taken(list)
           /\ copies[k].kind = list[i + k - 1].kind
           /\ copies[k].trigger = list[i + k - 1].trigger
           /\ copies[k].parent = IF k > 1 /\ IsGroup(list[i]) THEN Free(list, 1)
                                 ELSE list[i + k - 1].parent
      /\ \A j, k \in 1 .. m : copies[j].q = copies[k].q => j = k
  BY Copies
<1>3. PICK x \in i .. n :
            /\ Span(list, i) = <<i, x>>
            /\ ~IsGroup(list[i]) => x = i
            /\ \A k \in i + 1 .. x : list[k].parent = list[i].q
            /\ x < n /\ list[i].parent = NoCue => list[x + 1].parent = NoCue
  BY Blocks
<1>4. x = e
  BY <1>3
<1> HIDE DEF m
<1>5. IsGroup(list[i]) => list[i].parent = NoCue
  BY <1>1 DEF Proper, Placed, Rows
<1>6. ASSUME NEW k \in 1 .. m, k > 1 PROVE IsGroup(list[i]) /\ ~IsGroup(copies[k])
  <2>1. IsGroup(list[i])
    BY <1>1, <1>3, <1>4, <1>6 DEF m
  <2>2. i + k - 1 \in i + 1 .. e /\ i + k - 1 \in 1 .. n
    BY <1>1, <1>6 DEF m
  <2>3. list[i + k - 1].parent = list[i].q /\ list[i].q # NoCue
    <3>1. list[i] \in Cue
      BY <1>1
    <3> QED
      BY <1>3, <1>4, <2>2, <3>1, OrderAssumption DEF Cue
  <2>4. ~IsGroup(list[i + k - 1])
    <3>1. Placed(list[i + k - 1])
      BY <1>1, <2>2 DEF Proper, Rows
    <3> QED
      BY <2>3, <3>1 DEF Placed
  <2> QED
    BY <1>2, <2>1, <2>4 DEF IsGroup
<1>7. /\ copies[1].kind = list[i].kind /\ copies[1].trigger = list[i].trigger
      /\ copies[1].parent = list[i].parent /\ copies[1].q = Free(list, 1)
  <2>1. 1 \in 1 .. m /\ i + 1 - 1 = i /\ ~(1 > 1)
    BY <1>1
  <2> QED
    BY <1>2, <2>1
<1>8. \A k \in 1 .. m : Placed(copies[k])
  <2>1. Placed(copies[1])
    <3>1. Placed(list[i])
      BY <1>1 DEF Proper, Rows
    <3> QED
      BY <1>7, <3>1 DEF Placed, IsGroup
  <2>2. \A k \in 1 .. m : k > 1 => Placed(copies[k])
    BY <1>6 DEF Placed
  <2>3. \A k \in 1 .. m : k = 1 \/ k > 1
    BY <1>1
  <2> QED
    BY <2>1, <2>2, <2>3
<1>9. Proper(copies) /\ copies # <<>>
  <2>1. Rows(copies) = 1 .. m /\ m > 0
    BY <1>1, <1>2 DEF Rows
  <2>2. copies # <<>>
    BY <1>2, <2>1, EmptySeq
  <2> QED
    BY <1>2, <1>8, <2>1, <2>2 DEF Proper
<1>10. ASSUME NEW j \in 2 .. m PROVE Follows(copies[j - 1], copies[j])
  <2>1. j \in 1 .. m /\ j > 1 /\ j - 1 \in 1 .. m
    BY <1>1
  <2>2. copies[j].parent = Free(list, 1) /\ IsGroup(list[i])
    BY <1>2, <1>6, <2>1
  <2>3. CASE j = 2
    <3>1. IsGroup(copies[j - 1]) /\ copies[j - 1].q = Free(list, 1)
      BY <1>7, <2>2, <2>3 DEF IsGroup
    <3> QED
      BY <2>2, <3>1 DEF Follows
  <2>4. CASE j # 2
    <3>1. j - 1 > 1
      BY <1>1, <2>4
    <3>2. copies[j - 1].parent = Free(list, 1)
      BY <1>2, <2>1, <2>2, <3>1
    <3> QED
      BY <2>2, <3>2 DEF Follows
  <2> QED
    BY <2>3, <2>4
<1>11. Follows(list[e], copies[1])
  BY <1>3, <1>4, <1>5, <1>7 DEF Follows
<1>12. ASSUME e + 1 <= n PROVE Follows(copies[m], list[e + 1])
  <2>1. CASE IsGroup(list[i])
    BY <1>1, <1>3, <1>4, <1>5, <1>12, <2>1 DEF Follows
  <2>2. CASE ~IsGroup(list[i])
    <3>1. e = i /\ m = 1 /\ i \in 1 .. n - 1
      BY <1>1, <1>3, <1>4, <1>12, <2>2 DEF m
    <3>2. list[i + 1].parent \in {NoCue, list[i].parent}
      BY <2>2, <3>1, RowSkipped
    <3> QED
      BY <1>7, <3>1, <3>2 DEF Follows
  <2> QED
    BY <2>1, <2>2
<1> QED
  BY <1>2, <1>9, <1>10, <1>11, <1>12 DEF m

\* The copies of a block, with new numbers, come right behind it.
LEMMA DuplicateInv == IndInv /\ DuplicateCue => IndInv'
<1> SUFFICES ASSUME IndInv, DuplicateCue PROVE IndInv'
  OBVIOUS
<1>1. PICK i \in Rows(cues) :
          LET span == Span(cues, i)
              copies == DuplicateSpan(cues, span)
          IN  /\ Len(cues) + Len(copies) <= MaxCues
              /\ cues' = InsertAt(cues, span[2] + 1, copies)
              /\ selected' = copies[1].q
  BY DEF DuplicateCue
<1>2. /\ Orderly(cues) /\ Len(cues) <= MaxCues /\ Len(cues) \in Nat
      /\ Rows(cues) = 1 .. Len(cues)
  BY InvFacts
<1>3. PICK e \in i .. Len(cues) : Span(cues, i) = <<i, e>>
  BY <1>2, Blocks
<1> DEFINE copies == DuplicateSpan(cues, <<i, e>>)
<1>4. /\ Len(cues) + Len(copies) <= MaxCues
      /\ cues' = InsertAt(cues, e + 1, copies)
      /\ selected' = copies[1].q
  BY <1>1, <1>3
<1>5. /\ Proper(copies) /\ copies # <<>>
      /\ \A j \in 1 .. Len(copies) : copies[j].q \notin Taken(cues)
      /\ \A j \in 2 .. Len(copies) : Follows(copies[j - 1], copies[j])
      /\ Follows(cues[e], copies[1])
      /\ e + 1 <= Len(cues) => Follows(copies[Len(copies)], cues[e + 1])
  BY <1>2, <1>3, CopiesFit
<1> HIDE DEF copies
<1>6. e + 1 \in 1 .. Len(cues) + 1 /\ (e + 1) - 1 = e /\ e + 1 # 1
  BY <1>2
<1> QED
  BY <1>4, <1>5, <1>6, InsertInv

\* Members and selection follow the number of a cue.
LEMMA RenumberInv == IndInv /\ UpdateCueQid => IndInv'
<1> SUFFICES ASSUME IndInv, UpdateCueQid PROVE IndInv'
  OBVIOUS
<1> DEFINE n == Len(cues)
<1>1. PICK i \in Rows(cues), new \in Numbers \ Taken(cues) :
            /\ Renumber(i, new)
            /\ selected' = IF selected = cues[i].q THEN new ELSE selected
  BY DEF UpdateCueQid
<1>2. /\ Proper(cues) /\ cues \in Seq(Cue) /\ n \in Nat /\ n <= MaxCues
      /\ Rows(cues) = 1 .. n /\ i \in 1 .. n /\ SelectionExists
      /\ \A j \in 2 .. n : Follows(cues[j - 1], cues[j])
      /\ cues[1].parent = NoCue
  <2>1. cues # <<>>
    BY InvFacts, EmptySeq
  <2> QED
    BY <2>1, InvFacts DEF Orderly
<1> DEFINE old == cues[i].q
           row(k) == [cues[k] EXCEPT !.q = IF k = i THEN new ELSE @,
                                     !.parent = IF @ = old THEN new ELSE @]
<1>3. \A k \in 1 .. n : cues[k] \in [q : Numbers, kind : {"Cue", "Group"},
                                     parent : Numbers \union {NoCue}, trigger : Triggers]
  <2>1. \A k \in 1 .. n : cues[k] \in Cue
    BY <1>2
  <2> QED
    BY <2>1 DEF Cue
<1>4. old \in Numbers /\ new \in Numbers /\ NoCue \notin Numbers /\ new # NoCue /\ old # NoCue
  BY <1>2, <1>3, OrderAssumption
<1>5. ASSUME NEW k \in 1 .. n
      PROVE  /\ row(k) \in Cue
             /\ row(k).q = IF k = i THEN new ELSE cues[k].q
             /\ row(k).kind = cues[k].kind /\ row(k).trigger = cues[k].trigger
             /\ row(k).parent = IF cues[k].parent = old THEN new ELSE cues[k].parent
  <2>1. cues[k] \in [q : Numbers, kind : {"Cue", "Group"}, parent : Numbers \union {NoCue},
                     trigger : Triggers]
    BY <1>3
  <2> HIDE DEF old
  <2> QED
    BY <1>4, <2>1 DEF Cue
<1>6. cues' = [k \in 1 .. n |-> row(k)]
  BY <1>1, <1>2 DEF Renumber
<1> HIDE DEF row
<1>7. /\ cues' \in Seq(Cue) /\ Len(cues') = n
      /\ \A k \in 1 .. n :
           /\ cues'[k].q = IF k = i THEN new ELSE cues[k].q
           /\ cues'[k].kind = cues[k].kind /\ cues'[k].trigger = cues[k].trigger
           /\ cues'[k].parent = IF cues[k].parent = old THEN new ELSE cues[k].parent
  <2>1. n \in Nat /\ \A k \in 1 .. n : row(k) \in Cue
    BY <1>2, <1>5
  <2>2. cues' \in Seq(Cue) /\ Len(cues') = n /\ \A k \in 1 .. n : cues'[k] = row(k)
    BY <1>6, <2>1
  <2> QED
    BY <1>5, <2>2
<1>8. \A k \in 1 .. n : cues[k].q # new
  BY <1>2 DEF Taken
<1>9. \A j, k \in 1 .. n : cues[j].q = cues[k].q => j = k
  BY <1>2 DEF Proper
<1>10. \A k \in 1 .. n : Placed(cues'[k])
  <2>1. ASSUME NEW k \in 1 .. n PROVE Placed(cues'[k])
    <3>1. Placed(cues[k])
      BY <1>2 DEF Proper
    <3> HIDE DEF old
    <3> QED
      BY <1>4, <1>7, <3>1 DEF Placed, IsGroup
  <2> QED
    BY <2>1
<1>11. Proper(cues')
  <2>1. \A j, k \in 1 .. n : cues'[j].q = cues'[k].q => j = k
    BY <1>7, <1>8, <1>9
  <2>2. Rows(cues)' = 1 .. n
    BY <1>7 DEF Rows
  <2> QED
    BY <1>7, <1>10, <2>1, <2>2 DEF Proper
<1>12. ASSUME NEW j \in 2 .. n PROVE Follows(cues'[j - 1], cues'[j])
  <2>1. j \in 1 .. n /\ j - 1 \in 1 .. n
    BY <1>2
  <2>2. Follows(cues[j - 1], cues[j])
    BY <1>2
  <2> DEFINE c == cues[j - 1]
             d == cues[j]
  <2>3. /\ cues'[j - 1].q = IF j - 1 = i THEN new ELSE c.q
        /\ cues'[j - 1].kind = c.kind
        /\ cues'[j - 1].parent = IF c.parent = old THEN new ELSE c.parent
        /\ cues'[j].parent = IF d.parent = old THEN new ELSE d.parent
    BY <1>7, <2>1
  <2>4. c.q = old <=> j - 1 = i
    BY <1>2, <1>9, <2>1
  <2> HIDE DEF c, d, old
  <2> QED
    BY <1>4, <2>2, <2>3, <2>4 DEF Follows, IsGroup, c, d
<1>13. cues'[1].parent = NoCue
  <2>1. 1 \in 1 .. n
    BY <1>2
  <2> HIDE DEF old
  <2> QED
    BY <1>2, <1>4, <1>7, <2>1
<1>14. Orderly(cues')
  BY <1>7, <1>11, <1>12, <1>13 DEF Orderly
<1>15. SelectionExists'
  <2>1. CASE selected = old
    <3>1. selected' = cues'[i].q /\ i \in Rows(cues)'
      BY <1>1, <1>2, <1>7, <2>1 DEF Rows
    <3> QED
      BY <3>1 DEF SelectionExists, Taken
  <2>2. CASE selected = NoCue
    BY <1>1, <1>4, <2>2 DEF SelectionExists
  <2>3. CASE selected # old /\ selected # NoCue
    <3>1. PICK k \in 1 .. n : selected = cues[k].q
      BY <1>2, <2>3 DEF SelectionExists, Taken
    <3>2. k # i
      BY <2>3, <3>1
    <3>3. selected' = cues'[k].q /\ k \in Rows(cues)'
      BY <1>1, <1>7, <2>3, <3>1, <3>2 DEF Rows
    <3> QED
      BY <3>3 DEF SelectionExists, Taken
  <2> QED
    BY <2>1, <2>2, <2>3
<1> QED
  BY <1>2, <1>7, <1>14, <1>15 DEF IndInv

\* A trigger changes neither number nor place.
LEMMA TriggerInv == IndInv /\ UpdateCueTrigger => IndInv'
<1> SUFFICES ASSUME IndInv, UpdateCueTrigger PROVE IndInv'
  OBVIOUS
<1> DEFINE n == Len(cues)
<1>1. PICK i \in Rows(cues), t \in Triggers :
            /\ IsGroup(cues[i]) => t \in GroupTriggers
            /\ cues' = [cues EXCEPT ![i].trigger = t]
  BY DEF UpdateCueTrigger
<1>2. /\ Proper(cues) /\ cues \in Seq(Cue) /\ n \in Nat /\ n <= MaxCues
      /\ Rows(cues) = 1 .. n /\ i \in 1 .. n /\ SelectionExists
      /\ \A j \in 2 .. n : Follows(cues[j - 1], cues[j])
      /\ cues[1].parent = NoCue
  <2>1. cues # <<>>
    BY InvFacts, EmptySeq
  <2> QED
    BY <2>1, InvFacts DEF Orderly
<1> DEFINE row == [cues[i] EXCEPT !.trigger = t]
<1>3. /\ row \in Cue /\ row.q = cues[i].q /\ row.kind = cues[i].kind
      /\ row.parent = cues[i].parent /\ row.trigger = t
  <2>1. cues[i] \in Cue
    BY <1>2
  <2> QED
    BY <2>1 DEF Cue
<1>4. cues' = [cues EXCEPT ![i] = row]
  BY <1>1
<1> HIDE DEF row
<1>5. /\ cues' \in Seq(Cue) /\ Len(cues') = n
      /\ \A k \in 1 .. n : cues'[k] = IF k = i THEN row ELSE cues[k]
  BY <1>2, <1>3, <1>4, ExceptSeq
<1>6. \A k \in 1 .. n : /\ cues'[k].q = cues[k].q /\ cues'[k].kind = cues[k].kind
                        /\ cues'[k].parent = cues[k].parent
  BY <1>3, <1>5
<1>7. Rows(cues)' = 1 .. n
  BY <1>5 DEF Rows
<1>8. \A k \in 1 .. n : Placed(cues'[k])
  <2>1. \A k \in 1 .. n : Placed(cues[k])
    BY <1>2 DEF Proper
  <2> QED
    BY <1>1, <1>3, <1>5, <2>1 DEF Placed, IsGroup
<1>9. Proper(cues')
  <2>1. \A j, k \in 1 .. n : cues[j].q = cues[k].q => j = k
    BY <1>2 DEF Proper
  <2>2. \A j, k \in 1 .. n : cues'[j].q = cues'[k].q => j = k
    BY <1>6, <2>1
  <2> QED
    BY <1>5, <1>7, <1>8, <2>2 DEF Proper
<1>10. ASSUME NEW j \in 2 .. n PROVE Follows(cues'[j - 1], cues'[j])
  <2>1. j \in 1 .. n /\ j - 1 \in 1 .. n /\ Follows(cues[j - 1], cues[j])
    BY <1>2
  <2> QED
    BY <1>6, <2>1 DEF Follows, IsGroup
<1>11. Orderly(cues')
  BY <1>2, <1>5, <1>6, <1>9, <1>10 DEF Orderly
<1>12. SelectionExists'
  <2>1. Taken(cues)' = Taken(cues)
    BY <1>2, <1>6, <1>7 DEF Taken
  <2> QED
    BY <1>2, <2>1 DEF SelectionExists, UpdateCueTrigger
<1> QED
  BY <1>2, <1>5, <1>11, <1>12 DEF IndInv

-----------------------------------------------------------------------------
(* What holds of every list                                                *)

\* The show files that are opened are in order.
OpenedInOrder == \A list \in Starts : Orderly(list)

\* The invariant, as long as no group is added in the middle of another one
\* (which the program does, see the README): every list of the specification
\* is orderly, and what is selected is in it.
THEOREM Invariance ==
  ASSUME OpenedInOrder, MayNest = FALSE
  PROVE  Spec => []IndInv
<1>1. Init => IndInv
  BY OrderAssumption DEF Init, IndInv, SelectionExists, OpenedInOrder
<1>2. IndInv /\ [Next]_vars => IndInv'
  <2>1. IndInv /\ UNCHANGED vars => IndInv'
    BY DEF vars, IndInv, SelectionExists
  <2> QED
    BY <2>1, SelectInv, AddInv, DeleteInv, DuplicateInv, NudgeInv, UngroupInv, DropInv,
       RenumberInv, TriggerInv DEF Next
<1> QED
  BY <1>1, <1>2, PTL DEF Spec

\* Every variable keeps its type, and no two cues ever have the same number.
THEOREM TypeCorrect ==
  ASSUME OpenedInOrder, MayNest = FALSE
  PROVE  Spec => []TypeOK
<1>1. IndInv => TypeOK
  <2> SUFFICES ASSUME IndInv PROVE TypeOK
    OBVIOUS
  <2>1. Taken(cues) \subseteq Numbers /\ Cardinality(Taken(cues)) = Len(cues)
    BY InvFacts, TakenSize
  <2>2. cues \in Seq(Cue) /\ Len(cues) <= MaxCues /\ SelectionExists
    BY InvFacts
  <2> QED
    BY <2>1, <2>2 DEF TypeOK, SelectionExists
<1> QED
  BY <1>1, Invariance, PTL

\* Whatever is edited, the members of a group follow their header, and nothing
\* else is in its block.
THEOREM GroupsCorrect ==
  ASSUME OpenedInOrder, MayNest = FALSE
  PROVE  Spec => []GroupsContiguous
<1>1. IndInv => GroupsContiguous
  BY OrderlyContiguous DEF IndInv
<1> QED
  BY <1>1, Invariance, PTL

\* The playhead of an orderly list leaves the groups when Go fires a cue at
\* top level: it steps over the members of a group, and over cues that start
\* with the one before, which no group does.
LEMMA PlayheadLeaves ==
  ASSUME Orderly(cues), GroupTriggers = {"Go"}
  PROVE  PlayheadOutsideGroups
<1> DEFINE n == Len(cues)
<1> SUFFICES ASSUME NEW i \in Rows(cues), cues[i].parent = NoCue, NextStandby(cues, i) # 0
             PROVE  cues[NextStandby(cues, i)].parent = NoCue
  BY DEF PlayheadOutsideGroups
<1> DEFINE Passed(k) == IF IsGroup(cues[i]) THEN cues[k].parent = cues[i].q
                        ELSE cues[k].trigger = "WithLast"
           stops == {j \in i + 1 .. n : ~Passed(j) /\ \A k \in i + 1 .. j - 1 : Passed(k)}
           j == MaxOf(stops)
<1>1. /\ cues \in Seq(Cue) /\ n \in Nat /\ i \in 1 .. n /\ Proper(cues) /\ Rows(cues) = 1 .. n
      /\ \A k \in 2 .. n : Follows(cues[k - 1], cues[k])
  BY LenProperties DEF Orderly, Proper, Rows
<1>2. NextStandby(cues, i) = j /\ stops # {}
  BY DEF NextStandby
<1>3. j \in stops
  <2>1. stops \subseteq 0 .. n
    BY <1>1
  <2> HIDE DEF stops
  <2> QED
    BY <1>1, <1>2, <2>1, MaxOfIsGreatest
<1> HIDE DEF j
<1>4. j \in i + 1 .. n /\ ~Passed(j) /\ \A k \in i + 1 .. j - 1 : Passed(k)
  BY <1>3
<1>5. CASE IsGroup(cues[i])
  <2>1. PICK e \in i .. n :
            /\ Span(cues, i) = <<i, e>>
            /\ \A k \in i + 1 .. e : cues[k].parent = cues[i].q
            /\ e < n /\ cues[i].parent = NoCue => cues[e + 1].parent = NoCue
            /\ IsGroup(cues[i]) /\ e < n => cues[e + 1].parent # cues[i].q
    BY Blocks
  <2>2. j = e + 1
    <3>1. j \notin i + 1 .. e
      BY <1>4, <1>5, <2>1
    <3>2. ASSUME e + 1 < j PROVE FALSE
      <4>1. e + 1 \in i + 1 .. j - 1 /\ e < n
        BY <1>1, <1>4, <2>1, <3>2
      <4> QED
        BY <1>4, <1>5, <2>1, <4>1
    <3> QED
      BY <1>1, <1>4, <2>1, <3>1, <3>2
  <2>3. e < n
    BY <1>1, <1>4, <2>2
  <2> QED
    BY <1>2, <2>1, <2>2, <2>3
<1>6. CASE ~IsGroup(cues[i])
  <2> DEFINE Bad == {k \in i .. j : cues[k].parent # NoCue}
  <2> SUFFICES ASSUME Bad # {} PROVE FALSE
    <3>1. j \in i .. j
      BY <1>1, <1>4
    <3>2. Bad = {} => cues[j].parent = NoCue
      BY <3>1
    <3> HIDE DEF Bad
    <3> QED
      BY <1>2, <3>2
  <2>1. PICK k \in Bad : \A x \in Bad : k <= x
    <3>1. Bad \subseteq Nat
      BY <1>1
    <3> HIDE DEF Bad
    <3> QED
      BY <3>1, LeastExists
  <2>2. k \in i .. j /\ cues[k].parent # NoCue /\ k # i
    BY <2>1
  <2>3. k - 1 \in i .. j /\ k - 1 \notin Bad /\ k \in 2 .. n /\ k - 1 \in 1 .. n
    BY <1>1, <1>4, <2>1, <2>2
  <2>4. cues[k - 1].parent = NoCue
    BY <2>3
  <2>5. ~IsGroup(cues[k - 1])
    <3>1. CASE k - 1 = i
      BY <1>6, <3>1
    <3>2. CASE k - 1 # i
      <4>1. k - 1 \in i + 1 .. j - 1
        BY <1>1, <1>4, <2>2, <2>3, <3>2
      <4>2. cues[k - 1].trigger = "WithLast"
        BY <1>4, <1>6, <4>1
      <4>3. Placed(cues[k - 1])
        BY <1>1, <2>3 DEF Proper
      <4> QED
        BY <4>2, <4>3 DEF Placed
    <3> QED
      BY <3>1, <3>2
  <2>6. Follows(cues[k - 1], cues[k])
    BY <1>1, <2>3
  <2> QED
    BY <2>2, <2>4, <2>5, <2>6 DEF Follows
<1> QED
  BY <1>5, <1>6

\* Members have their group, what is selected is in the list, and Go leaves
\* the playhead at top level, after any number of edits of any list.
THEOREM ReferencesCorrect ==
  ASSUME OpenedInOrder, MayNest = FALSE, GroupTriggers = {"Go"}
  PROVE  Spec => []ReferencesHold
<1>1. IndInv => ReferencesHold
  BY OrderlyMembers, PlayheadLeaves DEF IndInv, ReferencesHold
<1> QED
  BY <1>1, Invariance, PTL
-----------------------------------------------------------------------------
(* What an edit of a block takes along                                     *)

\* Two blocks side by side, of rows at top level or of members of one group.
Neighbours(list, a, b, c) ==
    /\ a \in 1 .. Len(list) /\ b \in a + 1 .. Len(list) /\ c \in b + 1 .. Len(list) + 1
    /\ Span(list, a) = <<a, b - 1>> /\ Span(list, b) = <<b, c - 1>>
    /\ list[a].parent = list[b].parent

NudgeDown(list, i) == Nudge(list, i, TRUE)
NudgeUp(list, i) == Nudge(list, i, FALSE)

\* What neighbours are made of.
LEMMA NeighbourFacts ==
  ASSUME NEW list, Orderly(list), NEW a, NEW b, NEW c, Neighbours(list, a, b, c)
  PROVE  /\ Len(list) \in Nat /\ list \in Seq(Cue)
         /\ a \in 1 .. Len(list) /\ b \in a + 1 .. Len(list) /\ c \in b + 1 .. Len(list) + 1
         /\ a \in Rows(list) /\ b \in Rows(list) /\ b - 1 \in Rows(list)
         /\ \A i \in 1 .. Len(list) : list[i] \in Cue /\ list[i].q # NoCue
                                      /\ (IsGroup(list[i]) => list[i].parent = NoCue)
         /\ ~IsGroup(list[a]) => b - 1 = a
         /\ ~IsGroup(list[b]) => c - 1 = b
         /\ \A k \in a + 1 .. b - 1 : list[k].parent = list[a].q
         /\ \A k \in b + 1 .. c - 1 : list[k].parent = list[b].q
         /\ list[b].parent = NoCue /\ c <= Len(list) => list[c].parent = NoCue
<1>1. /\ Len(list) \in Nat /\ list \in Seq(Cue) /\ Proper(list)
      /\ a \in 1 .. Len(list) /\ b \in a + 1 .. Len(list) /\ c \in b + 1 .. Len(list) + 1
      /\ Rows(list) = 1 .. Len(list)
  BY LenProperties DEF Neighbours, Orderly, Proper, Rows
<1>2. a \in Rows(list) /\ b \in Rows(list) /\ b - 1 \in Rows(list)
  BY <1>1
<1>3. ASSUME NEW i \in 1 .. Len(list)
      PROVE  /\ list[i] \in Cue /\ list[i].q # NoCue
             /\ IsGroup(list[i]) => list[i].parent = NoCue
  <2>1. list[i] \in Cue
    BY <1>1
  <2>2. Placed(list[i])
    BY <1>1 DEF Proper
  <2> QED
    BY <2>1, <2>2, OrderAssumption DEF Placed, Cue
<1>4. PICK e \in a .. Len(list) :
            /\ Span(list, a) = <<a, e>>
            /\ ~IsGroup(list[a]) => e = a
            /\ \A k \in a + 1 .. e : list[k].parent = list[a].q
  BY <1>2, Blocks
<1>5. PICK x \in b .. Len(list) :
            /\ Span(list, b) = <<b, x>>
            /\ ~IsGroup(list[b]) => x = b
            /\ \A k \in b + 1 .. x : list[k].parent = list[b].q
            /\ x < Len(list) /\ list[b].parent = NoCue => list[x + 1].parent = NoCue
  BY <1>2, Blocks
<1>6. e = b - 1 /\ x = c - 1
  BY <1>4, <1>5 DEF Neighbours
<1>7. list[b].parent = NoCue /\ c <= Len(list) => list[c].parent = NoCue
  <2>1. x + 1 = c
    BY <1>1, <1>6
  <2>2. c <= Len(list) => x < Len(list)
    BY <1>1, <1>6
  <2> QED
    BY <1>5, <2>1, <2>2
<1> QED
  BY <1>1, <1>2, <1>3, <1>4, <1>5, <1>6, <1>7

\* The upper one steps over the lower one when it is nudged down, ...
LEMMA NudgedDown ==
  ASSUME NEW list, Orderly(list), NEW a, NEW b, NEW c, Neighbours(list, a, b, c)
  PROVE  NudgeDown(list, a) = Swapped(list, a, b, c)
<1>1. /\ Len(list) \in Nat /\ list \in Seq(Cue) /\ a \in Rows(list) /\ b \in Rows(list)
      /\ a \in 1 .. Len(list) /\ b \in a + 1 .. Len(list) /\ c \in b + 1 .. Len(list) + 1
      /\ IsGroup(list[b]) => list[b].parent = NoCue
      /\ Span(list, a) = <<a, b - 1>> /\ Span(list, b) = <<b, c - 1>>
      /\ list[a].parent = list[b].parent
  <2>1. /\ Len(list) \in Nat /\ list \in Seq(Cue) /\ a \in Rows(list) /\ b \in Rows(list)
        /\ a \in 1 .. Len(list) /\ b \in a + 1 .. Len(list) /\ c \in b + 1 .. Len(list) + 1
        /\ \A i \in 1 .. Len(list) : IsGroup(list[i]) => list[i].parent = NoCue
    BY NeighbourFacts
  <2>2. b \in 1 .. Len(list)
    BY <2>1
  <2> QED
    BY <2>1, <2>2 DEF Neighbours
<1>2. (b - 1) + 1 = b /\ (c - 1) + 1 = c
  BY <1>1
<1>3. IsGroup(list[b]) => EnclosingSpan(list, b) = <<b, c - 1>>
  BY <1>1 DEF EnclosingSpan
<1>4. Nudge(list, a, TRUE) = MoveSpan(list, <<a, b - 1>>, c)
  BY <1>1, <1>2, <1>3 DEF Nudge
<1> QED
  BY <1>1, <1>4, MovedDown DEF NudgeDown

\* ... and the lower one over the upper one when it is nudged up.
LEMMA NudgedUp ==
  ASSUME NEW list, Orderly(list), NEW a, NEW b, NEW c, Neighbours(list, a, b, c)
  PROVE  NudgeUp(list, b) = Swapped(list, a, b, c)
<1>1. /\ Len(list) \in Nat /\ list \in Seq(Cue) /\ a \in Rows(list) /\ b \in Rows(list)
      /\ b - 1 \in Rows(list) /\ Rows(list) = 1 .. Len(list)
      /\ a \in 1 .. Len(list) /\ b \in a + 1 .. Len(list) /\ c \in b + 1 .. Len(list) + 1
      /\ list[a].q # NoCue /\ (IsGroup(list[a]) => list[a].parent = NoCue)
      /\ ~IsGroup(list[a]) => b - 1 = a
      /\ \A k \in a + 1 .. b - 1 : list[k].parent = list[a].q
      /\ Span(list, a) = <<a, b - 1>> /\ Span(list, b) = <<b, c - 1>>
      /\ list[a].parent = list[b].parent
      /\ Proper(list)
  <2>1. /\ Len(list) \in Nat /\ list \in Seq(Cue) /\ a \in Rows(list) /\ b \in Rows(list)
        /\ b - 1 \in Rows(list)
        /\ a \in 1 .. Len(list) /\ b \in a + 1 .. Len(list) /\ c \in b + 1 .. Len(list) + 1
        /\ \A i \in 1 .. Len(list) : list[i].q # NoCue
                                     /\ (IsGroup(list[i]) => list[i].parent = NoCue)
        /\ ~IsGroup(list[a]) => b - 1 = a
        /\ \A k \in a + 1 .. b - 1 : list[k].parent = list[a].q
    BY NeighbourFacts
  <2> QED
    BY <2>1 DEF Neighbours, Orderly, Rows
<1> DEFINE sibling == list[b - 1].parent = list[b].parent /\ ~IsGroup(list[b - 1])
           over == IF sibling THEN Span(list, b - 1) ELSE EnclosingSpan(list, b - 1)
<1>2. Nudge(list, b, FALSE) =
        IF ~sibling /\ list[b].parent # NoCue THEN list
        ELSE MoveSpan(list, <<b, c - 1>>, over[1])
  BY <1>1 DEF Nudge
<1>3. CASE ~IsGroup(list[a])
  <2>1. sibling /\ Span(list, b - 1) = <<a, b - 1>>
    BY <1>1, <1>3
  <2> HIDE DEF sibling
  <2>2. over[1] = a
    BY <2>1
  <2> HIDE DEF over
  <2> QED
    BY <1>1, <1>2, <2>1, <2>2, MovedUp DEF NudgeUp
<1>4. CASE IsGroup(list[a])
  <2>1. list[b].parent = NoCue
    BY <1>1, <1>4
  <2>2. ~sibling
    <3>1. b - 1 = a \/ b - 1 \in a + 1 .. b - 1
      BY <1>1
    <3> QED
      BY <1>1, <1>4, <2>1, <3>1
  <2>3. PICK h \in 1 .. b - 1, x \in b - 1 .. Len(list) :
            /\ EnclosingSpan(list, b - 1) = <<h, x>>
            /\ list[b - 1].parent = NoCue => h = b - 1
            /\ list[b - 1].parent # NoCue => list[h].q = list[b - 1].parent
    BY <1>1, Enclosings
  <2>4. h = a
    <3>1. CASE b - 1 = a
      BY <1>1, <1>4, <2>3, <3>1
    <3>2. CASE b - 1 # a
      <4>1. b - 1 \in a + 1 .. b - 1
        BY <1>1, <3>2
      <4>2. list[h].q = list[a].q
        BY <1>1, <2>3, <4>1
      <4>3. h \in Rows(list)
        BY <1>1, <2>3
      <4> QED
        BY <1>1, <4>2, <4>3 DEF Proper
    <3> QED
      BY <3>1, <3>2
  <2>5. over[1] = a
    BY <2>2, <2>3, <2>4
  <2> HIDE DEF over, sibling
  <2> QED
    BY <1>1, <1>2, <2>1, <2>5, MovedUp DEF NudgeUp
<1> QED
  BY <1>3, <1>4
\* Whatever is nudged steps over its neighbour, or stays where it is.
LEMMA NudgeIsSwap ==
  ASSUME NEW list, Orderly(list), NEW i \in Rows(list), NEW down \in BOOLEAN,
         Nudge(list, i, down) # list
  PROVE  \E a, b, c : Neighbours(list, a, b, c) /\ i = IF down THEN a ELSE b
<1> DEFINE n == Len(list)
<1>1. /\ n \in Nat /\ list \in Seq(Cue) /\ i \in 1 .. n /\ Rows(list) = 1 .. n
      /\ \A j \in 1 .. n : list[j].q # NoCue /\ (IsGroup(list[j]) => list[j].parent = NoCue)
  <2>1. n \in Nat /\ list \in Seq(Cue) /\ Proper(list) /\ i \in 1 .. n /\ Rows(list) = 1 .. n
    BY LenProperties DEF Orderly, Proper, Rows
  <2>2. ASSUME NEW j \in 1 .. n
        PROVE  list[j].q # NoCue /\ (IsGroup(list[j]) => list[j].parent = NoCue)
    <3>1. list[j] \in Cue /\ Placed(list[j])
      BY <2>1 DEF Proper
    <3> QED
      BY <3>1, OrderAssumption DEF Placed, Cue
  <2> QED
    BY <2>1, <2>2
<1>2. PICK e \in i .. n :
            /\ Span(list, i) = <<i, e>>
            /\ ~IsGroup(list[i]) => e = i
            /\ e < n /\ list[i].parent = NoCue => list[e + 1].parent = NoCue
  BY Blocks
<1> DEFINE next == IF down THEN e + 1 ELSE i - 1
           sibling == list[next].parent = list[i].parent /\ ~IsGroup(list[next])
<1>3. next \in Rows(list) /\ (sibling \/ list[i].parent = NoCue)
  BY <1>2 DEF Nudge
<1>4. CASE sibling
  <2>1. Span(list, next) = <<next, next>>
    BY <1>4 DEF Span
  <2>2. CASE down
    <3>1. next = e + 1
      BY <2>2
    <3> HIDE DEF next
    <3>2. e = (e + 1) - 1 /\ (e + 2) - 1 = e + 1
      BY <1>1
    <3>3. Neighbours(list, i, e + 1, e + 2)
      BY <1>1, <1>2, <1>3, <1>4, <2>1, <3>1, <3>2 DEF Neighbours
    <3> QED
      BY <2>2, <3>3
  <2>3. CASE ~down
    <3>1. next = i - 1
      BY <2>3
    <3> HIDE DEF next
    <3>2. e = (e + 1) - 1 /\ i - 1 \in 1 .. n /\ i \in (i - 1) + 1 .. n /\ e + 1 \in i + 1 .. n + 1
      BY <1>1, <1>3, <3>1
    <3>3. Neighbours(list, i - 1, i, e + 1)
      BY <1>1, <1>2, <1>4, <2>1, <3>1, <3>2 DEF Neighbours
    <3> QED
      BY <2>3, <3>3
  <2> QED
    BY <2>2, <2>3
<1>5. CASE ~sibling
  <2>1. list[i].parent = NoCue
    BY <1>3, <1>5
  <2>2. CASE down
    <3>1. next = e + 1 /\ e + 1 \in 1 .. n /\ e < n
      BY <1>1, <1>3, <2>2
    <3>2. list[e + 1].parent = NoCue
      BY <1>2, <2>1, <3>1
    <3>3. PICK x \in e + 1 .. n : Span(list, e + 1) = <<e + 1, x>>
      BY <1>1, <3>1, Blocks
    <3>4. e = (e + 1) - 1 /\ (x + 1) - 1 = x
      BY <1>1
    <3>5. Neighbours(list, i, e + 1, x + 1)
      BY <1>1, <1>2, <2>1, <3>1, <3>2, <3>3, <3>4 DEF Neighbours
    <3> QED
      BY <2>2, <3>5
  <2>3. CASE ~down
    <3>1. next = i - 1 /\ i - 1 \in 1 .. n /\ i - 1 \in Rows(list)
      BY <1>1, <1>3, <2>3
    <3> HIDE DEF next
    <3>2. PICK h \in 1 .. i - 1, x \in i - 1 .. n :
            /\ Span(list, h) = <<h, x>>
            /\ list[h].parent = NoCue
            /\ \A k \in h + 1 .. x : list[k].parent = list[h].q
      BY <3>1, Enclosings
    <3>3. x = i - 1
      <4>1. x < i
        <5>1. h \in 1 .. n
          BY <1>1, <3>1, <3>2
        <5>2. list[h].q # NoCue
          BY <1>1, <5>1
        <5>3. i \notin h + 1 .. x
          BY <2>1, <3>2, <5>2
        <5> QED
          BY <1>1, <3>1, <3>2, <5>3
      <4> QED
        BY <1>1, <3>1, <3>2, <4>1
    <3>4. (e + 1) - 1 = e /\ h \in 1 .. n /\ i \in h + 1 .. n /\ e + 1 \in i + 1 .. n + 1
      BY <1>1, <3>1, <3>2
    <3>5. Neighbours(list, h, i, e + 1)
      BY <1>1, <1>2, <2>1, <3>2, <3>3, <3>4 DEF Neighbours
    <3> QED
      BY <2>3, <3>5
  <2> QED
    BY <2>2, <2>3
<1> QED
  BY <1>4, <1>5

\* The rows of a list in which two neighbours changed places.
LEMMA SwappedRows ==
  ASSUME NEW list \in Seq(Cue), NEW a \in 1 .. Len(list), NEW b \in a + 1 .. Len(list),
         NEW c \in b + 1 .. Len(list) + 1,
         NEW moved, moved = Swapped(list, a, b, c)
  PROVE  /\ moved \in Seq(Cue) /\ Len(moved) = Len(list)
         /\ \A j \in a .. a + (c - b) - 1 : moved[j] = list[j + (b - a)]
         /\ \A j \in a + (c - b) .. c - 1 : moved[j] = list[j - (c - b)]
         /\ c <= Len(list) => moved[c] = list[c]
         /\ Swapped(moved, a, a + (c - b), c) = list
<1> DEFINE n == Len(list)
           m == a + (c - b)
<1>1. n \in Nat /\ m \in a + 1 .. n /\ c \in m + 1 .. n + 1 /\ \A j \in 1 .. n : list[j] \in Cue
  BY LenProperties
<1>2. \A j \in 1 .. n : Place(a, b, c, j) \in 1 .. n
  BY <1>1, Places
<1>3. moved \in Seq(Cue) /\ Len(moved) = n
      /\ \A j \in 1 .. n : moved[j] = list[Place(a, b, c, j)]
  <2>1. moved \in [1 .. n -> Cue]
    BY <1>1, <1>2 DEF Swapped
  <2>2. moved \in Seq(Cue) /\ Len(moved) = n
    BY <1>1, <2>1 DEF Swapped
  <2> QED
    BY <2>2 DEF Swapped
<1>4. ASSUME NEW j \in a .. m - 1 PROVE moved[j] = list[j + (b - a)]
  <2>1. j \in 1 .. n /\ Place(a, b, c, j) = j + (b - a)
    BY <1>1 DEF Place
  <2> QED
    BY <1>3, <2>1
<1>5. ASSUME NEW j \in m .. c - 1 PROVE moved[j] = list[j - (c - b)]
  <2>1. j \in 1 .. n /\ Place(a, b, c, j) = j - (c - b)
    BY <1>1 DEF Place
  <2> QED
    BY <1>3, <2>1
<1>6. c <= n => moved[c] = list[c]
  <2>1. c <= n => c \in 1 .. n /\ Place(a, b, c, c) = c
    BY <1>1 DEF Place
  <2> QED
    BY <1>3, <2>1
<1>7. \A j \in 1 .. n : Place(a, m, c, j) \in 1 .. n /\ Place(a, b, c, Place(a, m, c, j)) = j
  BY <1>1 DEF Place
<1>8. Swapped(moved, a, m, c) = list
  <2>1. Swapped(moved, a, m, c) = [j \in 1 .. n |-> moved[Place(a, m, c, j)]]
    BY <1>3 DEF Swapped
  <2>2. \A j \in 1 .. n : moved[Place(a, m, c, j)] = list[j]
    BY <1>3, <1>7
  <2>3. list = [j \in 1 .. n |-> list[j]]
    BY <1>1, LenProperties
  <2> QED
    BY <2>1, <2>2, <2>3
<1> QED
  BY <1>3, <1>4, <1>5, <1>6, <1>8

\* Neighbours that changed places are neighbours again.
LEMMA StillNeighbours ==
  ASSUME NEW list, Orderly(list), NEW a, NEW b, NEW c, Neighbours(list, a, b, c)
  PROVE  Neighbours(Swapped(list, a, b, c), a, a + (c - b), c)
<1> DEFINE n == Len(list)
           m == a + (c - b)
           moved == Swapped(list, a, b, c)
<1>1. /\ n \in Nat /\ list \in Seq(Cue)
      /\ a \in 1 .. n /\ b \in a + 1 .. n /\ c \in b + 1 .. n + 1
      /\ \A i \in 1 .. n : list[i].q # NoCue /\ (IsGroup(list[i]) => list[i].parent = NoCue)
      /\ ~IsGroup(list[a]) => b - 1 = a
      /\ ~IsGroup(list[b]) => c - 1 = b
      /\ \A k \in a + 1 .. b - 1 : list[k].parent = list[a].q
      /\ \A k \in b + 1 .. c - 1 : list[k].parent = list[b].q
      /\ list[b].parent = NoCue /\ c <= n => list[c].parent = NoCue
  BY NeighbourFacts
<1>0. n \in Nat /\ a \in 1 .. n /\ b \in a + 1 .. n /\ c \in b + 1 .. n + 1
  BY <1>1
<1>2. list[a].parent = list[b].parent
  BY DEF Neighbours
<1>3. /\ moved \in Seq(Cue) /\ Len(moved) = n
      /\ \A j \in a .. m - 1 : moved[j] = list[j + (b - a)]
      /\ \A j \in m .. c - 1 : moved[j] = list[j - (c - b)]
      /\ c <= n => moved[c] = list[c]
  <2>1. list \in Seq(Cue)
    BY <1>1
  <2> QED
    BY <1>0, <2>1, SwappedRows
<1> HIDE DEF moved
<1>4. m \in a + 1 .. n /\ c \in m + 1 .. n + 1 /\ b \in 1 .. n
  BY <1>0
<1>5. moved[a] = list[b] /\ moved[m] = list[a]
  <2>1. a \in a .. m - 1 /\ a + (b - a) = b /\ m \in m .. c - 1 /\ m - (c - b) = a
    BY <1>0
  <2> QED
    BY <1>3, <2>1
<1>6. Span(moved, a) = <<a, m - 1>>
  <2>1. CASE ~IsGroup(list[b])
    <3>1. m - 1 = a
      BY <1>1, <2>1
    <3> HIDE DEF m
    <3> QED
      BY <1>5, <2>1, <3>1 DEF Span
  <2>2. CASE IsGroup(list[b])
    <3>1. ASSUME NEW k \in a + 1 .. m - 1 PROVE moved[k].parent = moved[a].q
      <4>1. k \in a .. m - 1 /\ k + (b - a) \in b + 1 .. c - 1
        BY <1>0
      <4> QED
        BY <1>1, <1>3, <1>5, <4>1
    <3>2. moved[m].parent # moved[a].q
      BY <1>1, <1>2, <1>4, <1>5, <2>2
    <3>3. a \in Rows(moved) /\ m - 1 \in a .. Len(moved) /\ (m - 1) + 1 = m
      BY <1>1, <1>3, <1>4 DEF Rows
    <3> HIDE DEF m
    <3> QED
      BY <1>3, <1>5, <2>2, <3>1, <3>2, <3>3, SpanIs
  <2> QED
    BY <2>1, <2>2
<1>7. Span(moved, m) = <<m, c - 1>>
  <2>1. CASE ~IsGroup(list[a])
    <3>1. c - 1 = m
      BY <1>1, <2>1
    <3> HIDE DEF m
    <3> QED
      BY <1>5, <2>1, <3>1 DEF Span
  <2>2. CASE IsGroup(list[a])
    <3>1. ASSUME NEW k \in m + 1 .. c - 1 PROVE moved[k].parent = moved[m].q
      <4>1. k \in m .. c - 1 /\ k - (c - b) \in a + 1 .. b - 1
        BY <1>0
      <4> QED
        BY <1>1, <1>3, <1>5, <4>1
    <3>2. c <= n => moved[c].parent # moved[m].q
      BY <1>1, <1>2, <1>3, <1>5, <2>2
    <3>3. m \in Rows(moved) /\ c - 1 \in m .. Len(moved) /\ (c - 1) + 1 = c
          /\ (c - 1 < Len(moved) => c <= n)
      BY <1>1, <1>3, <1>4 DEF Rows
    <3> HIDE DEF m
    <3> QED
      BY <1>3, <1>5, <2>2, <3>1, <3>2, <3>3, SpanIs
  <2> QED
    BY <2>1, <2>2
<1>8. /\ a \in 1 .. Len(moved) /\ m \in a + 1 .. Len(moved) /\ c \in m + 1 .. Len(moved) + 1
      /\ moved[a].parent = moved[m].parent
  BY <1>0, <1>2, <1>3, <1>4, <1>5
<1> HIDE DEF m
<1>9. Neighbours(moved, a, m, c)
  BY <1>6, <1>7, <1>8 DEF Neighbours
<1> QED
  BY <1>9 DEF m, moved
\* Nudged down and up again, or up and down again, a block is where it was.
LEMMA NudgedBack ==
  ASSUME NEW list, Orderly(list), NEW a, NEW b, NEW c, Neighbours(list, a, b, c),
         NEW moved, moved = Swapped(list, a, b, c), Orderly(moved)
  PROVE  /\ NudgeUp(moved, Index(moved, list[a].q)) = list
         /\ NudgeDown(moved, Index(moved, list[b].q)) = list
<1> DEFINE m == a + (c - b)
<1>1. /\ Len(list) \in Nat /\ list \in Seq(Cue)
      /\ a \in 1 .. Len(list) /\ b \in a + 1 .. Len(list) /\ c \in b + 1 .. Len(list) + 1
  BY NeighbourFacts
<1>2. /\ moved[a] = list[b] /\ moved[m] = list[a]
      /\ Swapped(moved, a, m, c) = list
      /\ a \in Rows(moved) /\ m \in Rows(moved)
  <2>1. a \in a .. m - 1 /\ a + (b - a) = b /\ m \in m .. c - 1 /\ m - (c - b) = a
    BY <1>1
  <2>2. /\ Len(moved) = Len(list)
        /\ \A j \in a .. m - 1 : moved[j] = list[j + (b - a)]
        /\ \A j \in m .. c - 1 : moved[j] = list[j - (c - b)]
        /\ Swapped(moved, a, m, c) = list
    BY <1>1, SwappedRows
  <2>3. a \in 1 .. Len(list) /\ m \in 1 .. Len(list)
    BY <1>1
  <2> HIDE DEF m
  <2> QED
    BY <2>1, <2>2, <2>3 DEF Rows
<1>3. Neighbours(moved, a, m, c)
  BY StillNeighbours
<1> HIDE DEF m
<1>4. NudgeDown(moved, a) = list /\ NudgeUp(moved, m) = list
  BY <1>2, <1>3, NudgedDown, NudgedUp
<1>5. ASSUME NEW k \in Rows(moved) PROVE Index(moved, moved[k].q) = k
  <2>1. moved[k].q \in Taken(moved)
    BY DEF Taken
  <2>2. /\ Index(moved, moved[k].q) \in Rows(moved)
        /\ moved[Index(moved, moved[k].q)].q = moved[k].q
    BY <2>1, IndexIsRow
  <2> QED
    BY <2>2 DEF Orderly, Proper
<1>6. Index(moved, list[a].q) = m /\ Index(moved, list[b].q) = a
  BY <1>2, <1>5
<1> QED
  BY <1>4, <1>6

\* A nudge is undone by the opposite one.
LEMMA NudgeIsUndone ==
  ASSUME NEW list, Orderly(list), NEW i \in Rows(list), NEW down \in BOOLEAN,
         NEW moved, moved = Nudge(list, i, down), moved # list
  PROVE  Nudge(moved, Index(moved, list[i].q), ~down) = list
<1>1. PICK a, b, c : Neighbours(list, a, b, c) /\ i = IF down THEN a ELSE b
  BY NudgeIsSwap
<1>2. Orderly(moved)
  BY NudgedOrderly
<1>3. CASE down = TRUE
  <2>1. i = a /\ (~down) = FALSE
    BY <1>1, <1>3
  <2>2. moved = Swapped(list, a, b, c)
    <3>1. moved = NudgeDown(list, a)
      BY <1>3, <2>1 DEF NudgeDown
    <3> QED
      BY <1>1, <3>1, NudgedDown
  <2>3. NudgeUp(moved, Index(moved, list[a].q)) = list
    BY <1>1, <1>2, <2>2, NudgedBack
  <2> QED
    BY <2>1, <2>3 DEF NudgeUp
<1>4. CASE down = FALSE
  <2>1. i = b /\ (~down) = TRUE
    BY <1>1, <1>4
  <2>2. moved = Swapped(list, a, b, c)
    <3>1. moved = NudgeUp(list, b)
      BY <1>4, <2>1 DEF NudgeUp
    <3> QED
      BY <1>1, <3>1, NudgedUp
  <2>3. NudgeDown(moved, Index(moved, list[b].q)) = list
    BY <1>1, <1>2, <2>2, NudgedBack
  <2> QED
    BY <2>1, <2>3 DEF NudgeDown
<1> QED
  BY <1>3, <1>4

\* The copy of a block is a block, and leaves the other one whole.
LEMMA CopyIsBlock ==
  ASSUME NEW list, Orderly(list), Len(list) <= MaxCues, NEW i \in Rows(list),
         NEW e \in i .. Len(list), Span(list, i) = <<i, e>>,
         NEW copies, copies = DuplicateSpan(list, <<i, e>>),
         NEW after, after = InsertAt(list, e + 1, copies)
  PROVE  /\ Span(after, e + 1) = <<e + 1, e + Len(copies)>>
         /\ Span(after, i) = <<i, e>>
<1> DEFINE n == Len(list)
           m == e - i + 1
<1>1. /\ n \in Nat /\ list \in Seq(Cue) /\ i \in 1 .. n /\ m \in 1 .. n
      /\ IsGroup(list[i]) => list[i].parent = NoCue
      /\ list[i].q # NoCue
  <2>1. n \in Nat /\ list \in Seq(Cue) /\ Proper(list) /\ i \in 1 .. n /\ m \in 1 .. n
    BY LenProperties DEF Orderly, Proper, Rows
  <2>2. list[i] \in Cue /\ Placed(list[i])
    BY <2>1 DEF Proper, Rows
  <2> QED
    BY <2>1, <2>2, OrderAssumption DEF Placed, Cue
<1>2. /\ copies \in Seq(Cue) /\ Len(copies) = m
      /\ \A k \in 1 .. m :
           /\ copies[k].q = Free(list, k)
           /\ copies[k].kind = list[i + k - 1].kind
           /\ copies[k].parent = IF k > 1 /\ IsGroup(list[i]) THEN Free(list, 1)
                                 ELSE list[i + k - 1].parent
      /\ Free(list, 1) \in Numbers
  <2>1. /\ copies \in Seq(Cue) /\ Len(copies) = m
        /\ \A k \in 1 .. m :
             /\ copies[k].q = Free(list, k) /\ copies[k].q \notin Taken(list)
             /\ copies[k].kind = list[i + k - 1].kind
             /\ copies[k].trigger = list[i + k - 1].trigger
             /\ copies[k].parent = IF k > 1 /\ IsGroup(list[i]) THEN Free(list, 1)
                                   ELSE list[i + k - 1].parent
        /\ \A j, k \in 1 .. m : copies[j].q = copies[k].q => j = k
    BY Copies
  <2>2. 1 \in 1 .. m /\ copies[1] \in Cue
    <3>1. 1 \in 1 .. m
      BY <1>1
    <3>2. \A k \in 1 .. Len(copies) : copies[k] \in Cue
      BY <2>1
    <3> QED
      BY <2>1, <3>1, <3>2
  <2>3. Free(list, 1) \in Numbers
    BY <2>1, <2>2 DEF Cue
  <2> QED
    BY <2>1, <2>3
<1>3. /\ ~IsGroup(list[i]) => e = i
      /\ \A k \in i + 1 .. e : list[k].parent = list[i].q
      /\ e < n /\ list[i].parent = NoCue => list[e + 1].parent = NoCue
  <2>1. PICK x \in i .. n :
            /\ Span(list, i) = <<i, x>>
            /\ ~IsGroup(list[i]) => x = i
            /\ \A k \in i + 1 .. x : list[k].parent = list[i].q
            /\ x < n /\ list[i].parent = NoCue => list[x + 1].parent = NoCue
    BY Blocks
  <2>2. x = e
    BY <2>1
  <2> QED
    BY <2>1, <2>2
<1>4. /\ after \in Seq(Cue) /\ Len(after) = n + m
      /\ \A j \in 1 .. n + m : after[j] = IF j < e + 1 THEN list[j]
                                          ELSE IF j < (e + 1) + m THEN copies[j - (e + 1) + 1]
                                          ELSE list[j - m]
  <2>1. e + 1 \in 1 .. n + 1
    BY <1>1
  <2>2. /\ after \in Seq(Cue) /\ Len(after) = n + Len(copies)
        /\ \A j \in 1 .. n + Len(copies) :
              after[j] = IF j < e + 1 THEN list[j]
                         ELSE IF j < (e + 1) + Len(copies) THEN copies[j - (e + 1) + 1]
                         ELSE list[j - Len(copies)]
    BY <1>1, <1>2, <2>1, InsertedRows
  <2> HIDE DEF m
  <2> QED
    BY <1>2, <2>2
<1>5. \A j \in i .. e : after[j] = list[j]
  <2>1. \A j \in i .. e : j \in 1 .. n + m /\ j < e + 1
    BY <1>1
  <2> QED
    BY <1>4, <2>1
<1>6. \A k \in 1 .. m : after[e + k] = copies[k]
  <2>1. ASSUME NEW k \in 1 .. m PROVE after[e + k] = copies[k]
    <3>1. n \in Nat /\ i \in 1 .. n /\ e \in i .. n
      BY <1>1
    <3>2. /\ e + k \in 1 .. n + m /\ ~(e + k < e + 1) /\ e + k < (e + 1) + m
          /\ (e + k) - (e + 1) + 1 = k
      BY <3>1
    <3>3. after[e + k] = IF e + k < e + 1 THEN list[e + k]
                         ELSE IF e + k < (e + 1) + m THEN copies[(e + k) - (e + 1) + 1]
                         ELSE list[(e + k) - m]
      BY <1>4, <3>2
    <3> QED
      BY <3>2, <3>3
  <2> QED
    BY <2>1
<1>7. e < n => after[e + m + 1] = list[e + 1]
  <2>1. ASSUME e < n
        PROVE  /\ e + m + 1 \in 1 .. n + m /\ ~(e + m + 1 < e + 1)
               /\ ~(e + m + 1 < (e + 1) + m) /\ (e + m + 1) - m = e + 1
    BY <1>1, <2>1
  <2> QED
    BY <1>4, <2>1
<1>8. /\ after[e + 1] = copies[1] /\ copies[1].kind = list[i].kind
      /\ copies[1].parent = list[i].parent /\ copies[1].q = Free(list, 1)
      /\ after[i] = list[i]
  <2>1. 1 \in 1 .. m /\ i + 1 - 1 = i /\ ~(1 > 1) /\ i \in i .. e
    BY <1>1
  <2> QED
    BY <1>2, <1>5, <1>6, <2>1
<1>9. CASE ~IsGroup(list[i])
  <2>1. m = 1 /\ ~IsGroup(after[e + 1]) /\ ~IsGroup(after[i]) /\ e = i
    BY <1>1, <1>3, <1>8, <1>9 DEF IsGroup
  <2> HIDE DEF m
  <2> QED
    BY <1>2, <2>1 DEF Span
<1>10. CASE IsGroup(list[i])
  <2>1. IsGroup(after[e + 1]) /\ IsGroup(after[i])
    BY <1>8, <1>10 DEF IsGroup
  <2>2. Span(after, i) = <<i, e>>
    <3>1. i \in Rows(after) /\ e \in i .. Len(after)
      BY <1>1, <1>4 DEF Rows
    <3>2. \A k \in i + 1 .. e : after[k].parent = after[i].q
      <4>1. \A k \in i + 1 .. e : k \in i .. e
        BY <1>1
      <4> QED
        BY <1>3, <1>5, <1>8, <4>1
    <3>3. after[e + 1].parent # after[i].q
      BY <1>1, <1>8, <1>10
    <3> QED
      BY <1>4, <2>1, <3>1, <3>2, <3>3, SpanIs
  <2>3. Span(after, e + 1) = <<e + 1, e + m>>
    <3>1. ASSUME NEW k \in e + 1 + 1 .. e + m PROVE after[k].parent = after[e + 1].q
      <4>1. k - e \in 1 .. m /\ k - e > 1 /\ e + (k - e) = k
        BY <1>1
      <4>2. after[k] = copies[k - e]
        BY <1>6, <4>1
      <4>3. copies[k - e].parent = Free(list, 1)
        BY <1>2, <1>10, <4>1
      <4> QED
        BY <1>8, <4>2, <4>3
    <3>2. e + m < Len(after) => after[e + m + 1].parent # after[e + 1].q
      <4>1. Free(list, 1) # NoCue
        BY <1>2, OrderAssumption
      <4>2. e + m < Len(after) => e < n
        BY <1>1, <1>4
      <4>3. e < n => list[e + 1].parent = NoCue
        BY <1>1, <1>3, <1>10
      <4> HIDE DEF m
      <4> QED
        BY <1>7, <1>8, <4>1, <4>2, <4>3
    <3>3. e + 1 \in Rows(after) /\ e + m \in e + 1 .. Len(after)
      BY <1>1, <1>4 DEF Rows
    <3> HIDE DEF m
    <3> QED
      BY <1>4, <2>1, <3>1, <3>2, <3>3, SpanIs
  <2> HIDE DEF m
  <2> QED
    BY <1>2, <2>2, <2>3
<1> QED
  BY <1>9, <1>10

\* In every list the edits lead to, a nudge is undone by the opposite one, and
\* the copy of a group is a group with a copy of each member.
THEOREM BlocksCorrect ==
  ASSUME OpenedInOrder, MayNest = FALSE
  PROVE  Spec => []BlocksStayWhole
<1>1. IndInv => NudgeReverses
  BY InvFacts, NudgeIsUndone DEF NudgeReverses
<1>2. IndInv => CopyIsWhole
  <2> SUFFICES ASSUME IndInv, NEW i \in Rows(cues)
               PROVE  LET span == Span(cues, i)
                          copies == DuplicateSpan(cues, span)
                      IN  Len(cues) + Len(copies) <= MaxCues =>
                             LET after == InsertAt(cues, span[2] + 1, copies)
                             IN  /\ Span(after, span[2] + 1)[2] = span[2] + Len(copies)
                                 /\ Span(after, i) = span
    BY DEF CopyIsWhole
  <2>1. PICK e \in i .. Len(cues) : Span(cues, i) = <<i, e>>
    BY InvFacts, Blocks
  <2> DEFINE copies == DuplicateSpan(cues, <<i, e>>)
             after == InsertAt(cues, e + 1, copies)
  <2>2. Span(after, e + 1) = <<e + 1, e + Len(copies)>> /\ Span(after, i) = <<i, e>>
    BY <2>1, InvFacts, CopyIsBlock
  <2> QED
    BY <2>1, <2>2
<1>3. IndInv => BlocksStayWhole
  BY <1>1, <1>2 DEF BlocksStayWhole
<1> QED
  BY <1>3, Invariance, PTL
=============================================================================
