--------------------------- MODULE ListObjProofs ---------------------------
(***************************************************************************)
(* Proofs about ListObj, for every set of lists, of varType objects and of *)
(* scalars, and lists of any size.                                         *)
(***************************************************************************)
EXTENDS ListObj, SequenceTheorems, TLAPS

-----------------------------------------------------------------------------
(* What the changes of a list do to each position                           *)

\* One element more, at a position that may be the one behind the last.
LEMMA InsertAtElements ==
  ASSUME NEW S, NEW s \in Seq(S), NEW i \in 1..(Len(s) + 1), NEW e \in S
  PROVE  /\ InsertAt(s, i, e) \in Seq(S) /\ Len(InsertAt(s, i, e)) = Len(s) + 1
         /\ \A k \in 1..(Len(s) + 1) :
               InsertAt(s, i, e)[k] = IF k < i THEN s[k] ELSE IF k = i THEN e ELSE s[k - 1]
<1>. DEFINE n == Len(s)
            front == SubSeq(s, 1, i - 1)
            back == SubSeq(s, i, n)
            head == front \o <<e>>
<1>1. n \in Nat /\ i \in Nat /\ 1 <= i /\ i <= n + 1
  BY LenProperties
<1>2. /\ front \in Seq(S) /\ Len(front) = i - 1
      /\ \A k \in 1..(i - 1) : front[k] = s[k]
  BY <1>1, SubSeqProperties
<1>3. /\ back \in Seq(S) /\ Len(back) = n - i + 1
      /\ \A k \in 1..(n - i + 1) : back[k] = s[i + k - 1]
  BY <1>1, SubSeqProperties
<1>4. InsertAt(s, i, e) = head \o back
  BY DEF InsertAt
<1>. HIDE DEF n, front, back
<1>5. /\ head \in Seq(S) /\ Len(head) = i /\ head[i] = e
      /\ \A k \in 1..(i - 1) : head[k] = front[k]
  <2>1. <<e>> \in Seq(S) /\ Len(<<e>>) = 1 /\ <<e>>[1] = e
    OBVIOUS
  <2>2. /\ head \in Seq(S) /\ Len(head) = Len(front) + Len(<<e>>)
        /\ \A k \in 1..(Len(front) + Len(<<e>>)) :
              head[k] = IF k <= Len(front) THEN front[k] ELSE <<e>>[k - Len(front)]
    BY <1>2, <2>1, ConcatProperties
  <2>. HIDE DEF head
  <2>. QED
    BY <1>1, <1>2, <2>1, <2>2
<1>. HIDE DEF head
<1>. DEFINE t == head \o back
<1>6. /\ t \in Seq(S) /\ Len(t) = Len(head) + Len(back)
      /\ \A k \in 1..(Len(head) + Len(back)) :
            t[k] = IF k <= Len(head) THEN head[k] ELSE back[k - Len(head)]
  BY <1>3, <1>5, ConcatProperties
<1>. HIDE DEF t
<1>7. /\ t \in Seq(S) /\ Len(t) = n + 1
      /\ \A k \in 1..(n + 1) : t[k] = IF k <= i THEN head[k] ELSE back[k - i]
  <2>1. Len(head) = i /\ Len(back) = n - i + 1 /\ i + (n - i + 1) = n + 1
    BY <1>1, <1>3, <1>5
  <2>. QED
    BY <1>6, <2>1
<1>8. \A k \in 1..(n + 1) : t[k] = IF k < i THEN s[k] ELSE IF k = i THEN e ELSE s[k - 1]
  <2>. TAKE k \in 1..(n + 1)
  <2>1. CASE k < i
    BY <1>1, <1>2, <1>5, <1>7, <2>1
  <2>2. CASE k = i
    BY <1>1, <1>5, <1>7, <2>2
  <2>3. CASE k > i
    <3>1. k - i \in 1..(n - i + 1) /\ i + (k - i) - 1 = k - 1
      BY <1>1, <2>3
    <3>2. t[k] = back[k - i]
      BY <1>1, <1>7, <2>3
    <3>3. back[k - i] = s[k - 1]
      BY <1>3, <3>1
    <3>. QED
      BY <1>1, <2>3, <3>2, <3>3
  <2>. QED
    BY <1>1, <2>1, <2>2, <2>3
<1>. QED
  BY <1>4, <1>7, <1>8 DEF t, n

\* One element less.
LEMMA RemoveAtElements ==
  ASSUME NEW S, NEW s \in Seq(S), NEW i \in 1..Len(s)
  PROVE  /\ RemoveAt(s, i) \in Seq(S) /\ Len(RemoveAt(s, i)) = Len(s) - 1
         /\ \A k \in 1..(Len(s) - 1) :
               RemoveAt(s, i)[k] = IF k < i THEN s[k] ELSE s[k + 1]
<1>. DEFINE n == Len(s)
            front == SubSeq(s, 1, i - 1)
            back == SubSeq(s, i + 1, n)
            t == front \o back
<1>1. n \in Nat /\ i \in Nat /\ 1 <= i /\ i <= n
  BY LenProperties
<1>2. /\ front \in Seq(S) /\ Len(front) = i - 1
      /\ \A k \in 1..(i - 1) : front[k] = s[k]
  BY <1>1, SubSeqProperties
<1>3. /\ back \in Seq(S) /\ Len(back) = n - i
      /\ \A k \in 1..(n - i) : back[k] = s[i + k]
  <2>1. /\ back \in Seq(S) /\ Len(back) = n - i
        /\ \A k \in 1..(n - (i + 1) + 1) : back[k] = s[(i + 1) + k - 1]
    BY <1>1, SubSeqProperties
  <2>2. n - (i + 1) + 1 = n - i /\ \A k \in 1..(n - i) : (i + 1) + k - 1 = i + k
    BY <1>1
  <2>. HIDE DEF back
  <2>. QED
    BY <2>1, <2>2
<1>4. RemoveAt(s, i) = t
  BY DEF RemoveAt
<1>. HIDE DEF n, front, back
<1>5. /\ t \in Seq(S) /\ Len(t) = Len(front) + Len(back)
      /\ \A k \in 1..(Len(front) + Len(back)) :
            t[k] = IF k <= Len(front) THEN front[k] ELSE back[k - Len(front)]
  BY <1>2, <1>3, ConcatProperties
<1>. HIDE DEF t
<1>6. /\ Len(t) = n - 1
      /\ \A k \in 1..(n - 1) : t[k] = IF k <= i - 1 THEN front[k] ELSE back[k - (i - 1)]
  BY <1>1, <1>2, <1>3, <1>5
<1>7. \A k \in 1..(n - 1) : t[k] = IF k < i THEN s[k] ELSE s[k + 1]
  <2>. TAKE k \in 1..(n - 1)
  <2>1. CASE k < i
    BY <1>1, <1>2, <1>6, <2>1
  <2>2. CASE k >= i
    <3>1. k - (i - 1) \in 1..(n - i) /\ i + (k - (i - 1)) = k + 1
      BY <1>1, <2>2
    <3>2. t[k] = back[k - (i - 1)]
      BY <1>1, <1>6, <2>2
    <3>. QED
      BY <1>1, <1>3, <2>2, <3>1, <3>2
  <2>. QED
    BY <1>1, <2>1, <2>2
<1>. QED
  BY <1>4, <1>5, <1>6, <1>7 DEF n

-----------------------------------------------------------------------------
(* The inductive invariant                                                  *)

Inv == TypeOK /\ list \in [ListNames -> Seq(Cells)] /\ CopiesAreIndependent

\* f says of each position of t which one of s it came from, no two from the
\* same one, or 0: a cell that is lent, or that no Variable had, used once.
Origins(s, t, f) ==
    /\ f \in [1..Len(t) -> 0..Len(s)]
    /\ \A j, k \in 1..Len(t) : f[j] = f[k] /\ f[j] # 0 => j = k
    /\ \A k \in 1..Len(t) :
          IF f[k] # 0 THEN t[k] = s[f[k]]
          ELSE \/ t[k] \in lent'
               \/ t[k] \in Free /\ \A j \in 1..Len(t) : t[j] = t[k] => j = k

\* What is in a list is not free.
LEMMA ListedNotFree ==
  ASSUME NEW l \in ListNames, list[l] \in Seq(Cells), NEW k \in 1..Len(list[l])
  PROVE  list[l][k] \in Cells \ Free
<1>1. k \in DOMAIN list[l] /\ list[l][k] \in Cells
  BY ElementOfSeq
<1>2. list[l][k] \in Range(list[l])
  BY <1>1 DEF Range
<1>. QED
  BY <1>1, <1>2 DEF Free, InUse

\* One list changed in this way, and no Variable that a list holds is taken
\* back: the lists still share what was lent to them only.
LEMMA ChangeKeeps ==
  ASSUME Inv, NEW l \in ListNames, NEW t \in Seq(Cells), list' = [list EXCEPT ![l] = t],
         NEW f, Origins(list[l], t, f), lent \ Free \subseteq lent'
  PROVE  CopiesAreIndependent'
<1>1. /\ list \in [ListNames -> Seq(Cells)] /\ CopiesAreIndependent
      /\ \A m \in ListNames : list[m] \in Seq(Cells) /\ Len(list[m]) \in Nat
      /\ Len(t) \in Nat
  BY LenProperties DEF Inv
<1>2. list'[l] = t /\ \A m \in ListNames \ {l} : list'[m] = list[m]
  BY <1>1
<1>. DEFINE from(m, j) == IF m = l THEN f[j] ELSE j
<1>3. ASSUME NEW m \in ListNames, NEW j \in 1..Len(list'[m])
      PROVE  \/ from(m, j) \in 1..Len(list[m]) /\ list'[m][j] = list[m][from(m, j)]
             \/ /\ m = l /\ f[j] = 0
                /\ \/ t[j] \in lent'
                   \/ t[j] \in Free /\ \A k \in 1..Len(t) : t[k] = t[j] => k = j
  <2>1. CASE m = l
    <3>1. j \in 1..Len(t) /\ f[j] \in 0..Len(list[l])
      BY <1>2, <2>1 DEF Origins
    <3>2. CASE f[j] = 0
      BY <2>1, <3>1, <3>2 DEF Origins
    <3>3. CASE f[j] # 0
      <4>1. f[j] \in 1..Len(list[l]) /\ t[j] = list[l][f[j]]
        BY <1>1, <3>1, <3>3 DEF Origins
      <4>. QED
        BY <1>2, <2>1, <4>1
    <3>. QED
      BY <3>2, <3>3
  <2>2. CASE m # l
    BY <1>2, <2>2
  <2>. QED
    BY <2>1, <2>2
<1>4. ASSUME NEW j \in 1..Len(t), f[j] = 0, t[j] \notin lent',
             NEW n \in ListNames, NEW k \in 1..Len(list'[n]),
             t[j] = list'[n][k], <<l, j>> # <<n, k>>
      PROVE  FALSE
  <2>1. t[j] \in Free /\ \A i \in 1..Len(t) : t[i] = t[j] => i = j
    BY <1>4 DEF Origins
  <2>2. CASE n = l
    BY <1>2, <1>4, <2>1, <2>2
  <2>3. CASE n # l
    <3>1. k \in 1..Len(list[n]) /\ list[n][k] = t[j]
      BY <1>2, <1>4, <2>3
    <3>. QED
      BY <1>1, <2>1, <3>1, ListedNotFree
  <2>. QED
    BY <2>2, <2>3
<1>. SUFFICES ASSUME NEW m \in ListNames, NEW n \in ListNames,
                     NEW j \in 1..Len(list'[m]), NEW k \in 1..Len(list'[n]),
                     list'[m][j] = list'[n][k], <<m, j>> # <<n, k>>
              PROVE  list'[m][j] \in lent'
  BY DEF CopiesAreIndependent
<1>5. CASE m = l /\ f[j] = 0
  BY <1>2, <1>4, <1>5
<1>6. CASE n = l /\ f[k] = 0
  BY <1>2, <1>4, <1>6
<1>7. CASE ~(m = l /\ f[j] = 0) /\ ~(n = l /\ f[k] = 0)
  <2>1. /\ from(m, j) \in 1..Len(list[m]) /\ list'[m][j] = list[m][from(m, j)]
        /\ from(n, k) \in 1..Len(list[n]) /\ list'[n][k] = list[n][from(n, k)]
    BY <1>3, <1>7
  <2>2. <<m, from(m, j)>> # <<n, from(n, k)>>
    <3>1. CASE m = n /\ m = l
      <4>1. j \in 1..Len(t) /\ k \in 1..Len(t) /\ j # k /\ f[j] # 0
        BY <1>2, <1>7, <3>1
      <4>2. f[j] # f[k]
        BY <4>1 DEF Origins
      <4>. QED
        BY <3>1, <4>2
    <3>2. CASE m = n /\ m # l
      BY <3>2
    <3>3. CASE m # n
      BY <3>3
    <3>. QED
      BY <3>1, <3>2, <3>3
  <2>. HIDE DEF from
  <2>3. list[m][from(m, j)] \in lent
    BY <1>1, <2>1, <2>2 DEF CopiesAreIndependent
  <2>4. list[m][from(m, j)] \notin Free
    BY <1>1, <2>1, ListedNotFree
  <2>. QED
    BY <2>1, <2>3, <2>4
<1>. QED
  BY <1>5, <1>6, <1>7

-----------------------------------------------------------------------------
(* The order of what stays                                                  *)

\* A list and the positions it keeps.
LEMMA SubsequenceBy ==
  ASSUME NEW s \in Seq(Cells), NEW t \in Seq(Cells), NEW f \in [1..Len(s) -> 1..Len(t)],
         \A j, k \in 1..Len(s) : j < k => f[j] < f[k],
         \A k \in 1..Len(s) : s[k] = t[f[k]]
  PROVE  Subsequence(s, t)
<1>. QED
  BY DEF Subsequence

\* The reverse of a list is one.
LEMMA ReverseElements ==
  ASSUME NEW s \in Seq(Cells)
  PROVE  /\ Reverse(s) \in Seq(Cells) /\ Len(Reverse(s)) = Len(s)
         /\ \A k \in 1..Len(s) : Reverse(s)[k] = s[Len(s) - k + 1]
<1>. DEFINE n == Len(s)
            r == [k \in 1..n |-> s[(n - k) + 1]]
<1>1. n \in Nat /\ \A k \in 1..n : s[k] \in Cells
  BY LenProperties, ElementOfSeq
<1>2. Reverse(s) = r
  BY DEF Reverse
<1>. HIDE DEF n
<1>3. r \in [1..n -> Cells]
  <2>1. \A k \in 1..n : (n - k) + 1 \in 1..n
    BY <1>1
  <2>. QED
    BY <1>1, <2>1
<1>4. r \in Seq(Cells) /\ DOMAIN r = 1..n
  BY <1>1, <1>3, SeqDef
<1>5. Len(r) = n
  BY <1>1, <1>4, LenProperties
<1>. QED
  BY <1>2, <1>4, <1>5 DEF n

\* What is left when some first elements are taken off.
LEMMA RemoveFrontElements ==
  ASSUME NEW s \in Seq(Cells), NEW n \in 0..Len(s)
  PROVE  /\ RemoveFront(s, n) \in Seq(Cells) /\ Len(RemoveFront(s, n)) = Len(s) - n
         /\ \A k \in 1..(Len(s) - n) : RemoveFront(s, n)[k] = s[n + k]
<1>. DEFINE t == SubSeq(s, n + 1, Len(s))
<1>1. Len(s) \in Nat /\ n \in Nat /\ n <= Len(s)
  BY LenProperties
<1>2. \A k \in (n + 1)..Len(s) : s[k] \in Cells
  BY <1>1
<1>3. /\ t \in Seq(Cells) /\ Len(t) = (IF n + 1 <= Len(s) THEN Len(s) - (n + 1) + 1 ELSE 0)
      /\ \A k \in 1..(Len(s) - (n + 1) + 1) : t[k] = s[(n + 1) + k - 1]
  BY <1>1, <1>2, SubSeqProperties
<1>. HIDE DEF t
<1>4. Len(t) = Len(s) - n
  BY <1>1, <1>3
<1>5. \A k \in 1..(Len(s) - n) : t[k] = s[n + k]
  <2>1. \A k \in 1..(Len(s) - n) :
           k \in 1..(Len(s) - (n + 1) + 1) /\ (n + 1) + k - 1 = n + k
    BY <1>1
  <2>. QED
    BY <1>3, <2>1
<1>. QED
  BY <1>3, <1>4, <1>5 DEF RemoveFront, t

\* ... which is a suffix.
LEMMA SuffixBy ==
  ASSUME NEW s \in Seq(Cells), NEW t \in Seq(Cells), NEW n \in 0..Len(s),
         Len(t) = Len(s) - n, \A k \in 1..(Len(s) - n) : t[k] = s[n + k]
  PROVE  IsSuffix(t, s)
<1>. DEFINE rs == Reverse(s)
            rt == Reverse(t)
            a == SubSeq(rt, 1, Len(t))
            b == SubSeq(rs, 1, Len(t))
<1>1. Len(s) \in Nat /\ n \in Nat /\ n <= Len(s) /\ Len(t) \in Nat /\ Len(t) <= Len(s)
  BY LenProperties
<1>2. /\ rs \in Seq(Cells) /\ Len(rs) = Len(s)
      /\ \A k \in 1..Len(s) : rs[k] = s[Len(s) - k + 1]
      /\ rt \in Seq(Cells) /\ Len(rt) = Len(t)
      /\ \A k \in 1..Len(t) : rt[k] = t[Len(t) - k + 1]
  BY ReverseElements
<1>. HIDE DEF rs, rt
<1>3. \A k \in 1..Len(t) : rt[k] = rs[k]
  <2>. TAKE k \in 1..Len(t)
  <2>1. /\ Len(t) - k + 1 \in 1..(Len(s) - n) /\ n + (Len(t) - k + 1) = Len(s) - k + 1
        /\ k \in 1..Len(s)
    BY <1>1
  <2>2. t[Len(t) - k + 1] = s[Len(s) - k + 1]
    BY <2>1
  <2>. QED
    BY <1>2, <2>1, <2>2
<1>4. \A k \in 1..Len(t) : rt[k] \in Cells /\ rs[k] \in Cells
  <2>1. \A k \in 1..Len(t) : rt[k] \in Cells
    BY <1>2, ElementOfSeq
  <2>. QED
    BY <1>3, <2>1
<1>5. /\ a \in Seq(Cells) /\ Len(a) = (IF 1 <= Len(t) THEN Len(t) - 1 + 1 ELSE 0)
      /\ \A k \in 1..(Len(t) - 1 + 1) : a[k] = rt[1 + k - 1]
  BY <1>1, <1>4, SubSeqProperties
<1>6. /\ b \in Seq(Cells) /\ Len(b) = (IF 1 <= Len(t) THEN Len(t) - 1 + 1 ELSE 0)
      /\ \A k \in 1..(Len(t) - 1 + 1) : b[k] = rs[1 + k - 1]
  BY <1>1, <1>4, SubSeqProperties
<1>. HIDE DEF a, b
<1>7. Len(a) = Len(t) /\ Len(b) = Len(t) /\ \A k \in 1..Len(t) : a[k] = b[k]
  <2>1. Len(t) - 1 + 1 = Len(t) /\ \A k \in 1..Len(t) : 1 + k - 1 = k
    BY <1>1
  <2>. QED
    BY <1>1, <1>3, <1>5, <1>6, <2>1
<1>8. a = b
  BY <1>5, <1>6, <1>7, SeqEqual
<1>. QED
  BY <1>1, <1>2, <1>8 DEF IsSuffix, IsPrefix, a, b, rs, rt

\* A list that stays as it is.
LEMMA SameOrder ==
  ASSUME NEW s \in Seq(Cells)
  PROVE  Subsequence(s, s) /\ IsSuffix(s, s)
<1>. DEFINE f == [k \in 1..Len(s) |-> k]
<1>1. Len(s) \in Nat
  BY LenProperties
<1>2. Subsequence(s, s)
  <2>1. f \in [1..Len(s) -> 1..Len(s)] /\ \A k \in 1..Len(s) : f[k] = k
    OBVIOUS
  <2>. HIDE DEF f
  <2>. QED
    BY <1>1, <2>1, SubsequenceBy
<1>3. IsSuffix(s, s)
  <2>1. 0 \in 0..Len(s) /\ Len(s) = Len(s) - 0 /\ \A k \in 1..(Len(s) - 0) : s[k] = s[0 + k]
    BY <1>1
  <2>. QED
    BY <2>1, SuffixBy
<1>. QED
  BY <1>2, <1>3

-----------------------------------------------------------------------------
(* The shape of a step: one list changes, or none does                      *)

\* The variables other than the lists, and the record of the call.
Others(op, l, i, how) ==
    /\ heap' \in [Cells -> Scalars] /\ ext' \in Cells \cup {NoCell}
    /\ lent' \subseteq Cells /\ lent \ Free \subseteq lent'
    /\ op \in Calls /\ l \in ListNames /\ how \in Outcomes
    /\ Done(op, l, i, how)

\* What the call may do to the order of its list, s before and t after it.
InOrder(op, i, s, t) ==
    /\ op \in {"reverse", "shuffle"} \/ Subsequence(s, t) \/ Subsequence(t, s)
    /\ op = "remove" => IsSuffix(t, s)
    /\ op = "insert_at" /\ Len(t) > Len(s) /\ i \in 0..MaxSize =>
          /\ GetAtOutcome(t, i) = "ok"
          /\ RemoveAt(t, FromEnd(t, i) + 1) = s

\* The types and the order after a step.
LEMMA StepIsOrdered ==
  ASSUME Inv, NEW l \in ListNames, NEW t \in Seq(Cells), Len(t) <= MaxSize,
         list' = [list EXCEPT ![l] = t],
         NEW op, NEW i, NEW how, Others(op, l, i, how), InOrder(op, i, list[l], t)
  PROVE  TypeOK' /\ list' \in [ListNames -> Seq(Cells)] /\ KeepsOrder
<1>1. /\ list \in [ListNames -> Seq(Cells)]
      /\ \A m \in ListNames : list[m] \in Seq(Cells) /\ Len(list[m]) <= MaxSize
      /\ \A m \in ListNames : Len(list[m]) \in Nat
  BY LenProperties DEF Inv, TypeOK
<1>2. /\ list' \in [ListNames -> Seq(Cells)] /\ list'[l] = t
      /\ \A m \in ListNames \ {l} : list'[m] = list[m]
  BY <1>1
<1>3. call' = [op |-> op, list |-> l, index |-> i] /\ outcome' = how
  BY DEF Others, Done
<1>4. TypeOK'
  BY <1>1, <1>2, <1>3 DEF TypeOK, Others
<1>5. ASSUME NEW m \in ListNames
      PROVE  /\ call'.op \notin {"reverse", "shuffle"} =>
                   Subsequence(list[m], list'[m]) \/ Subsequence(list'[m], list[m])
             /\ call'.op = "remove" => IsSuffix(list'[m], list[m])
             /\ \A k \in 0..MaxSize :
                   /\ call' = [op |-> "insert_at", list |-> m, index |-> k]
                   /\ Len(list'[m]) > Len(list[m])
                   => /\ GetAtOutcome(list'[m], k) = "ok"
                      /\ RemoveAt(list'[m], FromEnd(list'[m], k) + 1) = list[m]
  <2>1. CASE m = l
    <3>1. \A k : call' = [op |-> "insert_at", list |-> m, index |-> k] =>
                    op = "insert_at" /\ i = k
      BY <1>3
    <3>2. call'.op = op
      BY <1>3
    <3>. QED
      BY <1>2, <2>1, <3>1, <3>2 DEF InOrder
  <2>2. CASE m # l
    <3>1. list'[m] = list[m] /\ ~(Len(list[m]) > Len(list[m]))
      BY <1>1, <1>2, <2>2
    <3>2. Subsequence(list[m], list[m]) /\ IsSuffix(list[m], list[m])
      BY <1>1, SameOrder
    <3>. QED
      BY <3>1, <3>2
  <2>. QED
    BY <2>1, <2>2
<1>6. KeepsOrder
  BY <1>5 DEF KeepsOrder
<1>. QED
  BY <1>2, <1>4, <1>6

\* One list changes.
LEMMA OneListChanges ==
  ASSUME Inv, NEW l \in ListNames, NEW t \in Seq(Cells), Len(t) <= MaxSize,
         list' = [list EXCEPT ![l] = t],
         NEW op, NEW i, NEW how, Others(op, l, i, how), InOrder(op, i, list[l], t),
         NEW f, Origins(list[l], t, f)
  PROVE  Inv' /\ KeepsOrder
<1>1. TypeOK' /\ list' \in [ListNames -> Seq(Cells)] /\ KeepsOrder
  BY StepIsOrdered
<1>2. CopiesAreIndependent'
  BY ChangeKeeps DEF Others
<1>. QED
  BY <1>1, <1>2 DEF Inv

\* No list changes.
LEMMA NoListChanges ==
  ASSUME Inv, UNCHANGED list, NEW op, NEW l, NEW i, NEW how, Others(op, l, i, how)
  PROVE  Inv' /\ KeepsOrder
<1>1. /\ l \in ListNames /\ list \in [ListNames -> Seq(Cells)] /\ list[l] \in Seq(Cells)
      /\ Len(list[l]) <= MaxSize /\ Len(list[l]) \in Nat
  BY LenProperties DEF Inv, TypeOK, Others
<1>. DEFINE s == list[l]
            f == [k \in 1..Len(s) |-> k]
<1>2. list' = [list EXCEPT ![l] = s]
  BY <1>1
<1>3. InOrder(op, i, s, s)
  <2>1. ~(Len(s) > Len(s)) /\ Subsequence(s, s) /\ IsSuffix(s, s)
    BY <1>1, SameOrder
  <2>. QED
    BY <2>1 DEF InOrder
<1>4. Origins(s, s, f)
  <2>1. f \in [1..Len(s) -> 0..Len(s)] /\ \A k \in 1..Len(s) : f[k] = k /\ f[k] # 0
    BY <1>1
  <2>. HIDE DEF f
  <2>. QED
    BY <2>1 DEF Origins
<1>. HIDE DEF s, f
<1>5. s \in Seq(Cells) /\ Len(s) <= MaxSize /\ s = list[l]
  BY <1>1 DEF s
<1>. QED
  BY <1>1, <1>2, <1>3, <1>4, <1>5, OneListChanges

\* A cell that no list holds, or one that is lent, put in at any position.
LEMMA Inserted ==
  ASSUME NEW s \in Seq(Cells), NEW t \in Seq(Cells), NEW i \in 1..(Len(s) + 1),
         NEW c \in Cells, Len(t) = Len(s) + 1,
         \A k \in 1..(Len(s) + 1) :
            t[k] = IF k < i THEN s[k] ELSE IF k = i THEN c ELSE s[k - 1],
         c \in lent' \/ (c \in Free /\ \A k \in 1..Len(s) : s[k] \notin Free)
  PROVE  Subsequence(s, t) /\ \E f : Origins(s, t, f)
<1>1. Len(s) \in Nat /\ i \in Nat
  BY LenProperties
<1>2. Subsequence(s, t)
  <2>. DEFINE g == [k \in 1..Len(s) |-> IF k < i THEN k ELSE k + 1]
  <2>1. g \in [1..Len(s) -> 1..Len(t)]
    BY <1>1
  <2>2. \A j, k \in 1..Len(s) : j < k => g[j] < g[k]
    BY <1>1
  <2>3. \A k \in 1..Len(s) : g[k] = (IF k < i THEN k ELSE k + 1) /\ g[k] \in 1..(Len(s) + 1)
    BY <1>1
  <2>. HIDE DEF g
  <2>4. \A k \in 1..Len(s) : s[k] = t[g[k]]
    BY <1>1, <2>3
  <2>. QED
    BY <2>1, <2>2, <2>4, SubsequenceBy
<1>3. \E f : Origins(s, t, f)
  <2>. DEFINE f == [k \in 1..Len(t) |-> IF k < i THEN k ELSE IF k = i THEN 0 ELSE k - 1]
  <2>1. f \in [1..Len(t) -> 0..Len(s)]
    BY <1>1
  <2>2. \A k \in 1..Len(t) : f[k] = IF k < i THEN k ELSE IF k = i THEN 0 ELSE k - 1
    OBVIOUS
  <2>. HIDE DEF f
  <2>3. \A j, k \in 1..Len(t) : f[j] = f[k] /\ f[j] # 0 => j = k
    BY <1>1, <2>2
  <2>4. ASSUME NEW k \in 1..Len(t)
        PROVE  IF f[k] # 0 THEN t[k] = s[f[k]]
               ELSE \/ t[k] \in lent'
                    \/ t[k] \in Free /\ \A j \in 1..Len(t) : t[j] = t[k] => j = k
    <3>1. CASE k = i
      <4>1. f[k] = 0 /\ t[k] = c
        BY <1>1, <2>2, <3>1
      <4>2. CASE c \in Free /\ \A j \in 1..Len(s) : s[j] \notin Free
        <5>1. ASSUME NEW j \in 1..Len(t), j # i PROVE t[j] # c
          <6>1. j < i => j \in 1..Len(s) /\ t[j] = s[j]
            BY <1>1
          <6>2. j > i => (j - 1) \in 1..Len(s) /\ t[j] = s[j - 1]
            BY <1>1
          <6>. QED
            BY <1>1, <4>2, <5>1, <6>1, <6>2
        <5>. QED
          BY <3>1, <4>1, <4>2, <5>1
      <4>. QED
        BY <4>1, <4>2
    <3>2. CASE k # i
      BY <1>1, <2>2, <3>2
    <3>. QED
      BY <3>1, <3>2
  <2>5. Origins(s, t, f)
    BY <2>1, <2>3, <2>4 DEF Origins
  <2>. QED
    BY <2>5
<1>. QED
  BY <1>2, <1>3

\* Elements taken out of a list.
LEMMA Shrunk ==
  ASSUME NEW s \in Seq(Cells), NEW t \in Seq(Cells), NEW f \in [1..Len(t) -> 1..Len(s)],
         \A j, k \in 1..Len(t) : j < k => f[j] < f[k],
         \A k \in 1..Len(t) : t[k] = s[f[k]]
  PROVE  Subsequence(t, s) /\ Origins(s, t, f)
<1>1. Subsequence(t, s)
  BY SubsequenceBy
<1>2. Len(s) \in Nat /\ Len(t) \in Nat /\ \A k \in 1..Len(t) : f[k] \in 1..Len(s)
  BY LenProperties
<1>3. f \in [1..Len(t) -> 0..Len(s)] /\ \A k \in 1..Len(t) : f[k] # 0
  <2>1. 1..Len(s) \subseteq 0..Len(s) /\ 0 \notin 1..Len(s)
    BY <1>2
  <2>. QED
    BY <1>2, <2>1
<1>4. ASSUME NEW j \in 1..Len(t), NEW k \in 1..Len(t), f[j] = f[k] PROVE j = k
  <2>1. ~(f[j] < f[k]) /\ ~(f[k] < f[j])
    BY <1>2, <1>4
  <2>2. ~(j < k) /\ ~(k < j)
    BY <2>1
  <2>. QED
    BY <1>2, <2>2
<1>5. Origins(s, t, f)
  BY <1>3, <1>4 DEF Origins
<1>. QED
  BY <1>1, <1>5

\* A new varType object.
LEMMA NewCellKeeps ==
  ASSUME Inv, NEW c \in Free, NEW v \in Scalars, NewCell(c, v)
  PROVE  /\ heap' \in [Cells -> Scalars] /\ lent' \subseteq Cells
         /\ lent \ Free \subseteq lent' /\ c \in Cells
<1>1. c \in Cells
  BY DEF Free
<1>. QED
  BY <1>1 DEF NewCell, Inv, TypeOK

\* What is known of the list of a call.
LEMMA TheList ==
  ASSUME Inv, NEW l \in ListNames
  PROVE  /\ list[l] \in Seq(Cells) /\ Len(list[l]) \in Nat /\ Len(list[l]) <= MaxSize
         /\ MaxSize \in Nat
         /\ \A k \in 1..Len(list[l]) : list[l][k] \in Cells /\ list[l][k] \notin Free
<1>1. list[l] \in Seq(Cells) /\ Len(list[l]) \in Nat /\ Len(list[l]) <= MaxSize
  BY LenProperties DEF Inv, TypeOK
<1>. QED
  BY <1>1, ListedNotFree, SizeAssumption

-----------------------------------------------------------------------------
(* The operations                                                           *)

\* push_back puts its new cell behind the others.
LEMMA PushBackKeeps ==
  ASSUME Inv, NEW l \in ListNames, NEW v \in Scalars, PushBack(l, v)
  PROVE  Inv' /\ KeepsOrder
<1>. DEFINE s == list[l]
<1>1. PICK c \in Free : list' = [list EXCEPT ![l] = Append(s, c)] /\ NewCell(c, v)
  BY DEF PushBack, PushBackOf, Inv
<1>. DEFINE t == Append(s, c)
<1>2. /\ s \in Seq(Cells) /\ Len(s) \in Nat /\ MaxSize \in Nat /\ Len(s) < MaxSize
      /\ \A k \in 1..Len(s) : s[k] \notin Free
  BY TheList DEF PushBack
<1>3. Others("push_back", l, 0, "ok") /\ c \in Cells
  <2>1. /\ heap' \in [Cells -> Scalars] /\ lent' \subseteq Cells
        /\ lent \ Free \subseteq lent' /\ c \in Cells
    BY <1>1, NewCellKeeps
  <2>. QED
    BY <2>1 DEF Others, PushBack, Calls, Outcomes, Inv, TypeOK
<1>4. /\ t \in Seq(Cells) /\ Len(t) = Len(s) + 1 /\ t[Len(s) + 1] = c
      /\ \A k \in 1..Len(s) : t[k] = s[k]
  BY <1>2, <1>3, AppendProperties
<1>. HIDE DEF s, t
<1>5. Subsequence(s, t) /\ \E f : Origins(s, t, f)
  <2>1. \A k \in 1..(Len(s) + 1) : t[k] = IF k < Len(s) + 1 THEN s[k]
                                         ELSE IF k = Len(s) + 1 THEN c ELSE s[k - 1]
    BY <1>2, <1>4
  <2>2. Len(s) + 1 \in 1..(Len(s) + 1)
    BY <1>2
  <2>. QED
    BY <1>2, <1>3, <1>4, <2>1, <2>2, Inserted
<1>6. PICK f : Origins(s, t, f)
  BY <1>5
<1>7. InOrder("push_back", 0, s, t)
  BY <1>5 DEF InOrder
<1>8. list' = [list EXCEPT ![l] = t] /\ Len(t) <= MaxSize
  BY <1>1, <1>2, <1>4 DEF s, t
<1>. QED
  BY <1>3, <1>4, <1>6, <1>7, <1>8, OneListChanges DEF s

\* insert_at puts a cell where get_at then finds it, and no other element moves
\* past another.
LEMMA PutInKeeps ==
  ASSUME Inv, NEW l \in ListNames, NEW i \in Index, NEW c \in Cells,
         InsertOutcome(list[l], i) = "ok", Len(list[l]) < MaxSize,
         c \in lent' \/ c \in Free,
         list' = [list EXCEPT ![l] = InsertOf(list[l], i, c)],
         Others("insert_at", l, i, "ok")
  PROVE  Inv' /\ KeepsOrder
<1>. DEFINE s == list[l]
            p == FromEnd(s, i) + 1
            t == InsertAt(s, p, c)
<1>1. /\ s \in Seq(Cells) /\ Len(s) \in Nat /\ MaxSize \in Nat
      /\ \A k \in 1..Len(s) : s[k] \notin Free
  BY TheList
<1>2. p \in 1..(Len(s) + 1) /\ (i >= 0 => p = i + 1) /\ i \in Int
  <2>. HIDE DEF s
  <2>1. i \in Int
    BY <1>1 DEF Index
  <2>2. ~(Abs(FromEnd(s, i)) > Len(s)) /\ ~(FromEnd(s, i) < 0)
    BY DEF InsertOutcome, s
  <2>3. FromEnd(s, i) \in Int
    BY <1>1, <2>1 DEF FromEnd
  <2>4. FromEnd(s, i) \in 0..Len(s)
    BY <1>1, <2>2, <2>3 DEF Abs
  <2>. QED
    BY <1>1, <2>1, <2>4 DEF FromEnd
<1>3. list' = [list EXCEPT ![l] = t]
  BY DEF InsertOf
<1>. HIDE DEF s, p, t
<1>4. /\ t \in Seq(Cells) /\ Len(t) = Len(s) + 1
      /\ \A k \in 1..(Len(s) + 1) :
            t[k] = IF k < p THEN s[k] ELSE IF k = p THEN c ELSE s[k - 1]
  BY <1>1, <1>2, InsertAtElements DEF t
<1>5. Subsequence(s, t) /\ \E f : Origins(s, t, f)
  BY <1>1, <1>2, <1>4, Inserted
<1>6. RemoveAt(t, p) = s
  <2>1. p \in 1..Len(t)
    BY <1>1, <1>2, <1>4
  <2>. DEFINE u == RemoveAt(t, p)
  <2>2. /\ u \in Seq(Cells) /\ Len(u) = Len(t) - 1
        /\ \A k \in 1..(Len(t) - 1) : u[k] = IF k < p THEN t[k] ELSE t[k + 1]
    BY <1>4, <2>1, RemoveAtElements
  <2>. HIDE DEF u
  <2>3. Len(u) = Len(s)
    BY <1>1, <1>4, <2>2
  <2>4. ASSUME NEW k \in 1..Len(u) PROVE u[k] = s[k]
    <3>1. CASE k < p
      <4>1. u[k] = t[k] /\ t[k] = s[k]
        BY <1>1, <1>2, <1>4, <2>2, <2>3, <3>1
      <4>. QED
        BY <4>1
    <3>2. CASE k >= p
      <4>1. u[k] = t[k + 1]
        BY <1>1, <1>2, <1>4, <2>2, <2>3, <3>2
      <4>2. k + 1 \in 1..(Len(s) + 1) /\ ~(k + 1 < p) /\ k + 1 # p /\ (k + 1) - 1 = k
        BY <1>1, <1>2, <2>3, <3>2
      <4>. QED
        BY <1>4, <4>1, <4>2
    <3>. QED
      BY <1>2, <3>1, <3>2
  <2>5. u = s
    BY <1>1, <2>2, <2>3, <2>4, SeqEqual
  <2>. QED
    BY <2>5 DEF u
<1>7. ASSUME i \in 0..MaxSize
      PROVE  GetAtOutcome(t, i) = "ok" /\ FromEnd(t, i) + 1 = p
  <2>1. p = i + 1 /\ i < Len(t) /\ i >= 0
    BY <1>1, <1>2, <1>4, <1>7
  <2>2. Abs(i) = i /\ FromEnd(t, i) = i
    BY <1>2, <2>1 DEF Abs, FromEnd
  <2>3. ~(Abs(i) > Len(t)) /\ i # Len(t)
    BY <1>1, <1>2, <1>4, <2>1, <2>2
  <2>. QED
    BY <2>1, <2>2, <2>3 DEF GetAtOutcome
<1>8. InOrder("insert_at", i, s, t)
  BY <1>5, <1>6, <1>7 DEF InOrder
<1>9. PICK f : Origins(s, t, f)
  BY <1>5
<1>10. Len(t) <= MaxSize
  BY <1>1, <1>4 DEF s
<1>. QED
  BY <1>3, <1>4, <1>8, <1>9, <1>10, OneListChanges DEF s

\* insert_at with a value puts in a new cell, as push_back does.
LEMMA InsertValueAtKeeps ==
  ASSUME Inv, NEW l \in ListNames, NEW v \in Scalars, NEW i \in Index, InsertValueAt(l, v, i)
  PROVE  Inv' /\ KeepsOrder
<1>1. CASE InsertOutcome(list[l], i) = "ok"
  <2>1. PICK c \in Free : list' = [list EXCEPT ![l] = InsertOf(list[l], i, c)] /\ NewCell(c, v)
    BY <1>1 DEF InsertValueAt, Inv
  <2>2. /\ heap' \in [Cells -> Scalars] /\ lent' \subseteq Cells
        /\ lent \ Free \subseteq lent' /\ c \in Cells
    BY <2>1, NewCellKeeps
  <2>3. Others("insert_at", l, i, "ok")
    BY <1>1, <2>2 DEF Others, InsertValueAt, Calls, Outcomes, Inv, TypeOK
  <2>4. Len(list[l]) < MaxSize
    BY DEF InsertValueAt
  <2>. QED
    BY <1>1, <2>1, <2>2, <2>3, <2>4, PutInKeeps
<1>2. CASE InsertOutcome(list[l], i) # "ok"
  <2>1. InsertOutcome(list[l], i) \in Outcomes
    BY DEF InsertOutcome, Outcomes
  <2>2. /\ Done("insert_at", l, i, InsertOutcome(list[l], i))
        /\ UNCHANGED <<list, heap, lent, ext>>
    BY <1>2 DEF InsertValueAt
  <2>3. Others("insert_at", l, i, InsertOutcome(list[l], i))
    BY <2>1, <2>2 DEF Others, Calls, Inv, TypeOK
  <2>. QED
    BY <2>2, <2>3, NoListChanges
<1>. QED
  BY <1>1, <1>2

\* A Variable put in is lent from then on, so it may be put in again.
LEMMA InsertVariableAtKeeps ==
  ASSUME Inv, NEW l \in ListNames, NEW i \in Index, InsertVariableAt(l, i)
  PROVE  Inv' /\ KeepsOrder
<1>1. CASE InsertOutcome(list[l], i) = "ok"
  <2>1. /\ list' = [list EXCEPT ![l] = InsertOf(list[l], i, ext)]
        /\ lent' = lent \cup {ext} /\ ext # NoCell /\ Len(list[l]) < MaxSize
        /\ UNCHANGED <<heap, ext>> /\ Done("insert_at", l, i, "ok")
    BY <1>1 DEF InsertVariableAt, Inv
  <2>2. ext \in Cells
    BY <2>1 DEF Inv, TypeOK
  <2>3. Others("insert_at", l, i, "ok")
    BY <2>1, <2>2 DEF Others, Calls, Outcomes, Inv, TypeOK
  <2>. QED
    BY <1>1, <2>1, <2>2, <2>3, PutInKeeps
<1>2. CASE InsertOutcome(list[l], i) # "ok"
  <2>1. InsertOutcome(list[l], i) \in Outcomes
    BY DEF InsertOutcome, Outcomes
  <2>2. /\ Done("insert_at", l, i, InsertOutcome(list[l], i))
        /\ UNCHANGED <<list, heap, lent, ext>>
    BY <1>2 DEF InsertVariableAt
  <2>3. Others("insert_at", l, i, InsertOutcome(list[l], i))
    BY <2>1, <2>2 DEF Others, Calls, Inv, TypeOK
  <2>. QED
    BY <2>2, <2>3, NoListChanges
<1>. QED
  BY <1>1, <1>2

\* remove_at takes one element out, if the index is one.
LEMMA RemoveAtIndexKeeps ==
  ASSUME Inv, NEW l \in ListNames, NEW i \in Index, RemoveAtIndex(l, i)
  PROVE  Inv' /\ KeepsOrder
<1>. DEFINE s == list[l]
            how == RemoveAtOutcome(s, i)
            p == FromEnd(s, i) + 1
            t == RemoveAt(s, p)
<1>1. how \in Outcomes
  BY DEF RemoveAtOutcome, Outcomes
<1>2. Others("remove_at", l, i, how)
  BY <1>1 DEF Others, RemoveAtIndex, Calls, Inv, TypeOK
<1>3. CASE how = "ok" /\ Abs(i) <= Len(s)
  <2>1. list' = [list EXCEPT ![l] = t]
    BY <1>3 DEF RemoveAtIndex, Inv
  <2>2. s \in Seq(Cells) /\ Len(s) \in Nat /\ Len(s) <= MaxSize /\ MaxSize \in Nat
    BY TheList
  <2>3. p \in 1..Len(s)
    <3>1. i \in Int
      BY <2>2 DEF Index
    <3>. HIDE DEF s
    <3>2. ~(Abs(i) > Len(s))
      BY <1>3, <2>2, <3>1 DEF Abs
    <3>3. i # Len(s)
      <4>1. i = Len(s) => how = "undefined"
        BY <3>2 DEF RemoveAtOutcome
      <4>. QED
        BY <1>3, <4>1
    <3>. QED
      BY <1>3, <2>2, <3>1, <3>3 DEF Abs, FromEnd
  <2>. HIDE DEF s, p, t
  <2>4. /\ t \in Seq(Cells) /\ Len(t) = Len(s) - 1
        /\ \A k \in 1..(Len(s) - 1) : t[k] = IF k < p THEN s[k] ELSE s[k + 1]
    BY <2>2, <2>3, RemoveAtElements DEF t
  <2>. DEFINE f == [k \in 1..Len(t) |-> IF k < p THEN k ELSE k + 1]
  <2>5. Subsequence(t, s) /\ Origins(s, t, f)
    <3>1. f \in [1..Len(t) -> 1..Len(s)]
      BY <2>2, <2>3, <2>4
    <3>2. \A k \in 1..Len(t) : f[k] = IF k < p THEN k ELSE k + 1
      OBVIOUS
    <3>. HIDE DEF f
    <3>3. \A j, k \in 1..Len(t) : j < k => f[j] < f[k]
      BY <2>2, <2>3, <2>4, <3>2
    <3>4. \A k \in 1..Len(t) : t[k] = s[f[k]]
      BY <2>2, <2>3, <2>4, <3>2
    <3>. QED
      BY <2>2, <2>4, <3>1, <3>3, <3>4, Shrunk
  <2>. HIDE DEF f
  <2>6. InOrder("remove_at", i, s, t)
    BY <2>5 DEF InOrder
  <2>7. Len(t) <= MaxSize
    BY <2>2, <2>4
  <2>. HIDE DEF how
  <2>. QED
    BY <1>2, <2>1, <2>4, <2>5, <2>6, <2>7, OneListChanges DEF s
<1>4. CASE ~(how = "ok" /\ Abs(i) <= Len(s))
  <2>1. UNCHANGED list
    BY <1>4 DEF RemoveAtIndex
  <2>. QED
    BY <1>2, <2>1, NoListChanges
<1>. QED
  BY <1>3, <1>4

\* remove takes the first elements or none.
LEMMA RemoveNKeeps ==
  ASSUME Inv, NEW l \in ListNames, NEW n \in Index, RemoveN(l, n)
  PROVE  Inv' /\ KeepsOrder
<1>. DEFINE s == list[l]
            t == RemoveFront(s, n)
<1>1. s \in Seq(Cells) /\ Len(s) \in Nat /\ Len(s) <= MaxSize /\ MaxSize \in Nat
  BY TheList
<1>2. n \in Int
  BY <1>1 DEF Index
<1>3. PICK how \in {"ok", "bad_arg"} : Done("remove", l, n, how)
  BY DEF RemoveN
<1>4. Others("remove", l, n, how)
  BY <1>3 DEF Others, RemoveN, Calls, Outcomes, Inv, TypeOK
<1>5. CASE n < 0 \/ ~(n <= Len(s))
  <2>1. UNCHANGED list
    BY <1>5 DEF RemoveN
  <2>. QED
    BY <1>4, <2>1, NoListChanges
<1>6. CASE ~(n < 0) /\ n <= Len(s)
  <2>1. list' = [list EXCEPT ![l] = t]
    BY <1>6 DEF RemoveN, Inv
  <2>2. n \in 0..Len(s)
    BY <1>1, <1>2, <1>6
  <2>. HIDE DEF s, t
  <2>3. /\ t \in Seq(Cells) /\ Len(t) = Len(s) - n
        /\ \A k \in 1..(Len(s) - n) : t[k] = s[n + k]
    BY <1>1, <2>2, RemoveFrontElements DEF t
  <2>4. IsSuffix(t, s)
    BY <1>1, <2>2, <2>3, SuffixBy
  <2>. DEFINE f == [k \in 1..Len(t) |-> n + k]
  <2>5. Subsequence(t, s) /\ Origins(s, t, f)
    <3>1. f \in [1..Len(t) -> 1..Len(s)] /\ \A k \in 1..Len(t) : f[k] = n + k
      BY <1>1, <2>2, <2>3
    <3>. HIDE DEF f
    <3>2. \A j, k \in 1..Len(t) : j < k => f[j] < f[k]
      BY <1>1, <1>2, <2>3, <3>1
    <3>3. \A k \in 1..Len(t) : t[k] = s[f[k]]
      BY <2>3, <3>1
    <3>. QED
      BY <1>1, <2>3, <3>1, <3>2, <3>3, Shrunk
  <2>. HIDE DEF f
  <2>6. InOrder("remove", n, s, t)
    BY <2>4, <2>5 DEF InOrder
  <2>7. Len(t) <= MaxSize
    BY <1>1, <2>2, <2>3
  <2>. QED
    BY <1>4, <2>1, <2>3, <2>5, <2>6, <2>7, OneListChanges DEF s
<1>. QED
  BY <1>5, <1>6

\* get_at lends nothing: it hands out the element, or nothing.
LEMMA GetAtKeeps ==
  ASSUME Inv, NEW l \in ListNames, NEW i \in Index, GetAt(l, i)
  PROVE  Inv' /\ KeepsOrder
<1>. DEFINE s == list[l]
            how == GetAtOutcome(s, i)
<1>1. how \in {"null", "out_of_range", "ok"}
  BY DEF GetAtOutcome
<1>2. s \in Seq(Cells) /\ Len(s) \in Nat /\ MaxSize \in Nat
  BY TheList
<1>3. /\ UNCHANGED <<list, heap, lent>> /\ Done("get_at", l, i, how)
      /\ ext' = CASE how = "ok" -> s[FromEnd(s, i) + 1]
                  [] how = "null" -> NoCell
                  [] OTHER -> ext
  BY DEF GetAt
<1>4. how = "ok" => FromEnd(s, i) + 1 \in 1..Len(s)
  <2>1. i \in Int
    BY <1>2 DEF Index
  <2>. HIDE DEF s
  <2>2. Abs(i) > Len(s) => how = "null"
    <3>1. Abs(i) > Len(s) => i # Len(s)
      BY <1>2, <2>1 DEF Abs
    <3>. QED
      BY <3>1 DEF GetAtOutcome
  <2>3. i = Len(s) => how = "out_of_range"
    <3>1. i = Len(s) => ~(Abs(i) > Len(s))
      BY <1>2, <2>1 DEF Abs
    <3>. QED
      BY <3>1 DEF GetAtOutcome
  <2>4. how = "ok" => ~(Abs(i) > Len(s)) /\ i # Len(s)
    BY <2>2, <2>3
  <2>. HIDE DEF how
  <2>. QED
    BY <1>2, <2>1, <2>4 DEF Abs, FromEnd
<1>5. ext' \in Cells \cup {NoCell}
  <2>1. how = "ok" => s[FromEnd(s, i) + 1] \in Cells
    BY <1>2, <1>4, ElementOfSeq
  <2>2. ext \in Cells \cup {NoCell}
    BY DEF Inv, TypeOK
  <2>. HIDE DEF how, s
  <2>. QED
    BY <1>1, <1>3, <2>1, <2>2
<1>6. Others("get_at", l, i, how)
  <2>. HIDE DEF how
  <2>. QED
    BY <1>1, <1>3, <1>5 DEF Others, Calls, Outcomes, Inv, TypeOK
<1>. QED
  BY <1>3, <1>6, NoListChanges

\* contains and compare look only.
LEMMA LooksKeep ==
  ASSUME Inv, NEW l \in ListNames,
         (\E v \in Scalars : ContainsValue(l, v)) \/ (\E m \in ListNames : CompareLists(l, m))
  PROVE  Inv' /\ KeepsOrder
<1>1. UNCHANGED <<list, heap, ext, lent>>
  BY DEF ContainsValue, CompareLists
<1>2. PICK op \in {"contains", "compare"}, how \in {"true", "false", "bad_arg"} :
         Done(op, l, 0, how)
  BY DEF ContainsValue, CompareLists
<1>3. Others(op, l, 0, how)
  BY <1>1, <1>2 DEF Others, Calls, Outcomes, Inv, TypeOK
<1>. QED
  BY <1>1, <1>3, NoListChanges

\* reverse and shuffle move every element somewhere, no two to one place.
LEMMA RearrangeKeeps ==
  ASSUME Inv, NEW l \in ListNames, NEW t, NEW f \in [1..Len(list[l]) -> 1..Len(list[l])],
         t \in Seq(Cells), Len(t) = Len(list[l]),
         \A j, k \in 1..Len(list[l]) : j # k => f[j] # f[k],
         \A k \in 1..Len(list[l]) : t[k] = list[l][f[k]],
         list' = [list EXCEPT ![l] = t], UNCHANGED <<heap, ext, lent>>,
         NEW op \in {"reverse", "shuffle"}, Done(op, l, 0, "ok")
  PROVE  Inv' /\ KeepsOrder
<1>1. Len(list[l]) \in Nat /\ Len(t) <= MaxSize
  BY TheList
<1>2. Origins(list[l], t, f)
  <2>. DEFINE n == Len(list[l])
  <2>1. Len(t) = n /\ 1..n \subseteq 0..n /\ 0 \notin 1..n
    BY <1>1
  <2>. HIDE DEF n
  <2>2. f \in [1..n -> 1..n]
    BY DEF n
  <2>3. f \in [1..n -> 0..n]
    BY <2>1, <2>2
  <2>4. \A k \in 1..n : f[k] # 0
    BY <2>1, <2>2
  <2>. QED
    BY <2>1, <2>3, <2>4 DEF Origins, n
<1>3. InOrder(op, 0, list[l], t)
  BY DEF InOrder
<1>4. Others(op, l, 0, "ok")
  BY DEF Others, Calls, Outcomes, Inv, TypeOK
<1>. QED
  BY <1>1, <1>2, <1>3, <1>4, OneListChanges

\* reverse: position k comes from the k-th from the end.
LEMMA ReverseListKeeps ==
  ASSUME Inv, NEW l \in ListNames, ReverseList(l)
  PROVE  Inv' /\ KeepsOrder
<1>. DEFINE s == list[l]
            f == [k \in 1..Len(s) |-> Len(s) - k + 1]
<1>1. s \in Seq(Cells) /\ Len(s) \in Nat
  BY TheList
<1>2. /\ Reverse(s) \in Seq(Cells) /\ Len(Reverse(s)) = Len(s)
      /\ \A k \in 1..Len(s) : Reverse(s)[k] = s[Len(s) - k + 1]
  BY <1>1, ReverseElements
<1>3. /\ list' = [list EXCEPT ![l] = Reverse(s)] /\ UNCHANGED <<heap, ext, lent>>
      /\ Done("reverse", l, 0, "ok")
  BY DEF ReverseList, Inv
<1>. HIDE DEF s
<1>4. /\ f \in [1..Len(s) -> 1..Len(s)]
      /\ \A k \in 1..Len(s) : f[k] = Len(s) - k + 1
  BY <1>1
<1>. HIDE DEF f
<1>5. \A j, k \in 1..Len(s) : j # k => f[j] # f[k]
  BY <1>1, <1>4
<1>6. \A k \in 1..Len(s) : Reverse(s)[k] = s[f[k]]
  BY <1>2, <1>4
<1>. QED
  BY <1>2, <1>3, <1>4, <1>5, <1>6, RearrangeKeeps DEF s

\* shuffle: any permutation of the positions.
LEMMA ShuffleListKeeps ==
  ASSUME Inv, NEW l \in ListNames, ShuffleList(l)
  PROVE  Inv' /\ KeepsOrder
<1>. DEFINE s == list[l]
<1>1. s \in Seq(Cells) /\ Len(s) \in Nat /\ \A k \in 1..Len(s) : s[k] \in Cells
  BY TheList
<1>2. PICK f \in [1..Len(s) -> 1..Len(s)] :
         /\ \A j, k \in 1..Len(s) : j # k => f[j] # f[k]
         /\ list' = [list EXCEPT ![l] = [k \in 1..Len(s) |-> s[f[k]]]]
  BY DEF ShuffleList, Permuted
<1>. DEFINE t == [k \in 1..Len(s) |-> s[f[k]]]
<1>. HIDE DEF s
<1>3. t \in [1..Len(s) -> Cells] /\ \A k \in 1..Len(s) : t[k] = s[f[k]]
  BY <1>1
<1>4. t \in Seq(Cells) /\ Len(t) = Len(s)
  <2>1. t \in Seq(Cells) /\ DOMAIN t = 1..Len(s)
    BY <1>1, <1>3, SeqDef
  <2>. HIDE DEF t
  <2>. QED
    BY <1>1, <2>1, LenProperties
<1>5. list' = [list EXCEPT ![l] = t]
  BY <1>2
<1>6. UNCHANGED <<heap, ext, lent>> /\ Done("shuffle", l, 0, "ok")
  BY DEF ShuffleList
<1>. HIDE DEF t
<1>. QED
  BY <1>2, <1>3, <1>4, <1>5, <1>6, RearrangeKeeps DEF s

\* extend: a new cell for each element of the source, behind the others.
LEMMA ExtendKeeps ==
  ASSUME Inv, NEW l \in ListNames, NEW m \in ListNames, Extend(l, m)
  PROVE  Inv' /\ KeepsOrder
<1>. DEFINE s == list[l]
            n == Len(list[m])
<1>1. /\ s \in Seq(Cells) /\ Len(s) \in Nat
      /\ \A k \in 1..Len(s) : s[k] \in Cells /\ s[k] \notin Free
      /\ n \in Nat /\ \A k \in 1..n : list[m][k] \in Cells
  BY TheList
<1>2. PICK cs \in [1..n -> Free] :
         /\ IsInjective(cs)
         /\ list' = [list EXCEPT ![l] = ExtendOf(list[l], cs, list[m])]
         /\ heap' = [c \in Cells |->
                       IF c \in Range(cs)
                       THEN heap[list[m][CHOOSE k \in DOMAIN cs : cs[k] = c]]
                       ELSE heap[c]]
         /\ lent' = lent \ Range(cs)
  BY DEF Extend, Inv
<1>3. /\ Len(s) + n <= MaxSize /\ Done("extend", l, 0, "ok") /\ UNCHANGED ext
  BY DEF Extend
<1>4. DOMAIN cs = 1..n /\ Range(cs) \subseteq Free /\ Free \subseteq Cells
  BY <1>2 DEF Range, Free
<1>5. \A j, k \in 1..n : cs[j] = cs[k] => j = k
  BY <1>2, <1>4 DEF IsInjective
<1>6. Others("extend", l, 0, "ok")
  <2>1. heap' \in [Cells -> Scalars]
    <3>1. heap \in [Cells -> Scalars]
      BY DEF Inv, TypeOK
    <3>2. ASSUME NEW c \in Cells, c \in Range(cs)
          PROVE  list[m][CHOOSE k \in DOMAIN cs : cs[k] = c] \in Cells
      <4>1. \E k \in DOMAIN cs : cs[k] = c
        BY <3>2 DEF Range
      <4>2. (CHOOSE k \in DOMAIN cs : cs[k] = c) \in DOMAIN cs
        BY <4>1
      <4>. QED
        BY <1>1, <1>4, <4>2
    <3>. QED
      BY <1>2, <3>1, <3>2
  <2>2. lent' \subseteq Cells /\ lent \ Free \subseteq lent' /\ ext' \in Cells \cup {NoCell}
    BY <1>2, <1>3, <1>4 DEF Inv, TypeOK
  <2>. QED
    BY <1>3, <2>1, <2>2 DEF Others, Calls, Outcomes
<1>. DEFINE t == s \o cs
<1>7. /\ t \in Seq(Cells) /\ Len(t) = Len(s) + n
      /\ \A k \in 1..(Len(s) + n) : t[k] = IF k <= Len(s) THEN s[k] ELSE cs[k - Len(s)]
  <2>. HIDE DEF s, n
  <2>1. cs \in [1..n -> Cells]
    BY <1>2, <1>4
  <2>2. cs \in Seq(Cells)
    BY <1>1, <2>1, SeqDef
  <2>3. Len(cs) = n
    BY <1>1, <1>4, <2>2, LenProperties
  <2>4. /\ t \in Seq(Cells) /\ Len(t) = Len(s) + Len(cs)
        /\ \A k \in 1..(Len(s) + Len(cs)) :
              t[k] = IF k <= Len(s) THEN s[k] ELSE cs[k - Len(s)]
    BY <1>1, <2>2, ConcatProperties
  <2>. HIDE DEF t
  <2>. QED
    BY <2>3, <2>4
<1>8. list' = [list EXCEPT ![l] = t]
  BY <1>2 DEF ExtendOf
<1>. DEFINE f == [k \in 1..Len(t) |-> IF k <= Len(s) THEN k ELSE 0]
            g == [k \in 1..Len(s) |-> k]
<1>9. Subsequence(s, t) /\ Origins(s, t, f)
  <2>. HIDE DEF s, n, t
  <2>1. g \in [1..Len(s) -> 1..Len(t)] /\ \A k \in 1..Len(s) : g[k] = k
    BY <1>1, <1>7
  <2>2. /\ f \in [1..Len(t) -> 0..Len(s)]
        /\ \A k \in 1..Len(t) : f[k] = IF k <= Len(s) THEN k ELSE 0
    BY <1>1, <1>7
  <2>. HIDE DEF f, g
  <2>3. Subsequence(s, t)
    <3>1. \A k \in 1..Len(s) : s[k] = t[g[k]]
      <4>1. \A k \in 1..Len(s) : k \in 1..(Len(s) + n) /\ k <= Len(s)
        BY <1>1
      <4>. QED
        BY <1>7, <2>1, <4>1
    <3>2. \A j, k \in 1..Len(s) : j < k => g[j] < g[k]
      BY <2>1
    <3>. QED
      BY <1>1, <1>7, <2>1, <3>1, <3>2, SubsequenceBy
  <2>4. \A j, k \in 1..Len(t) : f[j] = f[k] /\ f[j] # 0 => j = k
    BY <2>2
  <2>5. ASSUME NEW k \in 1..Len(t)
        PROVE  IF f[k] # 0 THEN t[k] = s[f[k]]
               ELSE \/ t[k] \in lent'
                    \/ t[k] \in Free /\ \A j \in 1..Len(t) : t[j] = t[k] => j = k
    <3>1. CASE k <= Len(s)
      <4>1. k \in 1..(Len(s) + n)
        BY <1>7
      <4>2. f[k] = k /\ f[k] # 0 /\ t[k] = s[k]
        BY <1>1, <1>7, <2>2, <3>1, <4>1
      <4>. QED
        BY <4>2
    <3>2. CASE ~(k <= Len(s))
      <4>1. k \in 1..(Len(s) + n) /\ k - Len(s) \in 1..n
        BY <1>1, <1>7, <3>2
      <4>2. f[k] = 0 /\ t[k] = cs[k - Len(s)] /\ cs[k - Len(s)] \in Free
        BY <1>2, <1>7, <2>2, <3>2, <4>1
      <4>3. ASSUME NEW j \in 1..Len(t), t[j] = t[k] PROVE j = k
        <5>1. j \in 1..(Len(s) + n)
          BY <1>7
        <5>2. CASE j <= Len(s)
          <6>1. j \in 1..Len(s) /\ t[j] = s[j]
            BY <1>1, <1>7, <5>1, <5>2
          <6>. QED
            BY <1>1, <4>2, <4>3, <6>1
        <5>3. CASE ~(j <= Len(s))
          <6>1. j - Len(s) \in 1..n /\ t[j] = cs[j - Len(s)]
            BY <1>1, <1>7, <5>1, <5>3
          <6>2. j - Len(s) = k - Len(s)
            BY <1>5, <4>1, <4>2, <4>3, <6>1
          <6>. QED
            BY <1>1, <4>1, <5>1, <6>2
        <5>. QED
          BY <5>2, <5>3
      <4>. QED
        BY <4>2, <4>3
    <3>. QED
      BY <3>1, <3>2
  <2>. QED
    BY <2>2, <2>3, <2>4, <2>5 DEF Origins
<1>. HIDE DEF f, g, t
<1>10. InOrder("extend", 0, s, t) /\ Len(t) <= MaxSize
  BY <1>3, <1>7, <1>9 DEF InOrder
<1>. HIDE DEF n
<1>. QED
  BY <1>6, <1>7, <1>8, <1>9, <1>10, OneListChanges

\* makeVar, and Variable::set, which writes to the cell of the caller.
LEMMA VariableKeeps ==
  ASSUME Inv, NEW v \in Scalars, NewVariable(v) \/ SetVariable(v)
  PROVE  Inv' /\ KeepsOrder
<1>1. CASE NewVariable(v)
  <2>1. PICK c \in Free : ext' = c /\ NewCell(c, v)
    BY <1>1 DEF NewVariable
  <2>2. /\ heap' \in [Cells -> Scalars] /\ lent' \subseteq Cells
        /\ lent \ Free \subseteq lent' /\ c \in Cells
    BY <2>1, NewCellKeeps
  <2>3. UNCHANGED list /\ Others("new", call.list, 0, "ok")
    BY <1>1, <2>1, <2>2 DEF NewVariable, Others, Calls, Outcomes, Inv, TypeOK
  <2>. QED
    BY <2>3, NoListChanges
<1>2. CASE SetVariable(v)
  <2>1. PICK how \in {"ok", "bad_arg"} : Done("set", call.list, 0, how)
    BY <1>2 DEF SetVariable
  <2>2. UNCHANGED <<list, ext, lent>>
    BY <1>2 DEF SetVariable
  <2>3. heap' \in [Cells -> Scalars]
    BY <1>2 DEF SetVariable, Inv, TypeOK
  <2>4. Others("set", call.list, 0, how)
    BY <2>1, <2>2, <2>3 DEF Others, Calls, Outcomes, Inv, TypeOK
  <2>. QED
    BY <2>2, <2>4, NoListChanges
<1>. QED
  BY <1>1, <1>2

-----------------------------------------------------------------------------
(* The theorems                                                             *)

\* No list holds anything, so none shares.
LEMMA InitInv == Init => Inv
<1>. SUFFICES ASSUME Init PROVE Inv
  OBVIOUS
<1>1. \A l \in ListNames : list[l] = <<>> /\ list[l] \in Seq(Cells) /\ Len(list[l]) = 0
  BY EmptySeq DEF Init
<1>2. list \in [ListNames -> Seq(Cells)]
  BY <1>1 DEF Init
<1>3. TypeOK
  BY <1>1, SizeAssumption DEF Init, TypeOK, Calls, Outcomes
<1>4. CopiesAreIndependent
  BY <1>1 DEF CopiesAreIndependent
<1>. QED
  BY <1>2, <1>3, <1>4 DEF Inv

\* Every call keeps the invariant, and the order.
LEMMA CallKeeps ==
  ASSUME Inv, Next
  PROVE  Inv' /\ KeepsOrder
<1>1. CASE \E l \in ListNames, v \in Scalars : PushBack(l, v) \/ ContainsValue(l, v)
  BY <1>1, PushBackKeeps, LooksKeep
<1>2. CASE \E l \in ListNames, v \in Scalars, i \in Index : InsertValueAt(l, v, i)
  BY <1>2, InsertValueAtKeeps
<1>3. CASE \E l \in ListNames, i \in Index :
             InsertVariableAt(l, i) \/ RemoveAtIndex(l, i) \/ RemoveN(l, i) \/ GetAt(l, i)
  BY <1>3, InsertVariableAtKeeps, RemoveAtIndexKeeps, RemoveNKeeps, GetAtKeeps
<1>4. CASE \E l \in ListNames : ReverseList(l) \/ ShuffleList(l)
  BY <1>4, ReverseListKeeps, ShuffleListKeeps
<1>5. CASE \E l, m \in ListNames : Extend(l, m) \/ CompareLists(l, m)
  BY <1>5, ExtendKeeps, LooksKeep
<1>6. CASE \E v \in Scalars : NewVariable(v) \/ SetVariable(v)
  BY <1>6, VariableKeeps
<1>. QED
  BY <1>1, <1>2, <1>3, <1>4, <1>5, <1>6 DEF Next

\* A step that changes nothing keeps it too.
LEMMA StepInv == Inv /\ [Next]_vars => Inv'
<1>. SUFFICES ASSUME Inv, [Next]_vars PROVE Inv'
  OBVIOUS
<1>1. CASE Next
  BY <1>1, CallKeeps
<1>2. CASE UNCHANGED vars
  BY <1>2 DEF vars, Inv, TypeOK, CopiesAreIndependent
<1>. QED
  BY <1>1, <1>2

\* Inv holds in every state of every behaviour.
LEMMA InvAlways == Spec => []Inv
  BY InitInv, StepInv, PTL DEF Spec

\* Lists hold varType objects, never a null pointer, and stay within MaxSize;
\* every call ends in one of the outcomes.
THEOREM TypeCorrect == Spec => []TypeOK
<1>1. Inv => TypeOK
  BY DEF Inv
<1>. QED
  BY <1>1, InvAlways, PTL

\* Positions of this or another list share a value only when a Variable was
\* inserted there, whatever was pushed, inserted, extended, reversed, shuffled
\* or removed, in any order.
THEOREM CopiesAreIndependentHolds == Spec => []CopiesAreIndependent
<1>1. Inv => CopiesAreIndependent
  BY DEF Inv
<1>. QED
  BY <1>1, InvAlways, PTL

\* No call but reverse and shuffle moves an element past another; remove takes
\* from the front; get_at finds what insert_at put at an index from the front.
THEOREM OrderIsKeptHolds == Spec => OrderIsKept
<1>1. Inv /\ [Next]_vars => [KeepsOrder]_vars
  BY CallKeeps
<1>. QED
  BY <1>1, InvAlways, PTL DEF Spec, OrderIsKept
=============================================================================
