-------------------------- MODULE GameClientProofs --------------------------
(***************************************************************************)
(* Proofs about GameClient, for any number of messages in either           *)
(* direction.                                                              *)
(***************************************************************************)
EXTENDS GameClient, SequenceTheorems, TLAPS

Sent == 1..MaxSends
Arriving == 1..MaxReads

-----------------------------------------------------------------------------
(* Sequences of message numbers                                             *)

Sorted(s) == \A i, j \in 1..Len(s) : i < j => s[i] < s[j]

\* Messages are written and kept in the order they were sent.
LEMMA SortedAppend ==
  ASSUME NEW s \in Seq(Sent), Sorted(s), NEW m \in Sent, \A x \in RangeOf(s) : x < m
  PROVE  /\ Append(s, m) \in Seq(Sent) /\ Len(Append(s, m)) = Len(s) + 1
         /\ Sorted(Append(s, m)) /\ RangeOf(Append(s, m)) = RangeOf(s) \cup {m}
<1>. DEFINE c == Append(s, m)
<1>1. /\ c \in Seq(Sent) /\ Len(s) \in Nat /\ Len(c) = Len(s) + 1 /\ c[Len(s) + 1] = m
      /\ \A i \in 1..Len(s) : c[i] = s[i]
  BY AppendProperties, LenProperties
<1>2. \A i \in 1..Len(s) : s[i] < m
  BY DEF RangeOf
<1>. HIDE DEF c
<1>3. Sorted(c)
  BY <1>1, <1>2 DEF Sorted
<1>4. RangeOf(c) = RangeOf(s) \cup {m}
  <2>1. \A i \in 1..Len(c) : i \in 1..Len(s) \/ i = Len(s) + 1
    BY <1>1
  <2>2. Len(s) + 1 \in 1..Len(c) /\ \A i \in 1..Len(s) : i \in 1..Len(c)
    BY <1>1
  <2>. QED
    BY <1>1, <2>1, <2>2 DEF RangeOf
<1>. QED
  BY <1>1, <1>3, <1>4 DEF c

\* The front of a sorted sequence may go.
LEMMA SortedTail ==
  ASSUME NEW s \in Seq(Sent), Sorted(s), s # <<>>
  PROVE  /\ Tail(s) \in Seq(Sent) /\ Len(Tail(s)) = Len(s) - 1
         /\ Sorted(Tail(s)) /\ RangeOf(Tail(s)) \subseteq RangeOf(s)
<1>. DEFINE t == Tail(s)
<1>1. /\ t \in Seq(Sent) /\ Len(s) \in Nat /\ Len(s) # 0 /\ Len(t) = Len(s) - 1
      /\ \A i \in 1..Len(t) : t[i] = s[i + 1]
  BY HeadTailProperties, LenProperties, EmptySeq
<1>. HIDE DEF t
<1>2. \A i \in 1..Len(t) : i + 1 \in 1..Len(s)
  BY <1>1
<1>3. Sorted(t)
  <2>. SUFFICES ASSUME NEW i \in 1..Len(t), NEW j \in 1..Len(t), i < j PROVE t[i] < t[j]
    BY DEF Sorted
  <2>1. i + 1 < j + 1
    BY <1>1
  <2>. QED
    BY <1>1, <1>2, <2>1 DEF Sorted
<1>4. RangeOf(t) \subseteq RangeOf(s)
  BY <1>1, <1>2 DEF RangeOf
<1>. QED
  BY <1>1, <1>3, <1>4 DEF t

\* When the oldest write ends, the oldest buffer is none that a later write
\* refers to.
LEMMA OldestIsFree ==
  ASSUME NEW b \in Seq(Sent), NEW w \in Seq(Sent), Sorted(b), Sorted(w), w # <<>>,
         RangeOf(w) \subseteq RangeOf(b)
  PROVE  b # <<>> /\ RangeOf(Tail(w)) \subseteq RangeOf(Tail(b))
<1>0. Sent \subseteq Nat
  BY DEF Sent
<1>1. /\ Len(b) \in Nat /\ Len(w) \in Nat /\ Len(w) # 0
      /\ \A i \in 1..Len(b) : b[i] \in Nat
      /\ \A i \in 1..Len(w) : w[i] \in Nat
  <2>1. Len(b) \in Nat /\ Len(w) \in Nat /\ Len(w) # 0
    BY LenProperties, EmptySeq
  <2>2. \A i \in 1..Len(b) : b[i] \in Sent
    BY ElementOfSeq
  <2>3. \A i \in 1..Len(w) : w[i] \in Sent
    BY ElementOfSeq
  <2>. QED
    BY <1>0, <2>1, <2>2, <2>3
<1>2. PICK i \in 1..Len(b) : b[i] = w[1]
  <2>1. 1 \in 1..Len(w)
    BY <1>1
  <2>. QED
    BY <2>1 DEF RangeOf
<1>3. b # <<>>
  BY <1>2, EmptySeq
<1>4. /\ Len(Tail(w)) = Len(w) - 1 /\ \A k \in 1..Len(Tail(w)) : Tail(w)[k] = w[k + 1]
      /\ Len(Tail(b)) = Len(b) - 1 /\ \A k \in 1..Len(Tail(b)) : Tail(b)[k] = b[k + 1]
  BY <1>3, HeadTailProperties
<1>5. ASSUME NEW k \in 1..Len(Tail(w)) PROVE Tail(w)[k] \in RangeOf(Tail(b))
  <2>1. k + 1 \in 1..Len(w) /\ 1 \in 1..Len(w) /\ 1 < k + 1
    BY <1>1, <1>4
  <2>2. w[1] < w[k + 1]
    BY <2>1 DEF Sorted
  <2>3. PICK j \in 1..Len(b) : b[j] = w[k + 1]
    BY <2>1 DEF RangeOf
  <2>4. j # 1
    <3>1. 1 \in 1..Len(b) /\ (i = 1 \/ 1 < i)
      BY <1>1, <1>2
    <3>2. i = 1 \/ b[1] < b[i]
      BY <1>2, <3>1 DEF Sorted
    <3>3. b[1] <= b[i]
      BY <1>1, <1>2, <3>1, <3>2
    <3>. QED
      BY <1>1, <1>2, <2>1, <2>2, <2>3, <3>1, <3>3
  <2>5. j - 1 \in 1..Len(Tail(b)) /\ (j - 1) + 1 = j
    BY <1>1, <1>4, <2>3, <2>4
  <2>6. Tail(b)[j - 1] = w[k + 1]
    BY <1>4, <2>3, <2>5
  <2>7. w[k + 1] \in RangeOf(Tail(b))
    BY <2>5, <2>6 DEF RangeOf
  <2>. QED
    BY <1>4, <2>7
<1>6. RangeOf(Tail(w)) \subseteq RangeOf(Tail(b))
  BY <1>5 DEF RangeOf
<1>. QED
  BY <1>3, <1>6

-----------------------------------------------------------------------------
(* The inductive invariant                                                  *)

\* What was sent is buffered and written in the order of sending.
InOrder ==
    /\ Sorted(writeBuffer) /\ Sorted(writes)
    /\ \A m \in RangeOf(writeBuffer) : m <= sent

Streams == received \in Seq(Arriving) /\ incoming \in Seq(Arriving)

Inv == TypeOK /\ Streams /\ InOrder /\ BufferOutlivesWrite

\* Nothing has been sent or read.
LEMMA InitInv == Init => Inv
<1>. SUFFICES ASSUME Init PROVE Inv
  OBVIOUS
<1>1. /\ <<>> \in Seq(Sent) /\ <<>> \in Seq(Arriving) /\ Len(<<>>) = 0
      /\ <<>> \o <<>> = <<>>
  BY EmptySeq, ConcatEmptySeq
<1>2. TypeOK
  <2>1. /\ pc = "check" /\ stage = "connecting"
        /\ closed = FALSE /\ reading = FALSE /\ gone = FALSE /\ muted = FALSE
        /\ sent \in 0..MaxSends
    BY BoundAssumption DEF Init
  <2>2. writeBuffer \in Seq(Sent) /\ writes \in Seq(Sent) /\ Len(writes) <= 2
    BY <1>1 DEF Init
  <2>3. Len(arrived) <= MaxReads
    BY <1>1, BoundAssumption DEF Init
  <2>4. arrived = received \o incoming
    BY <1>1 DEF Init
  <2>. QED
    BY <2>1, <2>2, <2>3, <2>4 DEF TypeOK, Sent
<1>3. Streams /\ InOrder /\ BufferOutlivesWrite
  BY <1>1 DEF Init, Streams, InOrder, Sorted, RangeOf, BufferOutlivesWrite
<1>. QED
  BY <1>2, <1>3 DEF Inv

\* Steps that touch no message keep the invariant.
LEMMA QuietKeepsInv ==
  ASSUME Inv,
         pc' \in {"check", "update", "turn", "exited", "aborted"},
         stage' \in {"connecting", "handshaking", "open", "failed"},
         closed' \in BOOLEAN, reading' \in BOOLEAN, gone' \in BOOLEAN, muted' \in BOOLEAN,
         UNCHANGED <<writeBuffer, writes, sent, incoming, received, arrived>>
  PROVE  Inv'
<1>1. TypeOK'
  BY DEF Inv, TypeOK
<1>2. Streams' /\ InOrder' /\ BufferOutlivesWrite'
  BY DEF Inv, Streams, InOrder, Sorted, RangeOf, BufferOutlivesWrite
<1>. QED
  BY <1>1, <1>2 DEF Inv

\* A message that arrives is the last in the stream.
LEMMA ReadKeepsInv == Inv /\ ReadMessage => Inv'
<1>. SUFFICES ASSUME Inv, ReadMessage PROVE Inv'
  OBVIOUS
<1>. DEFINE m == Len(arrived) + 1
            A == Seq(Arriving)
<1>1. /\ incoming' = Append(incoming, m) /\ arrived' = Append(arrived, m)
      /\ Len(arrived) < MaxReads
      /\ UNCHANGED <<pc, stage, closed, reading, gone, writeBuffer, writes, sent, received, muted>>
  BY DEF ReadMessage
<1>2. received \in A /\ incoming \in A /\ arrived = received \o incoming
  BY DEF Inv, Streams, TypeOK
<1>3. arrived \in A
  BY <1>2, ConcatProperties
<1>4. m \in Arriving
  BY <1>1, <1>3, LenProperties, BoundAssumption DEF Arriving
<1>. HIDE DEF m
<1>5. /\ Append(incoming, m) \in A
      /\ Len(Append(arrived, m)) = Len(arrived) + 1 /\ Len(arrived) \in Nat
  BY <1>2, <1>3, <1>4, AppendProperties, LenProperties
<1>6. Append(arrived, m) = received \o Append(incoming, m)
  <2>. DEFINE e == <<m>>
              r == received
              i == incoming
  <2>1. e \in A /\ r \in A /\ i \in A
    BY <1>2, <1>4
  <2>2. Append(i, m) = i \o e
    BY <1>2, <1>4, AppendIsConcat
  <2>3. Append(arrived, m) = arrived \o e
    BY <1>3, <1>4, AppendIsConcat
  <2>4. arrived = r \o i
    BY <1>2
  <2>. HIDE DEF e, r, i
  <2>5. (r \o i) \o e = r \o (i \o e)
    BY <2>1, ConcatAssociative
  <2>. QED
    BY <2>2, <2>3, <2>4, <2>5 DEF r, i
<1>7. Len(Append(arrived, m)) <= MaxReads
  BY <1>1, <1>5, BoundAssumption
<1>8. TypeOK'
  BY <1>1, <1>6, <1>7 DEF Inv, TypeOK
<1>9. Streams' /\ InOrder' /\ BufferOutlivesWrite'
  BY <1>1, <1>2, <1>5 DEF Inv, Streams, InOrder, Sorted, RangeOf, BufferOutlivesWrite
<1>. QED
  BY <1>8, <1>9 DEF Inv

\* receive() moves the stream to the caller.
LEMMA ReceiveKeeps ==
  ASSUME Inv, Receive, UNCHANGED arrived
  PROVE  Streams' /\ arrived' = received' \o incoming' /\ Len(arrived') <= MaxReads
<1>. DEFINE A == Seq(Arriving)
<1>1. received \in A /\ incoming \in A /\ arrived = received \o incoming /\ Len(arrived) <= MaxReads
  BY DEF Inv, Streams, TypeOK
<1>2. received \o incoming \in A
  BY <1>1, ConcatProperties
<1>3. received' = received \o incoming /\ incoming' = <<>>
  BY DEF Receive, EmptyStream
<1>4. (received \o incoming) \o <<>> = received \o incoming
  BY <1>2, ConcatEmptySeq
<1>5. Streams'
  BY <1>2, <1>3, EmptySeq DEF Streams
<1>. QED
  BY <1>1, <1>3, <1>4, <1>5

\* A write that ends well gives up the oldest buffer.
LEMMA WriteOkKeepsInv == Inv /\ WriteOk => Inv'
<1>. SUFFICES ASSUME Inv, WriteOk PROVE Inv'
  OBVIOUS
<1>1. /\ writes # <<>> /\ writes' = Tail(writes) /\ writeBuffer' = Tail(writeBuffer)
      /\ UNCHANGED <<pc, stage, closed, reading, gone, sent, incoming, received, arrived, muted>>
  BY DEF WriteOk, PopFront
<1>2. /\ writeBuffer \in Seq(Sent) /\ writes \in Seq(Sent) /\ Len(writes) <= 2
      /\ Len(writes) \in Nat
      /\ Sorted(writeBuffer) /\ Sorted(writes) /\ RangeOf(writes) \subseteq RangeOf(writeBuffer)
  BY LenProperties DEF Inv, TypeOK, InOrder, BufferOutlivesWrite, Sent
<1>3. writeBuffer # <<>> /\ RangeOf(Tail(writes)) \subseteq RangeOf(Tail(writeBuffer))
  BY <1>1, <1>2, OldestIsFree
<1>4. /\ Tail(writes) \in Seq(Sent) /\ Len(Tail(writes)) = Len(writes) - 1 /\ Sorted(Tail(writes))
      /\ Tail(writeBuffer) \in Seq(Sent) /\ Sorted(Tail(writeBuffer))
      /\ RangeOf(Tail(writeBuffer)) \subseteq RangeOf(writeBuffer)
  BY <1>1, <1>2, <1>3, SortedTail
<1>5. Len(Tail(writes)) <= 2
  BY <1>2, <1>4
<1>6. TypeOK'
  BY <1>1, <1>4, <1>5 DEF Inv, TypeOK, Sent
<1>7. Streams' /\ InOrder' /\ BufferOutlivesWrite'
  BY <1>1, <1>3, <1>4 DEF Inv, Streams, InOrder, BufferOutlivesWrite
<1>. QED
  BY <1>6, <1>7 DEF Inv

\* A write that fails leaves its buffer behind.
LEMMA WriteFailedKeepsInv == Inv /\ WriteFailed => Inv'
<1>. SUFFICES ASSUME Inv, WriteFailed PROVE Inv'
  OBVIOUS
<1>1. /\ writes # <<>> /\ writes' = Tail(writes) /\ closed' = TRUE
      /\ UNCHANGED <<pc, stage, reading, gone, writeBuffer, sent, incoming, received, arrived, muted>>
  BY DEF WriteFailed, Disconnected
<1>2. /\ writes \in Seq(Sent) /\ Len(writes) <= 2 /\ Len(writes) \in Nat
      /\ Sorted(writes) /\ RangeOf(writes) \subseteq RangeOf(writeBuffer)
  BY LenProperties DEF Inv, TypeOK, InOrder, BufferOutlivesWrite, Sent
<1>3. /\ Tail(writes) \in Seq(Sent) /\ Len(Tail(writes)) = Len(writes) - 1 /\ Sorted(Tail(writes))
      /\ RangeOf(Tail(writes)) \subseteq RangeOf(writes)
  BY <1>1, <1>2, SortedTail
<1>4. Len(Tail(writes)) <= 2
  BY <1>2, <1>3
<1>5. TypeOK'
  BY <1>1, <1>3, <1>4 DEF Inv, TypeOK, Sent
<1>6. Streams' /\ InOrder' /\ BufferOutlivesWrite'
  BY <1>1, <1>2, <1>3 DEF Inv, Streams, InOrder, RangeOf, BufferOutlivesWrite
<1>. QED
  BY <1>5, <1>6 DEF Inv

\* A write is started only for a message whose buffer was just made.
LEMMA SendKeepsInv == Inv /\ SendMessage => Inv'
<1>. SUFFICES ASSUME Inv, SendMessage PROVE Inv'
  OBVIOUS
<1>. DEFINE m == sent + 1
            w == Started(m)
<1>1. /\ sent < MaxSends /\ Receive /\ sent' = m /\ writeBuffer' = Append(writeBuffer, m)
      /\ writes' = w /\ pc' \in {"check", "aborted"}
      /\ UNCHANGED <<stage, closed, reading, gone, arrived, muted>>
  BY DEF SendMessage
<1>2. /\ writeBuffer \in Seq(Sent) /\ writes \in Seq(Sent) /\ Len(writes) <= 2
      /\ Len(writes) \in Nat /\ sent \in 0..MaxSends
      /\ Sorted(writeBuffer) /\ Sorted(writes) /\ RangeOf(writes) \subseteq RangeOf(writeBuffer)
      /\ \A x \in RangeOf(writeBuffer) : x <= sent
  BY LenProperties DEF Inv, TypeOK, InOrder, BufferOutlivesWrite, Sent
<1>3. m \in Sent /\ m \in 0..MaxSends
  BY <1>1, <1>2, BoundAssumption DEF Sent
<1>4. \A x \in RangeOf(writeBuffer) : x \in Sent /\ x < m
  <2>1. \A x \in RangeOf(writeBuffer) : x \in Sent
    BY <1>2, ElementOfSeq DEF RangeOf
  <2>. QED
    BY <1>2, <2>1 DEF Sent
<1>5. \A x \in RangeOf(writes) : x \in Sent /\ x < m
  BY <1>2, <1>4
<1>. HIDE DEF m
<1>6. /\ Append(writeBuffer, m) \in Seq(Sent) /\ Sorted(Append(writeBuffer, m))
      /\ RangeOf(Append(writeBuffer, m)) = RangeOf(writeBuffer) \cup {m}
  BY <1>2, <1>3, <1>4, SortedAppend
<1>7. /\ w \in Seq(Sent) /\ Len(w) <= 2 /\ Sorted(w)
      /\ RangeOf(w) \subseteq RangeOf(writes) \cup {m}
  <2>1. CASE Len(writes) < 2
    <3>1. w = Append(writes, m)
      BY <2>1 DEF Started
    <3>2. /\ Append(writes, m) \in Seq(Sent) /\ Len(Append(writes, m)) = Len(writes) + 1
          /\ Sorted(Append(writes, m)) /\ RangeOf(Append(writes, m)) = RangeOf(writes) \cup {m}
      BY <1>2, <1>3, <1>5, SortedAppend
    <3>3. Len(writes) + 1 <= 2
      BY <1>2, <2>1
    <3>. QED
      BY <3>1, <3>2, <3>3
  <2>2. CASE ~(Len(writes) < 2)
    <3>. DEFINE a == writes[1]
    <3>1. w = <<a, m>>
      BY <2>2 DEF Started
    <3>2. 1 \in 1..Len(writes)
      BY <1>2, <2>2
    <3>3. a \in RangeOf(writes)
      BY <3>2 DEF RangeOf
    <3>4. a \in Sent /\ a < m
      BY <1>5, <3>3
    <3>. HIDE DEF a, w
    <3>5. <<a, m>> \in Seq(Sent) /\ Len(<<a, m>>) = 2 /\ <<a, m>>[1] = a /\ <<a, m>>[2] = m
      BY <1>3, <3>4
    <3>6. w \in Seq(Sent) /\ Len(w) = 2 /\ w[1] = a /\ w[2] = m
      BY <3>1, <3>5
    <3>7. \A k \in 1..Len(w) : k = 1 \/ k = 2
      BY <3>6
    <3>8. Sorted(w)
      BY <3>4, <3>6, <3>7 DEF Sorted, Sent
    <3>9. RangeOf(w) \subseteq RangeOf(writes) \cup {m}
      BY <3>3, <3>6, <3>7 DEF RangeOf
    <3>. QED
      BY <3>6, <3>8, <3>9
  <2>. QED
    BY <2>1, <2>2
<1>. HIDE DEF w
<1>8. Streams' /\ arrived' = received' \o incoming' /\ Len(arrived') <= MaxReads
  BY <1>1, ReceiveKeeps
<1>9. TypeOK'
  BY <1>1, <1>3, <1>6, <1>7, <1>8 DEF Inv, TypeOK, Sent
<1>10. InOrder'
  <2>1. \A x \in RangeOf(writeBuffer) \cup {m} : x <= m
    BY <1>3, <1>4 DEF Sent
  <2>. QED
    BY <1>1, <1>6, <1>7, <2>1 DEF InOrder
<1>11. BufferOutlivesWrite'
  BY <1>1, <1>2, <1>6, <1>7 DEF BufferOutlivesWrite
<1>. QED
  BY <1>8, <1>9, <1>10, <1>11 DEF Inv

\* A turn that sends nothing only receives.
LEMMA QuietTurnKeepsInv == Inv /\ QuietTurn => Inv'
<1>. SUFFICES ASSUME Inv, QuietTurn PROVE Inv'
  OBVIOUS
<1>1. /\ Receive /\ pc' = "check"
      /\ UNCHANGED <<stage, closed, reading, gone, writeBuffer, writes, sent, arrived, muted>>
  BY DEF QuietTurn
<1>2. Streams' /\ arrived' = received' \o incoming' /\ Len(arrived') <= MaxReads
  BY <1>1, ReceiveKeeps
<1>3. TypeOK'
  BY <1>1, <1>2 DEF Inv, TypeOK
<1>4. InOrder' /\ BufferOutlivesWrite'
  BY <1>1 DEF Inv, InOrder, Sorted, RangeOf, BufferOutlivesWrite
<1>. QED
  BY <1>2, <1>3, <1>4 DEF Inv

\* Every step of the client keeps the invariant.
LEMMA NextInv == Inv /\ [Next]_vars => Inv'
<1>. SUFFICES ASSUME Inv, [Next]_vars PROVE Inv'
  OBVIOUS
<1>1. /\ pc \in {"check", "update", "turn", "exited", "aborted"}
      /\ stage \in {"connecting", "handshaking", "open", "failed"}
      /\ closed \in BOOLEAN /\ reading \in BOOLEAN /\ gone \in BOOLEAN /\ muted \in BOOLEAN
  BY DEF Inv, TypeOK
<1>2. CASE UNCHANGED vars
  BY <1>1, <1>2, QuietKeepsInv DEF vars
<1>3. CASE Connected
  BY <1>1, <1>3, QuietKeepsInv DEF Connected
<1>4. CASE Handshaken
  BY <1>1, <1>4, QuietKeepsInv DEF Handshaken
<1>5. CASE ReadEmpty
  BY <1>1, <1>5, QuietKeepsInv DEF ReadEmpty
<1>6. CASE ReadFailed
  BY <1>1, <1>6, QuietKeepsInv DEF ReadFailed, Disconnected
<1>7. CASE Check
  BY <1>1, <1>7, QuietKeepsInv DEF Check
<1>8. CASE UpdateEnds
  BY <1>1, <1>8, QuietKeepsInv DEF UpdateEnds
<1>9. CASE ServerGone
  BY <1>1, <1>9, QuietKeepsInv DEF ServerGone
<1>10. CASE Stopped
  BY <1>1, <1>10, QuietKeepsInv DEF Stopped, vars
<1>. QED
  BY <1>2, <1>3, <1>4, <1>5, <1>6, <1>7, <1>8, <1>9, <1>10, ReadKeepsInv, WriteOkKeepsInv,
     WriteFailedKeepsInv, SendKeepsInv, QuietTurnKeepsInv DEF Next, Handlers, Loop

\* The invariant holds in every reachable state.
LEMMA InvAlways == Spec => []Inv
<1>. QED
  BY InitInv, NextInv, PTL DEF Spec

\* At most two writes are under way, and what was read is in the stream or
\* with the caller, in order.
THEOREM TypeCorrect == Spec => []TypeOK
<1>1. Inv => TypeOK
  BY DEF Inv
<1>. QED
  BY InvAlways, <1>1, PTL

\* No write ever refers to a string that has left writeBuffer.
THEOREM BufferOutlivesWriteHolds == Spec => []BufferOutlivesWrite
<1>1. Inv => BufferOutlivesWrite
  BY DEF Inv
<1>. QED
  BY InvAlways, <1>1, PTL
=============================================================================
