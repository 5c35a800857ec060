-------------------------- MODULE AmbassadorProofs --------------------------
(***************************************************************************)
(* Proofs about Ambassador, for every number of queue objects and every    *)
(* capacity, with any number of messages and of restarts.                  *)
(***************************************************************************)
EXTENDS Ambassador, SequenceTheorems, TLAPS

-----------------------------------------------------------------------------
(* Sequences of messages                                                    *)

Increasing(s) == \A i, j \in 1..Len(s) : i < j => s[i] < s[j]

\* Everything accepted, split into what n earlier takings left behind, what
\* the reader has taken and what is still in the queue.
Accounted(all, n, taken, rest) ==
    \E old \in Seq(Msgs) : Len(old) = n /\ all = old \o (taken \o rest)

\* It does not matter which of three parts are put together first.
LEMMA Associative ==
  \A a, b, c \in Seq(Msgs) : (a \o b) \o c = a \o (b \o c)
<1>. SUFFICES ASSUME NEW a \in Seq(Msgs), NEW b \in Seq(Msgs), NEW c \in Seq(Msgs)
              PROVE  (a \o b) \o c = a \o (b \o c)
  OBVIOUS
<1>. QED
  BY ConcatAssociative

\* A message accepted is the last of the queue.
LEMMA AcceptKeepsAccount ==
  ASSUME NEW all, NEW n, NEW taken \in Seq(Msgs), NEW rest \in Seq(Msgs), NEW m \in Msgs,
         Accounted(all, n, taken, rest)
  PROVE  Accounted(Append(all, m), n, taken, Append(rest, m))
<1>1. PICK old \in Seq(Msgs) : Len(old) = n /\ all = old \o (taken \o rest)
  BY DEF Accounted
<1>. DEFINE e == <<m>>
            tr == taken \o rest
<1>2. old \in Seq(Msgs) /\ e \in Seq(Msgs) /\ tr \in Seq(Msgs)
  BY <1>1, ConcatProperties
<1>3. Append(rest, m) = rest \o e
  BY AppendIsConcat
<1>4. Append(old \o tr, m) = (old \o tr) \o e
  BY <1>2, ConcatProperties, AppendIsConcat
<1>5. tr \o e = taken \o (rest \o e)
  BY <1>2, ConcatAssociative
<1>. HIDE DEF e, tr
<1>6. (old \o tr) \o e = old \o (tr \o e)
  BY <1>2, Associative
<1>7. Append(all, m) = old \o (taken \o Append(rest, m))
  BY <1>1, <1>3, <1>4, <1>5, <1>6 DEF tr
<1>. QED
  BY <1>1, <1>7 DEF Accounted

\* A reader that takes the queue to what it has taken leaves nothing behind.
LEMMA TakeKeepsAccount ==
  ASSUME NEW all, NEW n, NEW taken \in Seq(Msgs), NEW rest \in Seq(Msgs),
         Accounted(all, n, taken, rest)
  PROVE  Accounted(all, n, taken \o rest, <<>>)
<1>1. taken \o rest \in Seq(Msgs)
  BY ConcatProperties
<1>2. (taken \o rest) \o <<>> = taken \o rest
  BY <1>1, ConcatEmptySeq
<1>. QED
  BY <1>2 DEF Accounted

\* What a reader has taken is behind when it is gone.
LEMMA ForgetKeepsAccount ==
  ASSUME NEW all, NEW n \in Nat, NEW taken \in Seq(Msgs), NEW rest \in Seq(Msgs),
         Accounted(all, n, taken, rest)
  PROVE  Accounted(all, n + Len(taken), <<>>, rest)
<1>1. PICK old \in Seq(Msgs) : Len(old) = n /\ all = old \o (taken \o rest)
  BY DEF Accounted
<1>2. old \o taken \in Seq(Msgs) /\ Len(old \o taken) = n + Len(taken)
  BY <1>1, ConcatProperties
<1>3. old \o (taken \o rest) = (old \o taken) \o rest
  BY Associative
<1>4. <<>> \o rest = rest
  BY ConcatEmptySeq
<1>5. all = (old \o taken) \o (<<>> \o rest)
  BY <1>1, <1>3, <1>4
<1>. QED
  BY <1>2, <1>5 DEF Accounted

\* A reader that has taken nothing is as good as none.
LEMMA NothingTaken ==
  /\ <<>> \o <<>> = <<>>
  /\ Accounted(<<>>, 0, <<>>, <<>>)
<1>1. <<>> \in Seq(Msgs) /\ Len(<<>>) = 0 /\ <<>> \o <<>> = <<>>
  BY EmptySeq, ConcatEmptySeq
<1>2. <<>> = <<>> \o (<<>> \o <<>>)
  BY <1>1
<1>. QED
  BY <1>1, <1>2 DEF Accounted

\* Giving the first message of what is read moves it, and loses nothing.
LEMMA GiveFirst ==
  ASSUME NEW S, NEW s \in Seq(S), NEW t \in Seq(S), t # <<>>
  PROVE  /\ Head(t) \in S /\ Tail(t) \in Seq(S) /\ Append(s, Head(t)) \in Seq(S)
         /\ Append(s, Head(t)) \o Tail(t) = s \o t
<1>1. /\ Head(t) \in S /\ Tail(t) \in Seq(S) /\ Append(s, Head(t)) \in Seq(S)
  BY HeadTailProperties
<1>2. Append(s, Head(t)) = s \o <<Head(t)>>
  BY <1>1, AppendIsConcat
<1>3. t = <<Head(t)>> \o Tail(t)
  BY <1>1
<1>4. (s \o <<Head(t)>>) \o Tail(t) = s \o (<<Head(t)>> \o Tail(t))
  BY <1>1, ConcatAssociative
<1>. QED
  BY <1>1, <1>2, <1>3, <1>4

\* What is left of a sequence behind its first part.
LEMMA BehindFront ==
  ASSUME NEW S, NEW s \in Seq(S), NEW t \in Seq(S)
  PROVE  SubSeq(s \o t, Len(s) + 1, Len(s \o t)) = t
<1>. DEFINE c == s \o t
            u == SubSeq(c, Len(s) + 1, Len(c))
<1>1. /\ Len(s) \in Nat /\ Len(t) \in Nat /\ c \in Seq(S) /\ Len(c) = Len(s) + Len(t)
      /\ \A i \in 1..(Len(s) + Len(t)) : c[i] = IF i <= Len(s) THEN s[i] ELSE t[i - Len(s)]
  BY LenProperties, ConcatProperties
<1>2. \A i \in (Len(s) + 1)..Len(c) : c[i] \in S
  BY <1>1, ElementOfSeq
<1>. HIDE DEF c
<1>3. /\ u \in Seq(S)
      /\ Len(u) = IF Len(s) + 1 <= Len(c) THEN Len(c) - (Len(s) + 1) + 1 ELSE 0
      /\ \A i \in 1..(Len(c) - (Len(s) + 1) + 1) : u[i] = c[(Len(s) + 1) + i - 1]
  BY <1>1, <1>2, SubSeqProperties
<1>. HIDE DEF u
<1>4. Len(u) = Len(t)
  BY <1>1, <1>3
<1>5. ASSUME NEW i \in 1..Len(u) PROVE u[i] = t[i]
  <2>1. u[i] = c[Len(s) + i]
    BY <1>1, <1>3, <1>4
  <2>2. c[Len(s) + i] = t[i]
    <3>1. /\ Len(s) + i \in 1..(Len(s) + Len(t)) /\ ~(Len(s) + i <= Len(s))
          /\ (Len(s) + i) - Len(s) = i
      BY <1>1, <1>4
    <3>. QED
      BY <1>1, <3>1
  <2>. QED
    BY <2>1, <2>2
<1>. QED
  BY <1>3, <1>4, <1>5, SeqEqual DEF u, c

\* The parts of an increasing sequence are increasing.
LEMMA IncreasingParts ==
  ASSUME NEW s \in Seq(Msgs), NEW t \in Seq(Msgs), Increasing(s \o t)
  PROVE  Increasing(s) /\ Increasing(t)
<1>. DEFINE c == s \o t
<1>1. /\ Len(s) \in Nat /\ Len(t) \in Nat /\ Len(c) = Len(s) + Len(t)
      /\ \A i \in 1..(Len(s) + Len(t)) : c[i] = IF i <= Len(s) THEN s[i] ELSE t[i - Len(s)]
  BY LenProperties, ConcatProperties
<1>2. \A i, j \in 1..Len(c) : i < j => c[i] < c[j]
  BY DEF Increasing
<1>. HIDE DEF c
<1>3. \A i \in 1..Len(s) : i \in 1..Len(c) /\ c[i] = s[i]
  BY <1>1
<1>4. \A i \in 1..Len(t) : Len(s) + i \in 1..Len(c) /\ c[Len(s) + i] = t[i]
  <2>. SUFFICES ASSUME NEW i \in 1..Len(t)
                PROVE  Len(s) + i \in 1..Len(c) /\ c[Len(s) + i] = t[i]
    OBVIOUS
  <2>1. Len(s) + i \in 1..Len(c) /\ ~(Len(s) + i <= Len(s)) /\ (Len(s) + i) - Len(s) = i
    BY <1>1
  <2>. QED
    BY <1>1, <2>1
<1>5. Increasing(s)
  BY <1>2, <1>3 DEF Increasing
<1>6. Increasing(t)
  <2>. SUFFICES ASSUME NEW i \in 1..Len(t), NEW j \in 1..Len(t), i < j PROVE t[i] < t[j]
    BY DEF Increasing
  <2>1. Len(s) + i < Len(s) + j
    BY <1>1
  <2>. QED
    BY <1>2, <1>4, <2>1
<1>. QED
  BY <1>5, <1>6

\* An increasing sequence stays so with a larger element at its end.
LEMMA IncreasingAppend ==
  ASSUME NEW s \in Seq(Msgs), Increasing(s), NEW m \in Msgs, \A i \in 1..Len(s) : s[i] < m
  PROVE  Increasing(Append(s, m))
<1>. DEFINE c == Append(s, m)
<1>1. /\ Len(s) \in Nat /\ Len(c) = Len(s) + 1 /\ c[Len(s) + 1] = m
      /\ \A i \in 1..Len(s) : c[i] = s[i]
  BY LenProperties, AppendProperties
<1>. HIDE DEF c
<1>2. \A i, j \in 1..Len(c) : i < j => c[i] < c[j]
  BY <1>1 DEF Increasing
<1>. QED
  BY <1>2 DEF Increasing, c

-----------------------------------------------------------------------------
(* The inductive invariant                                                  *)

Types ==
    /\ TypeOK
    /\ queue \in [Objects -> Seq(Msgs)]
    /\ pending \in [Procs -> Seq(Msgs)] /\ got \in [Procs -> Seq(Msgs)]
    /\ accepted \in [Objects -> Seq(Msgs)] /\ spent \in [Objects -> Nat]

\* A name or a process refers to the object as the queue that q writes.
Refs(o, q) == link[q] = o \/ \E p \in Procs : handle[p][q] = o

\* However names are removed and made again, an object is the queue of one
\* writer: no process takes its own messages.
OneWriter == \A o \in Objects : \A q, r \in Procs : Refs(o, q) /\ Refs(o, r) => q = r

\* A process that is up has both queues open, the one it writes before the
\* other, and any other has read nothing.
UpMatches ==
    \A p \in Procs :
        /\ phase[p] \in {"opening", "up"} => handle[p][p] \in Objects
        /\ IF Up(p) THEN handle[p][Peer(p)] \in Objects
                    ELSE got[p] = <<>> /\ pending[p] = <<>>

\* What a process has taken off the queue it reads.
Taken(p) == got[p] \o pending[p]

Reads(p, o) == Up(p) /\ handle[p][Peer(p)] = o

\* Every message an object accepted is accounted for, read or not.
AllAccounted ==
    \A o \in Objects :
        /\ \A p \in Procs :
              Reads(p, o) => Accounted(accepted[o], spent[o], Taken(p), queue[o])
        /\ (\A p \in Procs : ~Reads(p, o)) => Accounted(accepted[o], spent[o], <<>>, queue[o])

\* Messages are numbered in the order of their acceptance, and what is
\* accepted next is larger.
Numbered ==
    /\ \A o \in Objects : Increasing(accepted[o])
    /\ \A o \in Objects, q \in Procs :
          Refs(o, q) => \A i \in 1..Len(accepted[o]) : accepted[o][i] <= sends[q]

Inv == Types /\ OneWriter /\ UpMatches /\ AllAccounted /\ Numbered

\* The two processes are each other's peers.
LEMMA Peers ==
  ASSUME NEW p \in Procs
  PROVE  /\ Peer(p) \in Procs /\ Peer(p) # p /\ Peer(Peer(p)) = p
         /\ \A q \in Procs : q = p \/ q = Peer(p)
<1>. QED
  BY DEF Procs, Peer

\* An object has one reader.
LEMMA OneReader ==
  ASSUME OneWriter, NEW o \in Objects, NEW p \in Procs, NEW r \in Procs,
         Reads(p, o), Reads(r, o)
  PROVE  p = r
<1>1. Refs(o, Peer(p)) /\ Refs(o, Peer(r))
  BY DEF Reads, Refs
<1>2. Peer(p) = Peer(r)
  BY <1>1, Peers DEF OneWriter
<1>. QED
  BY <1>2, Peers

\* Nothing has been sent when there is no queue.
LEMMA InitInv == Init => Inv
<1>. SUFFICES ASSUME Init PROVE Inv
  OBVIOUS
<1>. USE ObjectAssumption, BoundAssumption
<1>1. <<>> \in Seq(Msgs) /\ Len(<<>>) = 0
  BY EmptySeq
<1>2. Types
  BY <1>1 DEF Init, Types, TypeOK
<1>3. OneWriter
  BY DEF Init, OneWriter, Refs
<1>4. UpMatches
  BY DEF Init, UpMatches, Up
<1>5. AllAccounted
  BY NothingTaken DEF Init, AllAccounted, Reads, Up
<1>6. Numbered
  BY <1>1 DEF Init, Numbered, Increasing
<1>. QED
  BY <1>2, <1>3, <1>4, <1>5, <1>6 DEF Inv

\* Opening a queue gives the name's object, or one that nothing refers to and
\* that was never used.
LEMMA OpenKeeps ==
  ASSUME Inv, NEW p \in Procs, NEW q \in Procs, Open(p, q)
  PROVE  /\ link' \in [Procs -> Objects \cup {NoObject}]
         /\ handle' \in [Procs -> [Procs -> Objects \cup {NoObject}]]
         /\ OneWriter'
         /\ \A o \in Objects, r \in Procs :
               Refs(o, r)' => Refs(o, r) \/ accepted[o] = <<>>
         /\ handle'[p][q] \in Objects
         /\ \A r, s \in Procs : <<r, s>> # <<p, q>> => handle'[r][s] = handle[r][s]
<1>. DEFINE o == IF link[q] # NoObject THEN link[q] ELSE CHOOSE f \in Fresh : TRUE
<1>1. /\ link' = [link EXCEPT ![q] = o] /\ handle' = [handle EXCEPT ![p][q] = o]
      /\ link[q] # NoObject \/ Fresh # {}
  BY DEF Open
<1>2. /\ link \in [Procs -> Objects \cup {NoObject}]
      /\ handle \in [Procs -> [Procs -> Objects \cup {NoObject}]]
  BY DEF Inv, Types, TypeOK
<1>3. \/ o \in Objects /\ link[q] = o
      \/ /\ o \in Objects /\ accepted[o] = <<>>
         /\ \A r \in Procs : ~Refs(o, r)
  BY <1>1, <1>2 DEF Fresh, Refs
<1>. HIDE DEF o
<1>4. /\ handle'[p][q] = o /\ link'[q] = o
      /\ \A r, s \in Procs : <<r, s>> # <<p, q>> => handle'[r][s] = handle[r][s]
      /\ \A r \in Procs \ {q} : link'[r] = link[r]
  BY <1>1, <1>2
<1>5. \A x \in Objects, r \in Procs : Refs(x, r)' => Refs(x, r) \/ (x = o /\ r = q)
  BY <1>4 DEF Refs
<1>6. /\ link' \in [Procs -> Objects \cup {NoObject}]
      /\ handle' \in [Procs -> [Procs -> Objects \cup {NoObject}]]
  BY <1>1, <1>2, <1>3
<1>7. OneWriter'
  <2>. SUFFICES ASSUME NEW x \in Objects, NEW r \in Procs, NEW s \in Procs,
                       Refs(x, r)', Refs(x, s)'
                PROVE  r = s
    BY DEF OneWriter
  <2>1. CASE o \in Objects /\ link[q] = o
    <3>1. Refs(o, q)
      BY <2>1 DEF Refs
    <3>. QED
      BY <1>5, <3>1 DEF Inv, OneWriter
  <2>2. CASE \A y \in Procs : ~Refs(o, y)
    BY <1>5, <2>2 DEF Inv, OneWriter
  <2>. QED
    BY <1>3, <2>1, <2>2
<1>8. \A x \in Objects, r \in Procs : Refs(x, r)' => Refs(x, r) \/ accepted[x] = <<>>
  BY <1>3, <1>5 DEF Refs
<1>. QED
  BY <1>3, <1>4, <1>6, <1>7, <1>8

\* A start opens the queue it writes: nothing is read yet.
LEMMA OpenWriteQKeepsInv ==
  ASSUME Inv, NEW p \in Procs, OpenWriteQ(p)
  PROVE  Inv'
<1>1. /\ phase[p] = "down" /\ Open(p, p) /\ starts[p] <= MaxRestarts
      /\ starts' = [starts EXCEPT ![p] = @ + 1] /\ phase' = [phase EXCEPT ![p] = "opening"]
      /\ UNCHANGED <<queue, pending, got, sends, accepted, spent>>
  BY DEF OpenWriteQ, Open
<1>2. Types /\ OneWriter /\ UpMatches /\ AllAccounted /\ Numbered
  BY DEF Inv
<1>3. /\ phase \in [Procs -> {"down", "opening", "up", "closing", "removing"}]
      /\ starts \in [Procs -> 0..(MaxRestarts + 1)]
  BY <1>2 DEF Types, TypeOK
<1>4. /\ phase' \in [Procs -> {"down", "opening", "up", "closing", "removing"}]
      /\ starts' \in [Procs -> 0..(MaxRestarts + 1)]
  BY <1>1, <1>3, BoundAssumption
<1>5. Types'
  BY <1>1, <1>2, <1>4, OpenKeeps DEF Types, TypeOK
<1>6. \A r \in Procs, x \in Objects : Reads(r, x)' <=> Reads(r, x)
  BY <1>1, <1>3, OpenKeeps, Peers DEF Reads, Up
<1>7. UpMatches'
  <2>1. /\ handle'[p][p] \in Objects
        /\ \A r, s \in Procs : <<r, s>> # <<p, p>> => handle'[r][s] = handle[r][s]
    BY <1>1, <1>2, OpenKeeps DEF Inv
  <2>2. ASSUME NEW r \in Procs, r # p
        PROVE  phase'[r] = phase[r] /\ handle'[r][r] = handle[r][r]
               /\ handle'[r][Peer(r)] = handle[r][Peer(r)]
    BY <1>1, <1>3, <2>1, <2>2, Peers
  <2>3. phase'[p] = "opening"
    BY <1>1, <1>3
  <2>. QED
    BY <1>1, <1>2, <2>1, <2>2, <2>3 DEF UpMatches, Up
<1>8. AllAccounted'
  BY <1>1, <1>2, <1>6 DEF AllAccounted, Taken
<1>9. Numbered'
  <2>1. \A x \in Objects : accepted[x] = <<>> => 1..Len(accepted[x]) = {}
    OBVIOUS
  <2>. QED
    BY <1>1, <1>2, <2>1, OpenKeeps DEF Numbered
<1>. QED
  BY <1>1, <1>5, <1>7, <1>8, <1>9, OpenKeeps DEF Inv

\* A process comes up with the queue it reads: no other process reads it.
LEMMA OpenReadQKeepsInv ==
  ASSUME Inv, NEW p \in Procs, OpenReadQ(p)
  PROVE  Inv'
<1>1. /\ phase[p] = "opening" /\ Open(p, Peer(p)) /\ phase' = [phase EXCEPT ![p] = "up"]
      /\ UNCHANGED <<queue, pending, got, sends, accepted, spent, starts>>
  BY DEF OpenReadQ, Open
<1>2. Types /\ OneWriter /\ UpMatches /\ AllAccounted /\ Numbered
  BY DEF Inv
<1>3. phase \in [Procs -> {"down", "opening", "up", "closing", "removing"}]
  BY <1>2 DEF Types, TypeOK
<1>4. /\ link' \in [Procs -> Objects \cup {NoObject}]
      /\ handle' \in [Procs -> [Procs -> Objects \cup {NoObject}]]
      /\ OneWriter'
      /\ \A x \in Objects, r \in Procs : Refs(x, r)' => Refs(x, r) \/ accepted[x] = <<>>
      /\ handle'[p][Peer(p)] \in Objects
      /\ \A r, s \in Procs : <<r, s>> # <<p, Peer(p)>> => handle'[r][s] = handle[r][s]
  BY <1>1, OpenKeeps, Peers
<1>5. Types'
  BY <1>1, <1>2, <1>3, <1>4 DEF Types, TypeOK
<1>6. \A r \in Procs, x \in Objects : r # p => (Reads(r, x)' <=> Reads(r, x))
  BY <1>1, <1>3, <1>4, Peers DEF Reads, Up
<1>7. UpMatches'
  BY <1>1, <1>2, <1>3, <1>4, Peers DEF UpMatches, Up
<1>8. AllAccounted'
  <2>. SUFFICES ASSUME NEW x \in Objects
                PROVE  /\ \A r \in Procs :
                             Reads(r, x)' => Accounted(accepted[x], spent[x], Taken(r)', queue[x])
                       /\ (\A r \in Procs : ~Reads(r, x)') =>
                             Accounted(accepted[x], spent[x], <<>>, queue[x])
    BY <1>1 DEF AllAccounted
  <2>1. \A r \in Procs : Taken(r)' = Taken(r)
    BY <1>1 DEF Taken
  <2>2. ~Reads(p, x)
    BY <1>1 DEF Reads, Up
  <2>3. ASSUME Reads(p, x)' PROVE Accounted(accepted[x], spent[x], Taken(p)', queue[x])
    <3>1. ASSUME NEW r \in Procs, r # p, Reads(r, x) PROVE FALSE
      <4>1. Reads(r, x)'
        BY <1>6, <3>1
      <4>2. Refs(x, Peer(p))' /\ Refs(x, Peer(r))'
        BY <2>3, <4>1 DEF Reads, Refs
      <4>3. Peer(p) = Peer(r)
        BY <1>4, <4>2, Peers DEF OneWriter
      <4>. QED
        BY <3>1, <4>3, Peers
    <3>2. Accounted(accepted[x], spent[x], <<>>, queue[x])
      BY <1>2, <2>2, <3>1 DEF AllAccounted
    <3>3. Taken(p)' = <<>>
      BY <1>1, <1>2, NothingTaken DEF UpMatches, Up, Taken
    <3>. QED
      BY <3>2, <3>3
  <2>4. ASSUME NEW r \in Procs, r # p, Reads(r, x)'
        PROVE  Accounted(accepted[x], spent[x], Taken(r)', queue[x])
    BY <1>2, <1>6, <2>1, <2>4 DEF AllAccounted
  <2>5. ASSUME \A r \in Procs : ~Reads(r, x)'
        PROVE  Accounted(accepted[x], spent[x], <<>>, queue[x])
    BY <1>2, <1>6, <2>2, <2>5 DEF AllAccounted
  <2>. QED
    BY <2>3, <2>4, <2>5
<1>9. Numbered'
  <2>1. \A x \in Objects : accepted[x] = <<>> => 1..Len(accepted[x]) = {}
    OBVIOUS
  <2>. QED
    BY <1>1, <1>2, <1>4, <2>1 DEF Numbered
<1>. QED
  BY <1>4, <1>5, <1>7, <1>8, <1>9 DEF Inv

-----------------------------------------------------------------------------
(* Sending                                                                  *)

\* A message that is accepted is a new one, the last of its queue.
LEMMA WriteKeeps ==
  ASSUME Inv, NEW p \in Procs, Up(p), sends[p] < MaxSends,
         sends' = [sends EXCEPT ![p] = @ + 1],
         Write(handle[p][p], sends[p] + 1)
  PROVE  /\ queue' \in [Objects -> Seq(Msgs)] /\ accepted' \in [Objects -> Seq(Msgs)]
         /\ \A x \in Objects : Len(queue'[x]) <= Cap
         /\ sends' \in [Procs -> 0..MaxSends]
         /\ \A x \in Objects, n \in Nat, taken \in Seq(Msgs) :
               Accounted(accepted[x], n, taken, queue[x]) =>
                   Accounted(accepted'[x], n, taken, queue'[x])
         /\ \A x \in Objects : Increasing(accepted'[x])
         /\ \A x \in Objects, q \in Procs :
               Refs(x, q) => \A i \in 1..Len(accepted'[x]) : accepted'[x][i] <= sends'[q]
<1>. DEFINE o == handle[p][p]
            m == sends[p] + 1
            SM == Seq(Msgs)
<1>1. Types /\ OneWriter /\ UpMatches /\ Numbered
  BY DEF Inv
<1>2. /\ o \in Objects /\ m \in Msgs /\ sends \in [Procs -> 0..MaxSends]
      /\ sends' \in [Procs -> 0..MaxSends]
      /\ \A q \in Procs : sends[q] <= sends'[q] /\ sends'[p] = m
  <2>1. o \in Objects
    <3>1. phase[p] = "up"
      BY DEF Up
    <3>. QED
      BY <1>1, <3>1, Zenon DEF UpMatches
  <2>2. sends \in [Procs -> 0..MaxSends] /\ MaxSends \in Nat
    BY <1>1, BoundAssumption DEF Types, TypeOK
  <2>3. sends[p] \in 0..MaxSends /\ m \in 1..MaxSends
    BY <2>2
  <2>4. sends' \in [Procs -> 0..MaxSends] /\ sends'[p] = m
    BY <2>2, <2>3
  <2>5. \A q \in Procs : sends[q] <= sends'[q]
    BY <2>2, <2>3
  <2>. QED
    BY <2>1, <2>2, <2>3, <2>4, <2>5 DEF Msgs
<1>3. /\ queue \in [Objects -> SM] /\ accepted \in [Objects -> SM]
      /\ \A x \in Objects : Len(queue[x]) <= Cap
      /\ Cap \in Nat
  BY <1>1, BoundAssumption DEF Types, TypeOK
<1>4. Refs(o, p)
  BY <1>2 DEF Refs
<1>5. \A i \in 1..Len(accepted[o]) : accepted[o][i] < m
  <2>1. \A i \in 1..Len(accepted[o]) : accepted[o][i] <= sends[p] /\ accepted[o][i] \in Msgs
    BY <1>1, <1>2, <1>3, <1>4, ElementOfSeq DEF Numbered
  <2>. QED
    BY <1>2, <2>1 DEF Msgs
<1>6. /\ Append(queue[o], m) \in SM /\ Append(accepted[o], m) \in SM
      /\ Len(Append(queue[o], m)) = Len(queue[o]) + 1 /\ Len(queue[o]) \in Nat
  BY <1>2, <1>3, AppendProperties, LenProperties
<1>7. Increasing(Append(accepted[o], m))
  BY <1>1, <1>2, <1>3, <1>5, IncreasingAppend DEF Numbered
<1>8. \A n \in Nat, taken \in SM :
          Accounted(accepted[o], n, taken, queue[o]) =>
              Accounted(Append(accepted[o], m), n, taken, Append(queue[o], m))
  BY <1>2, <1>3, AcceptKeepsAccount
<1>9. \A i \in 1..Len(Append(accepted[o], m)) : Append(accepted[o], m)[i] <= m
  <2>. DEFINE a == accepted[o]
              b == Append(a, m)
  <2>1. /\ Len(b) = Len(a) + 1 /\ b[Len(a) + 1] = m /\ Len(a) \in Nat
        /\ \A i \in 1..Len(a) : b[i] = a[i]
    BY <1>2, <1>3, AppendProperties, LenProperties
  <2>2. \A i \in 1..Len(a) : a[i] \in Msgs /\ a[i] < m
    BY <1>2, <1>3, <1>5, ElementOfSeq
  <2>. HIDE DEF a, b
  <2>3. \A i \in 1..Len(b) : b[i] <= m
    BY <1>2, <2>1, <2>2 DEF Msgs
  <2>. QED
    BY <2>3 DEF a, b
<1>. HIDE DEF m, SM
<1>10. CASE Len(queue[o]) < Cap
  <2>1. /\ queue' = [queue EXCEPT ![o] = Append(@, m)]
        /\ accepted' = [accepted EXCEPT ![o] = Append(@, m)]
    BY <1>10 DEF Write, m
  <2>. HIDE DEF o
  <2>2. /\ queue'[o] = Append(queue[o], m) /\ accepted'[o] = Append(accepted[o], m)
        /\ \A x \in Objects : x # o => queue'[x] = queue[x] /\ accepted'[x] = accepted[x]
    BY <1>2, <1>3, <2>1
  <2>3. queue' \in [Objects -> SM] /\ accepted' \in [Objects -> SM]
    BY <1>2, <1>3, <1>6, <2>1
  <2>4. \A x \in Objects : Len(queue'[x]) <= Cap
    BY <1>3, <1>6, <1>10, <2>2
  <2>5. \A x \in Objects : Increasing(accepted'[x])
    BY <1>1, <1>7, <2>2 DEF Numbered
  <2>6. \A x \in Objects, q \in Procs :
            Refs(x, q) => \A i \in 1..Len(accepted'[x]) : accepted'[x][i] <= sends'[q]
    <3>. SUFFICES ASSUME NEW x \in Objects, NEW q \in Procs, Refs(x, q),
                         NEW i \in 1..Len(accepted'[x])
                  PROVE  accepted'[x][i] <= sends'[q]
      OBVIOUS
    <3>1. CASE x = o
      <4>1. q = p
        BY <1>1, <1>2, <1>4, <3>1 DEF OneWriter
      <4>. QED
        BY <1>2, <1>9, <2>2, <3>1, <4>1
    <3>2. CASE x # o
      <4>1. accepted[x][i] <= sends[q] /\ accepted[x][i] \in Msgs
        BY <1>1, <1>3, <2>2, <3>2, ElementOfSeq DEF Numbered, SM
      <4>. QED
        BY <1>2, <2>2, <3>2, <4>1 DEF Msgs
    <3>. QED
      BY <3>1, <3>2
  <2>7. \A x \in Objects, n \in Nat, taken \in SM :
            Accounted(accepted[x], n, taken, queue[x]) =>
                Accounted(accepted'[x], n, taken, queue'[x])
    BY <1>8, <2>2
  <2>. QED
    BY <1>2, <2>3, <2>4, <2>5, <2>6, <2>7 DEF SM
<1>11. CASE ~(Len(queue[o]) < Cap)
  <2>1. UNCHANGED <<queue, accepted>>
    BY <1>11 DEF Write
  <2>2. \A x \in Objects, q \in Procs :
            Refs(x, q) => \A i \in 1..Len(accepted[x]) : accepted[x][i] <= sends'[q]
    <3>. SUFFICES ASSUME NEW x \in Objects, NEW q \in Procs, Refs(x, q),
                         NEW i \in 1..Len(accepted[x])
                  PROVE  accepted[x][i] <= sends'[q]
      OBVIOUS
    <3>1. accepted[x][i] <= sends[q] /\ accepted[x][i] \in Msgs
      BY <1>1, <1>3, ElementOfSeq DEF Numbered, SM
    <3>. QED
      BY <1>2, <3>1 DEF Msgs
  <2>. QED
    BY <1>1, <1>2, <1>3, <2>1, <2>2 DEF Numbered, SM
<1>. QED
  BY <1>10, <1>11

\* Sending leaves what readers have taken alone.
LEMMA SendMsgKeepsInv ==
  ASSUME Inv, NEW p \in Procs, SendMsg(p)
  PROVE  Inv'
<1>1. /\ Up(p) /\ sends[p] < MaxSends /\ sends' = [sends EXCEPT ![p] = @ + 1]
      /\ Write(handle[p][p], sends[p] + 1)
      /\ UNCHANGED <<link, phase, handle, pending, got, starts, spent>>
  BY DEF SendMsg, procVars
<1>2. Types /\ OneWriter /\ UpMatches /\ AllAccounted /\ Numbered
  BY DEF Inv
<1>3. Types'
  BY <1>1, <1>2, WriteKeeps DEF Types, TypeOK
<1>4. OneWriter' /\ UpMatches'
  BY <1>1, <1>2 DEF OneWriter, Refs, UpMatches, Up
<1>5. AllAccounted'
  <2>1. \A x \in Objects : spent[x] \in Nat
    BY <1>2 DEF Types
  <2>2. \A r \in Procs : Taken(r) \in Seq(Msgs) /\ Taken(r)' = Taken(r)
    BY <1>1, <1>2, ConcatProperties DEF Types, Taken
  <2>3. <<>> \in Seq(Msgs)
    BY EmptySeq
  <2>4. \A x \in Objects, taken \in Seq(Msgs) :
            Accounted(accepted[x], spent[x], taken, queue[x]) =>
                Accounted(accepted'[x], spent[x], taken, queue'[x])
    BY <1>1, <2>1, WriteKeeps
  <2>5. \A r \in Procs, x \in Objects : Reads(r, x)' <=> Reads(r, x)
    BY <1>1 DEF Reads, Up
  <2>. QED
    BY <1>1, <1>2, <2>2, <2>3, <2>4, <2>5 DEF AllAccounted
<1>6. Numbered'
  BY <1>1, WriteKeeps DEF Numbered, Refs
<1>. QED
  BY <1>3, <1>4, <1>5, <1>6 DEF Inv

-----------------------------------------------------------------------------
(* Reading                                                                  *)

\* A process takes all there is in the queue it reads.
Taking(p) ==
    /\ Up(p)
    /\ queue' = [queue EXCEPT ![handle[p][Peer(p)]] = <<>>]
    /\ pending' \in [Procs -> Seq(Msgs)] /\ got' \in [Procs -> Seq(Msgs)]
    /\ Taken(p)' = Taken(p) \o queue[handle[p][Peer(p)]]
    /\ \A r \in Procs \ {p} : pending'[r] = pending[r] /\ got'[r] = got[r]
    /\ UNCHANGED <<link, phase, handle, sends, starts, accepted, spent>>

\* What a process takes is still accounted for, and it is the only one to
\* take from that queue.
LEMMA TakingKeepsInv ==
  ASSUME Inv, NEW p \in Procs, Taking(p)
  PROVE  Inv'
<1>. DEFINE o == handle[p][Peer(p)]
            SM == Seq(Msgs)
<1>1. Types /\ OneWriter /\ UpMatches /\ AllAccounted /\ Numbered
  BY DEF Inv
<1>2. /\ Up(p) /\ queue' = [queue EXCEPT ![o] = <<>>]
      /\ pending' \in [Procs -> SM] /\ got' \in [Procs -> SM]
      /\ \A r \in Procs \ {p} : pending'[r] = pending[r] /\ got'[r] = got[r]
      /\ UNCHANGED <<link, phase, handle, sends, starts, accepted, spent>>
  BY DEF Taking
<1>3. /\ o \in Objects /\ queue \in [Objects -> SM] /\ <<>> \in SM /\ Len(<<>>) = 0
      /\ got \in [Procs -> SM] /\ pending \in [Procs -> SM] /\ Cap \in Nat
  BY <1>1, <1>2, EmptySeq, BoundAssumption DEF UpMatches, Types
<1>. HIDE DEF SM, o
<1>4. /\ queue' \in [Objects -> SM] /\ queue'[o] = <<>>
      /\ \A x \in Objects : x # o => queue'[x] = queue[x]
  BY <1>2, <1>3
<1>5. Types'
  <2>1. \A x \in Objects : Len(queue[x]) <= Cap
    BY <1>1 DEF Types, TypeOK
  <2>2. \A x \in Objects : Len(queue'[x]) <= Cap
    BY <1>3, <1>4, <2>1
  <2>. QED
    BY <1>1, <1>2, <1>4, <2>2 DEF Types, TypeOK, SM
<1>6. OneWriter'
  BY <1>1, <1>2 DEF OneWriter, Refs
<1>7. UpMatches'
  <2>1. \A r \in Procs : ~Up(r) => r # p
    BY <1>2
  <2>. QED
    BY <1>1, <1>2, <2>1 DEF UpMatches, Up
<1>8. AllAccounted'
  <2>1. Reads(p, o)
    BY <1>2 DEF Reads, o
  <2>2. \A r \in Procs, x \in Objects : Reads(r, x)' <=> Reads(r, x)
    BY <1>2 DEF Reads, Up
  <2>3. Accounted(accepted[o], spent[o], Taken(p)', <<>>)
    <3>1. Taken(p) \in Seq(Msgs) /\ queue[o] \in Seq(Msgs)
      BY <1>3, ConcatProperties DEF Taken, SM
    <3>2. Accounted(accepted[o], spent[o], Taken(p), queue[o])
      BY <1>1, <1>3, <2>1 DEF AllAccounted
    <3>3. Accounted(accepted[o], spent[o], Taken(p) \o queue[o], <<>>)
      BY <3>1, <3>2, TakeKeepsAccount
    <3>4. Taken(p)' = Taken(p) \o queue[o]
      BY DEF Taking, o
    <3>. QED
      BY <3>3, <3>4
  <2>4. \A r \in Procs : Reads(r, o) => r = p
    BY <1>1, <1>3, <2>1, OneReader
  <2>5. \A x \in Objects : Reads(p, x) => x = o
    BY DEF Reads, o
  <2>6. \A r \in Procs \ {p} : Taken(r)' = Taken(r)
    BY <1>2 DEF Taken
  <2>. SUFFICES ASSUME NEW x \in Objects
                PROVE  /\ \A r \in Procs : Reads(r, x) =>
                             Accounted(accepted[x], spent[x], Taken(r)', queue'[x])
                       /\ (\A r \in Procs : ~Reads(r, x)) =>
                             Accounted(accepted[x], spent[x], <<>>, queue'[x])
    BY <1>2, <2>2 DEF AllAccounted
  <2>7. CASE x = o
    BY <1>4, <2>1, <2>3, <2>4, <2>7
  <2>8. CASE x # o
    BY <1>1, <1>4, <2>5, <2>6, <2>8 DEF AllAccounted
  <2>. QED
    BY <2>7, <2>8
<1>9. Numbered'
  BY <1>1, <1>2 DEF Numbered, Refs
<1>. QED
  BY <1>5, <1>6, <1>7, <1>8, <1>9 DEF Inv

\* getAllMsg takes all to readContentQ.
LEMMA GetAllMsgTakes ==
  ASSUME Inv, NEW p \in Procs, GetAllMsg(p)
  PROVE  Taking(p)
<1>. DEFINE q == queue[handle[p][Peer(p)]]
            SM == Seq(Msgs)
<1>1. /\ Up(p) /\ pending' = [pending EXCEPT ![p] = Fetched(p)]
      /\ queue' = [queue EXCEPT ![handle[p][Peer(p)]] = <<>>]
      /\ UNCHANGED <<link, phase, handle, got, sends, starts, accepted, spent>>
  BY DEF GetAllMsg
<1>2. /\ got \in [Procs -> SM] /\ pending \in [Procs -> SM] /\ q \in SM
  BY <1>1 DEF Inv, Types, UpMatches
<1>3. Fetched(p) \in SM
  BY <1>2, ConcatProperties DEF Fetched
<1>4. Taken(p) \o q = got[p] \o Fetched(p)
  <2>1. got[p] \in SM /\ pending[p] \in SM
    BY <1>2
  <2>. HIDE DEF q
  <2>2. (got[p] \o pending[p]) \o q = got[p] \o (pending[p] \o q)
    BY <1>2, <2>1, Associative
  <2>. QED
    BY <2>2 DEF Taken, Fetched, q
<1>. HIDE DEF SM
<1>5. pending'[p] = Fetched(p) /\ got'[p] = got[p] /\ pending' \in [Procs -> SM]
  BY <1>1, <1>2, <1>3
<1>6. Taken(p)' = got'[p] \o pending'[p]
  BY DEF Taken
<1>7. Taken(p)' = Taken(p) \o q
  BY <1>4, <1>5, <1>6
<1>. QED
  BY <1>1, <1>2, <1>5, <1>7 DEF Taking, SM

\* getOneMsg takes all, and gives the first of what it then holds.
LEMMA GetOneMsgTakes ==
  ASSUME Inv, NEW p \in Procs, GetOneMsg(p)
  PROVE  Taking(p)
<1>. DEFINE q == queue[handle[p][Peer(p)]]
            f == Fetched(p)
            SM == Seq(Msgs)
<1>1. /\ Up(p) /\ queue' = [queue EXCEPT ![handle[p][Peer(p)]] = <<>>]
      /\ UNCHANGED <<link, phase, handle, sends, starts, accepted, spent>>
  BY DEF GetOneMsg
<1>2. /\ got \in [Procs -> SM] /\ pending \in [Procs -> SM] /\ q \in SM
      /\ got[p] \in SM /\ pending[p] \in SM
  BY <1>1 DEF Inv, Types, UpMatches
<1>3. f \in SM
  BY <1>2, ConcatProperties DEF Fetched
<1>4. Taken(p) \o q = got[p] \o f
  <2>. HIDE DEF q
  <2>1. (got[p] \o pending[p]) \o q = got[p] \o (pending[p] \o q)
    BY <1>2, Associative
  <2>. QED
    BY <2>1 DEF Taken, Fetched, q
<1>. HIDE DEF SM, f
<1>5. /\ got' \in [Procs -> SM] /\ pending' \in [Procs -> SM]
      /\ got'[p] \o pending'[p] = got[p] \o f
      /\ \A r \in Procs \ {p} : pending'[r] = pending[r] /\ got'[r] = got[r]
  <2>1. CASE f = <<>>
    <3>1. UNCHANGED <<pending, got>>
      BY <2>1 DEF GetOneMsg, f
    <3>2. pending[p] = <<>>
      <4>1. pending[p] \o q = <<>>
        BY <2>1 DEF f, Fetched
      <4>2. Len(pending[p] \o q) = Len(pending[p]) + Len(q)
        BY <1>2, ConcatProperties DEF SM
      <4>3. Len(pending[p]) \in Nat /\ Len(q) \in Nat /\ Len(<<>>) = 0
        BY <1>2, LenProperties, EmptySeq DEF SM
      <4>4. Len(pending[p]) = 0
        BY <4>1, <4>2, <4>3
      <4>. QED
        BY <1>2, <4>4, EmptySeq DEF SM
    <3>. QED
      BY <1>2, <2>1, <3>1, <3>2
  <2>2. CASE f # <<>>
    <3>1. /\ got' = [got EXCEPT ![p] = Append(@, Head(f))]
          /\ pending' = [pending EXCEPT ![p] = Tail(f)]
      BY <2>2 DEF GetOneMsg, f, Popped
    <3>2. /\ Tail(f) \in SM /\ Append(got[p], Head(f)) \in SM
          /\ Append(got[p], Head(f)) \o Tail(f) = got[p] \o f
      BY <1>2, <1>3, <2>2, GiveFirst DEF SM
    <3>3. got'[p] = Append(got[p], Head(f)) /\ pending'[p] = Tail(f)
      BY <1>2, <3>1
    <3>4. got' \in [Procs -> SM] /\ pending' \in [Procs -> SM]
      BY <1>2, <3>1, <3>2
    <3>5. \A r \in Procs \ {p} : pending'[r] = pending[r] /\ got'[r] = got[r]
      BY <1>2, <3>1
    <3>. QED
      BY <3>2, <3>3, <3>4, <3>5
  <2>. QED
    BY <2>1, <2>2
<1>6. Taken(p)' = Taken(p) \o q
  BY <1>4, <1>5 DEF Taken
<1>. QED
  BY <1>1, <1>5, <1>6 DEF Taking, SM

-----------------------------------------------------------------------------
(* Leaving                                                                  *)

\* What a process took is behind when it is gone, and it has read nothing.
LEMMA ForgetKeeps ==
  ASSUME Inv, NEW p \in Procs, Forget(p)
  PROVE  /\ spent' \in [Objects -> Nat]
         /\ pending' \in [Procs -> Seq(Msgs)] /\ got' \in [Procs -> Seq(Msgs)]
         /\ pending'[p] = <<>> /\ got'[p] = <<>>
         /\ \A r \in Procs \ {p} : pending'[r] = pending[r] /\ got'[r] = got[r]
         /\ \A x \in Objects : ~Reads(p, x) => spent'[x] = spent[x]
         /\ \A x \in Objects, all, rest \in Seq(Msgs) :
               Reads(p, x) /\ Accounted(all, spent[x], Taken(p), rest) =>
                   Accounted(all, spent'[x], <<>>, rest)
<1>. DEFINE n == Len(got[p]) + Len(pending[p])
            SM == Seq(Msgs)
<1>1. Types /\ UpMatches
  BY DEF Inv
<1>2. /\ got \in [Procs -> SM] /\ pending \in [Procs -> SM] /\ <<>> \in SM
      /\ spent \in [Objects -> Nat] /\ n \in Nat
  BY <1>1, EmptySeq, LenProperties DEF Types
<1>3. Taken(p) \in SM /\ Len(Taken(p)) = n
  BY <1>2, ConcatProperties DEF Taken
<1>4. pending' = [pending EXCEPT ![p] = <<>>] /\ got' = [got EXCEPT ![p] = <<>>]
  BY DEF Forget
<1>5. /\ spent' = [x \in Objects |-> IF x = handle[p][Peer(p)] THEN spent'[x] ELSE spent[x]]
      /\ \A x \in Objects : x = handle[p][Peer(p)] =>
            spent'[x] = spent[x] + Len(got[p]) + Len(pending[p])
  BY DEF Forget
<1>6. /\ \A x \in Objects : x = handle[p][Peer(p)] => spent'[x] = spent[x] + n
      /\ \A x \in Objects : x # handle[p][Peer(p)] => spent'[x] = spent[x]
  BY <1>2, <1>5, LenProperties
<1>7. ASSUME ~Up(p) PROVE n = 0
  <2>1. got[p] = <<>> /\ pending[p] = <<>>
    BY <1>1, <1>7 DEF UpMatches
  <2>. QED
    BY <2>1, EmptySeq
<1>. HIDE DEF SM, n
<1>8. spent' \in [Objects -> Nat]
  BY <1>2, <1>5, <1>6
<1>9. \A x \in Objects : ~Reads(p, x) => spent'[x] = spent[x]
  <2>. SUFFICES ASSUME NEW x \in Objects, ~Reads(p, x) PROVE spent'[x] = spent[x]
    OBVIOUS
  <2>1. x # handle[p][Peer(p)] \/ n = 0
    BY <1>7 DEF Reads
  <2>. QED
    BY <1>2, <1>6, <2>1
<1>10. ASSUME NEW x \in Objects, NEW all \in SM, NEW rest \in SM, Reads(p, x),
              Accounted(all, spent[x], Taken(p), rest)
       PROVE  Accounted(all, spent'[x], <<>>, rest)
  <2>1. spent[x] \in Nat /\ spent'[x] = spent[x] + Len(Taken(p))
    BY <1>2, <1>3, <1>6, <1>10 DEF Reads
  <2>2. Accounted(all, spent[x] + Len(Taken(p)), <<>>, rest)
    BY <1>3, <1>10, <2>1, ForgetKeepsAccount DEF SM
  <2>. QED
    BY <2>1, <2>2
<1>11. /\ pending' \in [Procs -> SM] /\ got' \in [Procs -> SM]
       /\ pending'[p] = <<>> /\ got'[p] = <<>>
       /\ \A r \in Procs \ {p} : pending'[r] = pending[r] /\ got'[r] = got[r]
  BY <1>2, <1>4
<1>. QED
  BY <1>8, <1>9, <1>10, <1>11 DEF SM

\* When the reader of a queue goes, its taking becomes part of what earlier
\* readers took; the other queue and its reader are as they were.
LEMMA GoneKeepsAccount ==
  ASSUME Inv, NEW p \in Procs, Forget(p), ~Up(p)',
         \A r \in Procs, x \in Objects : r # p => (Reads(r, x)' <=> Reads(r, x)),
         queue' \in [Objects -> Seq(Msgs)], accepted' \in [Objects -> Seq(Msgs)],
         \A x \in Objects, n \in Nat, taken \in Seq(Msgs) :
             Accounted(accepted[x], n, taken, queue[x]) =>
                 Accounted(accepted'[x], n, taken, queue'[x])
  PROVE  AllAccounted'
<1>. DEFINE SM == Seq(Msgs)
<1>1. Types /\ OneWriter /\ AllAccounted
  BY DEF Inv
<1>2. /\ \A r \in Procs \ {p} : Taken(r)' = Taken(r)
      /\ \A r \in Procs : Taken(r) \in SM
      /\ <<>> \in SM /\ spent \in [Objects -> Nat]
  BY <1>1, ForgetKeeps, ConcatProperties, EmptySeq DEF Taken, Types
<1>3. \A x \in Objects : ~Reads(p, x)'
  BY DEF Reads
<1>4. /\ \A x \in Objects : ~Reads(p, x) => spent'[x] = spent[x]
      /\ \A x \in Objects, all, rest \in SM :
            Reads(p, x) /\ Accounted(all, spent[x], Taken(p), rest) =>
                Accounted(all, spent'[x], <<>>, rest)
  BY ForgetKeeps
<1>. SUFFICES ASSUME NEW x \in Objects
              PROVE  /\ \A r \in Procs : Reads(r, x)' =>
                           Accounted(accepted'[x], spent'[x], Taken(r)', queue'[x])
                     /\ (\A r \in Procs : ~Reads(r, x)') =>
                           Accounted(accepted'[x], spent'[x], <<>>, queue'[x])
  BY DEF AllAccounted
<1>5. \A taken \in SM : Accounted(accepted[x], spent[x], taken, queue[x]) =>
                            Accounted(accepted'[x], spent[x], taken, queue'[x])
  BY <1>2
<1>6. queue'[x] \in SM /\ accepted'[x] \in SM
  OBVIOUS
<1>. HIDE DEF SM
<1>7. CASE Reads(p, x)
  <2>1. \A r \in Procs : ~Reads(r, x)'
    BY <1>1, <1>3, <1>7, OneReader
  <2>2. Accounted(accepted'[x], spent[x], Taken(p), queue'[x])
    BY <1>1, <1>2, <1>5, <1>7 DEF AllAccounted
  <2>3. Accounted(accepted'[x], spent'[x], <<>>, queue'[x])
    BY <1>4, <1>6, <1>7, <2>2
  <2>. QED
    BY <2>1, <2>3
<1>8. CASE ~Reads(p, x)
  <2>1. spent'[x] = spent[x]
    BY <1>4, <1>8
  <2>2. \A r \in Procs : Reads(r, x)' <=> Reads(r, x)
    BY <1>3, <1>8
  <2>3. \A r \in Procs : Reads(r, x) => Accounted(accepted'[x], spent[x], Taken(r)', queue'[x])
    BY <1>1, <1>2, <1>5, <1>8 DEF AllAccounted
  <2>4. (\A r \in Procs : ~Reads(r, x)) => Accounted(accepted'[x], spent[x], <<>>, queue'[x])
    BY <1>1, <1>2, <1>5 DEF AllAccounted
  <2>. QED
    BY <2>1, <2>2, <2>3, <2>4
<1>. QED
  BY <1>7, <1>8

\* A destructor sends its last message and takes what was read with it.
LEMMA CloseKeepsInv ==
  ASSUME Inv, NEW p \in Procs, CloseAmbassador(p)
  PROVE  Inv'
<1>1. /\ Up(p) /\ sends[p] < MaxSends /\ sends' = [sends EXCEPT ![p] = @ + 1]
      /\ Write(handle[p][p], sends[p] + 1) /\ Forget(p)
      /\ phase' = [phase EXCEPT ![p] = "closing"]
      /\ UNCHANGED <<link, handle, starts>>
  BY DEF CloseAmbassador
<1>2. Types /\ OneWriter /\ UpMatches /\ AllAccounted /\ Numbered
  BY DEF Inv
<1>3. /\ phase \in [Procs -> {"down", "opening", "up", "closing", "removing"}]
      /\ phase' \in [Procs -> {"down", "opening", "up", "closing", "removing"}]
      /\ phase'[p] = "closing" /\ \A r \in Procs \ {p} : phase'[r] = phase[r]
  BY <1>1, <1>2 DEF Types, TypeOK
<1>4. Types'
  <2>1. /\ spent' \in [Objects -> Nat]
        /\ pending' \in [Procs -> Seq(Msgs)] /\ got' \in [Procs -> Seq(Msgs)]
    BY <1>1, ForgetKeeps
  <2>2. /\ queue' \in [Objects -> Seq(Msgs)] /\ accepted' \in [Objects -> Seq(Msgs)]
        /\ \A x \in Objects : Len(queue'[x]) <= Cap
        /\ sends' \in [Procs -> 0..MaxSends]
    BY <1>1, WriteKeeps
  <2>. QED
    BY <1>1, <1>2, <1>3, <2>1, <2>2 DEF Types, TypeOK
<1>5. OneWriter'
  BY <1>1, <1>2 DEF OneWriter, Refs
<1>6. UpMatches'
  <2>1. /\ pending'[p] = <<>> /\ got'[p] = <<>>
        /\ \A r \in Procs \ {p} : pending'[r] = pending[r] /\ got'[r] = got[r]
    BY <1>1, ForgetKeeps
  <2>2. ASSUME NEW r \in Procs, r # p
        PROVE  /\ phase'[r] \in {"opening", "up"} => handle'[r][r] \in Objects
               /\ IF phase'[r] = "up" THEN handle'[r][Peer(r)] \in Objects
                                      ELSE got'[r] = <<>> /\ pending'[r] = <<>>
    BY <1>1, <1>2, <1>3, <2>1, <2>2 DEF UpMatches, Up
  <2>. QED
    BY <1>3, <2>1, <2>2 DEF UpMatches, Up
<1>7. AllAccounted'
  <2>1. ~Up(p)'
    BY <1>3 DEF Up
  <2>2. \A r \in Procs, x \in Objects : r # p => (Reads(r, x)' <=> Reads(r, x))
    BY <1>1, <1>3 DEF Reads, Up
  <2>. QED
    BY <1>1, <2>1, <2>2, WriteKeeps, GoneKeepsAccount
<1>8. Numbered'
  BY <1>1, WriteKeeps DEF Numbered, Refs
<1>. QED
  BY <1>4, <1>5, <1>6, <1>7, <1>8 DEF Inv

\* A crash is as good as a destructor for what was taken.
LEMMA CrashKeepsInv ==
  ASSUME Inv, NEW p \in Procs, Crash(p)
  PROVE  Inv'
<1>1. /\ phase[p] # "down" /\ Forget(p)
      /\ handle' = [handle EXCEPT ![p] = [q \in Procs |-> NoObject]]
      /\ phase' = [phase EXCEPT ![p] = "down"]
      /\ UNCHANGED <<link, queue, sends, starts, accepted>>
  BY DEF Crash
<1>2. Types /\ OneWriter /\ UpMatches /\ AllAccounted /\ Numbered
  BY DEF Inv
<1>3. /\ phase' \in [Procs -> {"down", "opening", "up", "closing", "removing"}]
      /\ phase'[p] = "down" /\ \A r \in Procs \ {p} : phase'[r] = phase[r]
  BY <1>1, <1>2 DEF Types, TypeOK
<1>4. /\ handle' \in [Procs -> [Procs -> Objects \cup {NoObject}]]
      /\ \A q \in Procs : handle'[p][q] = NoObject
      /\ \A r \in Procs \ {p} : handle'[r] = handle[r]
  BY <1>1, <1>2 DEF Types, TypeOK
<1>5. Types'
  BY <1>1, <1>2, <1>3, <1>4, ForgetKeeps DEF Types, TypeOK
<1>6. \A x \in Objects, q \in Procs : Refs(x, q)' => Refs(x, q)
  BY <1>1, <1>4, ObjectAssumption DEF Refs
<1>7. OneWriter'
  BY <1>2, <1>6 DEF OneWriter
<1>8. UpMatches'
  <2>1. /\ pending'[p] = <<>> /\ got'[p] = <<>>
        /\ \A r \in Procs \ {p} : pending'[r] = pending[r] /\ got'[r] = got[r]
    BY <1>1, ForgetKeeps
  <2>. QED
    BY <1>2, <1>3, <1>4, <2>1 DEF UpMatches, Up
<1>9. AllAccounted'
  <2>1. ~Up(p)'
    BY <1>3 DEF Up
  <2>2. \A r \in Procs, x \in Objects : r # p => (Reads(r, x)' <=> Reads(r, x))
    BY <1>3, <1>4 DEF Reads, Up
  <2>3. queue' \in [Objects -> Seq(Msgs)] /\ accepted' \in [Objects -> Seq(Msgs)]
    BY <1>5 DEF Types
  <2>4. queue' = queue /\ accepted' = accepted
    BY <1>1
  <2>. QED
    BY <1>1, <2>1, <2>2, <2>3, <2>4, GoneKeepsAccount
<1>10. Numbered'
  BY <1>1, <1>2, <1>6 DEF Numbered
<1>. QED
  BY <1>5, <1>7, <1>8, <1>9, <1>10 DEF Inv

\* ~msgQImpl: a name is removed and the object closed, after the reading.
Removing(p, q) ==
    /\ phase[p] \in {"closing", "removing"}
    /\ link' = [link EXCEPT ![q] = NoObject]
    /\ handle' = [handle EXCEPT ![p][q] = NoObject]
    /\ \E s \in {"removing", "down"} : phase' = [phase EXCEPT ![p] = s]
    /\ UNCHANGED <<queue, pending, got, sends, starts, accepted, spent>>

\* Removing a name leaves nothing new to refer to.
LEMMA RemovingKeepsInv ==
  ASSUME Inv, NEW p \in Procs, NEW q \in Procs, Removing(p, q)
  PROVE  Inv'
<1>1. /\ ~Up(p) /\ phase[p] \notin {"opening", "up"}
      /\ link' = [link EXCEPT ![q] = NoObject]
      /\ handle' = [handle EXCEPT ![p][q] = NoObject]
      /\ UNCHANGED <<queue, pending, got, sends, starts, accepted, spent>>
  BY DEF Removing, Up
<1>2. Types /\ OneWriter /\ UpMatches /\ AllAccounted /\ Numbered
  BY DEF Inv
<1>3. /\ phase' \in [Procs -> {"down", "opening", "up", "closing", "removing"}]
      /\ phase'[p] \in {"removing", "down"} /\ \A r \in Procs \ {p} : phase'[r] = phase[r]
  BY <1>2 DEF Removing, Types, TypeOK
<1>4. /\ link' \in [Procs -> Objects \cup {NoObject}]
      /\ handle' \in [Procs -> [Procs -> Objects \cup {NoObject}]]
      /\ \A r \in Procs : link'[r] \in {link[r], NoObject}
      /\ \A r, s \in Procs : handle'[r][s] \in {handle[r][s], NoObject}
      /\ \A r \in Procs \ {p} : handle'[r] = handle[r]
  BY <1>1, <1>2 DEF Types, TypeOK
<1>5. Types'
  BY <1>1, <1>2, <1>3, <1>4 DEF Types, TypeOK
<1>6. \A x \in Objects, r \in Procs : Refs(x, r)' => Refs(x, r)
  BY <1>4, ObjectAssumption DEF Refs
<1>7. OneWriter'
  BY <1>2, <1>6 DEF OneWriter
<1>8. UpMatches'
  BY <1>1, <1>2, <1>3, <1>4 DEF UpMatches, Up
<1>9. AllAccounted'
  <2>1. \A r \in Procs, x \in Objects : Reads(r, x)' <=> Reads(r, x)
    BY <1>1, <1>3, <1>4 DEF Reads, Up
  <2>. QED
    BY <1>1, <1>2, <2>1 DEF AllAccounted, Taken
<1>10. Numbered'
  BY <1>1, <1>2, <1>6 DEF Numbered
<1>. QED
  BY <1>5, <1>7, <1>8, <1>9, <1>10 DEF Inv

-----------------------------------------------------------------------------
(* The theorems                                                             *)

\* Every step of either process keeps the invariant.
LEMMA NextInv == Inv /\ [Next]_vars => Inv'
<1>. SUFFICES ASSUME Inv, [Next]_vars PROVE Inv'
  OBVIOUS
<1>1. CASE UNCHANGED vars
  BY <1>1 DEF vars, procVars, Inv, Types, TypeOK, OneWriter, Refs, UpMatches, Up, AllAccounted,
              Reads, Taken, Numbered
<1>2. ASSUME NEW p \in Procs, Work(p) PROVE Inv'
  BY <1>2, OpenWriteQKeepsInv, OpenReadQKeepsInv, SendMsgKeepsInv, GetAllMsgTakes,
     GetOneMsgTakes, TakingKeepsInv DEF Work
<1>3. ASSUME NEW p \in Procs, Leave(p) PROVE Inv'
  <2>1. CASE RemoveReadQ(p)
    <3>1. Removing(p, Peer(p))
      BY <2>1 DEF RemoveReadQ, Removing
    <3>. QED
      BY <3>1, Peers, RemovingKeepsInv
  <2>2. CASE RemoveWriteQ(p)
    <3>1. Removing(p, p)
      BY <2>2 DEF RemoveWriteQ, Removing
    <3>. QED
      BY <3>1, RemovingKeepsInv
  <2>. QED
    BY <1>3, <2>1, <2>2, CloseKeepsInv, CrashKeepsInv DEF Leave
<1>. QED
  BY <1>1, <1>2, <1>3 DEF Next

\* The invariant holds in every reachable state.
LEMMA InvAlways == Spec => []Inv
<1>. QED
  BY InitInv, NextInv, PTL DEF Spec

\* Queues stay within the capacity, and names and handles denote objects.
THEOREM TypeCorrect == Spec => []TypeOK
<1>1. Inv => TypeOK
  BY DEF Inv, Types
<1>. QED
  BY InvAlways, <1>1, PTL

\* What a running reader was given, holds and will find in the queue is
\* exactly what was accepted since earlier readers went, however many
\* restarts, crashes and removed names there were.
THEOREM NothingLostWhileUpHolds == Spec => []NothingLostWhileUp
<1>1. ASSUME Inv PROVE NothingLostWhileUp
  <2>. SUFFICES ASSUME NEW p \in Procs, Up(p)
                PROVE  LET o == handle[p][Peer(p)]
                       IN  SubSeq(accepted[o], spent[o] + 1, Len(accepted[o]))
                             = got[p] \o pending[p] \o queue[o]
    BY DEF NothingLostWhileUp
  <2>. DEFINE o == handle[p][Peer(p)]
              rest == Taken(p) \o queue[o]
  <2>1. o \in Objects /\ Reads(p, o)
    BY <1>1 DEF Inv, UpMatches, Reads
  <2>2. Accounted(accepted[o], spent[o], Taken(p), queue[o])
    BY <1>1, <2>1 DEF Inv, AllAccounted
  <2>3. PICK old \in Seq(Msgs) :
           Len(old) = spent[o] /\ accepted[o] = old \o (Taken(p) \o queue[o])
    BY <2>2 DEF Accounted
  <2>4. old \in Seq(Msgs) /\ rest \in Seq(Msgs)
    BY <1>1, <2>1, <2>3, ConcatProperties DEF Inv, Types, Taken
  <2>5. accepted[o] = old \o rest
    BY <2>3
  <2>6. Len(old) = spent[o]
    BY <2>3
  <2>7. rest = got[p] \o pending[p] \o queue[o]
    BY DEF Taken
  <2>. HIDE DEF rest, o
  <2>8. SubSeq(old \o rest, Len(old) + 1, Len(old \o rest)) = rest
    BY <2>4, BehindFront
  <2>9. SubSeq(accepted[o], spent[o] + 1, Len(accepted[o])) = rest
    BY <2>5, <2>6, <2>8
  <2>. QED
    BY <2>7, <2>9 DEF o
<1>. QED
  BY InvAlways, <1>1, PTL

\* A process is given messages in the order of their numbers, none twice.
THEOREM GivenInOrderHolds == Spec => []GivenInOrder
<1>1. ASSUME Inv PROVE GivenInOrder
  <2>. SUFFICES ASSUME NEW p \in Procs PROVE Increasing(got[p])
    BY DEF GivenInOrder, Increasing
  <2>1. CASE ~Up(p)
    <3>1. got[p] = <<>>
      BY <1>1, <2>1 DEF Inv, UpMatches
    <3>. QED
      BY <3>1 DEF Increasing
  <2>2. CASE Up(p)
    <3>. DEFINE o == handle[p][Peer(p)]
                q == queue[o]
                tq == Taken(p) \o q
    <3>1. o \in Objects /\ Reads(p, o)
      BY <1>1, <2>2 DEF Inv, UpMatches, Reads
    <3>2. Accounted(accepted[o], spent[o], Taken(p), q) /\ Increasing(accepted[o])
      BY <1>1, <3>1 DEF Inv, AllAccounted, Numbered
    <3>3. PICK old \in Seq(Msgs) : accepted[o] = old \o (Taken(p) \o q)
      BY <3>2 DEF Accounted
    <3>4. /\ got[p] \in Seq(Msgs) /\ pending[p] \in Seq(Msgs) /\ q \in Seq(Msgs)
      BY <1>1, <3>1 DEF Inv, Types
    <3>5. Taken(p) \in Seq(Msgs)
      BY <3>4, ConcatProperties DEF Taken
    <3>6. tq \in Seq(Msgs)
      BY <3>4, <3>5, ConcatProperties
    <3>7. Increasing(old \o tq)
      BY <3>2, <3>3
    <3>8. old \in Seq(Msgs)
      BY <3>3
    <3>9. Increasing(tq)
      <4>. HIDE DEF tq
      <4>. QED
        BY <3>6, <3>7, <3>8, IncreasingParts
    <3>10. Increasing(Taken(p))
      <4>. HIDE DEF q
      <4>. QED
        BY <3>4, <3>5, <3>9, IncreasingParts
    <3>. QED
      BY <3>4, <3>10, IncreasingParts DEF Taken
  <2>. QED
    BY <2>1, <2>2
<1>. QED
  BY InvAlways, <1>1, PTL

-----------------------------------------------------------------------------
(* The refinement of FifoChannel by what the event loop process reads       *)

LoopQ == handle["loop"]["server"]
Pipe == IF Up("loop") THEN pending["loop"] \o queue[LoopQ] ELSE <<>>

\* The event loop process and its queue are as they were.
LoopAlone ==
    /\ Up("loop")' = Up("loop")
    /\ pending'["loop"] = pending["loop"] /\ got'["loop"] = got["loop"]
    /\ Up("loop") => /\ handle'["loop"]["server"] = LoopQ
                     /\ queue'[LoopQ] = queue[LoopQ]

\* Then nothing happens to the channel.
LEMMA AloneStutters ==
  ASSUME LoopAlone
  PROVE  UNCHANGED ToLoop!vars
<1>1. Pipe' = Pipe
  BY DEF LoopAlone, Pipe, LoopQ
<1>. QED
  BY <1>1 DEF LoopAlone, ToLoop!vars, Pipe, LoopQ

\* The two processes by name.
LEMMA Names ==
  /\ "loop" \in Procs /\ "server" \in Procs
  /\ Peer("loop") = "server" /\ Peer("server") = "loop" /\ "loop" # "server"
  /\ \A p \in Procs : p = "loop" \/ p = "server"
<1>. QED
  BY DEF Procs, Peer

\* While the event loop process is up, its queue is not the one it writes
\* and not the one that the server reads.
LEMMA OtherQueue ==
  ASSUME Inv, Up("loop")
  PROVE  /\ LoopQ \in Objects /\ handle["loop"]["loop"] # LoopQ
         /\ handle["server"]["loop"] # LoopQ
<1>1. LoopQ \in Objects
  BY Names DEF Inv, UpMatches, LoopQ
<1>2. Refs(LoopQ, "server")
  BY Names DEF Refs, LoopQ
<1>3. ~Refs(LoopQ, "loop")
  BY <1>1, <1>2, Names DEF Inv, OneWriter
<1>. QED
  BY <1>1, <1>3, Names DEF Refs

\* What the server writes while the event loop process stays as it is goes
\* to the end of the channel, or nowhere.
LEMMA ServerWrites ==
  ASSUME Inv, Up("server"), sends["server"] < MaxSends,
         Write(handle["server"]["server"], sends["server"] + 1),
         Up("loop")' = Up("loop"), UNCHANGED handle,
         pending'["loop"] = pending["loop"], got'["loop"] = got["loop"]
  PROVE  [ToLoop!Next]_(ToLoop!vars)
<1>. DEFINE o == handle["server"]["server"]
            m == sends["server"] + 1
            SM == Seq(Msgs)
<1>1. m \in Msgs
  BY Names, BoundAssumption DEF Inv, Types, TypeOK, Msgs
<1>2. queue \in [Objects -> SM] /\ pending["loop"] \in SM
  BY Names DEF Inv, Types
<1>3. CASE /\ Up("loop") /\ o = LoopQ /\ Len(queue[o]) < Cap
  <2>1. LoopQ \in Objects
    BY <1>3, OtherQueue
  <2>2. queue' = [queue EXCEPT ![o] = Append(@, m)]
    BY <1>3 DEF Write
  <2>. HIDE DEF o, m, SM
  <2>3. queue'[LoopQ] = Append(queue[LoopQ], m) /\ queue[LoopQ] \in SM
    BY <1>2, <1>3, <2>1, <2>2
  <2>. DEFINE a == pending["loop"]
              b == queue[LoopQ]
  <2>4. a \in SM /\ b \in SM
    BY <1>2, <2>3
  <2>5. Pipe' = a \o Append(b, m) /\ Pipe = a \o b
    BY <1>3, <2>3 DEF Pipe, LoopQ
  <2>. HIDE DEF a, b
  <2>6. a \o Append(b, m) = Append(a \o b, m)
    <3>1. <<m>> \in Seq(Msgs) /\ a \o b \in Seq(Msgs)
      BY <1>1, <2>4, ConcatProperties DEF SM
    <3>2. Append(b, m) = b \o <<m>> /\ Append(a \o b, m) = (a \o b) \o <<m>>
      BY <1>1, <2>4, <3>1, AppendIsConcat DEF SM
    <3>3. (a \o b) \o <<m>> = a \o (b \o <<m>>)
      BY <2>4, <3>1, Associative DEF SM
    <3>. QED
      BY <3>2, <3>3
  <2>7. Pipe' = Append(Pipe, m)
    BY <2>5, <2>6
  <2>8. ToLoop!Accept(m)
    BY <1>3, <2>7 DEF ToLoop!Accept, Pipe, LoopQ
  <2>. QED
    BY <1>1, <2>8 DEF ToLoop!Next
<1>4. CASE ~(Up("loop") /\ o = LoopQ /\ Len(queue[o]) < Cap)
  <2>1. Up("loop") => queue'[LoopQ] = queue[LoopQ]
    <3>. SUFFICES ASSUME Up("loop") PROVE queue'[LoopQ] = queue[LoopQ]
      OBVIOUS
    <3>1. LoopQ \in Objects
      BY OtherQueue
    <3>2. CASE ~(Len(queue[o]) < Cap)
      BY <3>2 DEF Write
    <3>3. CASE Len(queue[o]) < Cap /\ o # LoopQ
      <4>1. queue' = [queue EXCEPT ![o] = Append(@, m)]
        BY <3>3 DEF Write
      <4>. HIDE DEF o, m
      <4>. QED
        BY <1>2, <3>1, <3>3, <4>1
    <3>. QED
      BY <1>4, <3>2, <3>3
  <2>2. LoopAlone
    BY <2>1 DEF LoopAlone, LoopQ
  <2>. QED
    BY <2>2, AloneStutters
<1>. QED
  BY <1>3, <1>4

\* What the event loop process writes is not for it to read.
LEMMA LoopWrites ==
  ASSUME Inv, Up("loop"), Write(handle["loop"]["loop"], sends["loop"] + 1)
  PROVE  queue'[LoopQ] = queue[LoopQ]
<1>1. LoopQ \in Objects /\ handle["loop"]["loop"] # LoopQ
  BY OtherQueue
<1>2. queue \in [Objects -> Seq(Msgs)]
  BY DEF Inv, Types
<1>. QED
  BY <1>1, <1>2 DEF Write

\* What the event loop process takes comes out of the channel in turn.
LEMMA LoopReads ==
  ASSUME Inv, GetAllMsg("loop") \/ GetOneMsg("loop")
  PROVE  [ToLoop!Next]_(ToLoop!vars)
<1>. DEFINE f == Fetched("loop")
            SM == Seq(Msgs)
<1>1. /\ Up("loop") /\ queue' = [queue EXCEPT ![LoopQ] = <<>>] /\ UNCHANGED <<phase, handle>>
  BY Names DEF GetAllMsg, GetOneMsg, LoopQ
<1>2. /\ queue \in [Objects -> SM] /\ LoopQ \in Objects
      /\ pending \in [Procs -> SM] /\ got \in [Procs -> SM] /\ <<>> \in SM
  BY <1>1, OtherQueue, EmptySeq DEF Inv, Types
<1>3. f \in SM /\ Pipe = f
  BY <1>1, <1>2, Names, ConcatProperties DEF Fetched, Pipe, LoopQ
<1>. HIDE DEF f
<1>4. queue'[LoopQ] = <<>> /\ Up("loop")' /\ LoopQ' = LoopQ
  BY <1>1, <1>2 DEF Up, LoopQ
<1>5. pending' \in [Procs -> SM]
  <2>1. Taking("loop")
    BY GetAllMsgTakes, GetOneMsgTakes, Names
  <2>. QED
    BY <2>1 DEF Taking
<1>6. pending'["loop"] \o <<>> = pending'["loop"]
  <2>1. pending'["loop"] \in SM
    BY <1>5, Names
  <2>. QED
    BY <2>1, ConcatEmptySeq
<1>7. Pipe' = pending'["loop"]
  BY <1>4, <1>6 DEF Pipe
<1>8. ASSUME UNCHANGED got, Pipe' = Pipe PROVE UNCHANGED ToLoop!vars
  BY <1>1, <1>4, <1>8 DEF ToLoop!vars, Pipe, LoopQ
<1>9. CASE GetAllMsg("loop")
  <2>1. pending'["loop"] = f /\ UNCHANGED got
    BY <1>2, <1>9, Names DEF GetAllMsg, f
  <2>. QED
    BY <1>3, <1>7, <1>8, <2>1
<1>10. CASE GetOneMsg("loop") /\ f = <<>>
  <2>1. UNCHANGED <<pending, got>>
    BY <1>10 DEF GetOneMsg, f
  <2>2. pending["loop"] = <<>>
    <3>. DEFINE a == pending["loop"]
                b == queue[LoopQ]
    <3>1. a \in SM /\ b \in SM
      BY <1>2, Names
    <3>2. a \o b = <<>>
      BY <1>10, Names DEF f, Fetched, LoopQ
    <3>. HIDE DEF a, b
    <3>3. /\ Len(a \o b) = Len(a) + Len(b) /\ Len(a) \in Nat /\ Len(b) \in Nat
          /\ Len(<<>>) = 0
      BY <3>1, ConcatProperties, LenProperties, EmptySeq
    <3>4. Len(a) = 0
      BY <3>2, <3>3
    <3>5. a = <<>>
      BY <3>1, <3>4, EmptySeq
    <3>. QED
      BY <3>5 DEF a
  <2>3. Pipe' = Pipe
    BY <1>3, <1>7, <1>10, <2>1, <2>2
  <2>. QED
    BY <1>8, <2>1, <2>3
<1>11. CASE GetOneMsg("loop") /\ f # <<>>
  <2>1. /\ got' = [got EXCEPT !["loop"] = Append(@, Head(f))]
        /\ pending' = [pending EXCEPT !["loop"] = Tail(f)]
    BY <1>11 DEF GetOneMsg, f, Popped
  <2>2. got'["loop"] = Append(got["loop"], Head(f)) /\ pending'["loop"] = Tail(f)
    BY <1>2, <2>1, Names
  <2>3. Pipe # <<>> /\ Pipe' = Tail(Pipe) /\ got'["loop"] = Append(got["loop"], Head(Pipe))
    BY <1>3, <1>7, <1>11, <2>2
  <2>4. ToLoop!Deliver
    BY <1>1, <1>4, <2>3 DEF ToLoop!Deliver, Pipe, LoopQ
  <2>. QED
    BY <2>4 DEF ToLoop!Next
<1>. QED
  BY <1>9, <1>10, <1>11

\* Every step of the two processes is one of the channel, or none.
LEMMA StepRefines == Inv /\ Inv' /\ [Next]_vars => [ToLoop!Next]_(ToLoop!vars)
<1>. SUFFICES ASSUME Inv, Inv', [Next]_vars PROVE [ToLoop!Next]_(ToLoop!vars)
  OBVIOUS
<1>. USE Names
<1>1. /\ phase \in [Procs -> {"down", "opening", "up", "closing", "removing"}]
      /\ handle \in [Procs -> [Procs -> Objects \cup {NoObject}]]
      /\ pending \in [Procs -> Seq(Msgs)] /\ got \in [Procs -> Seq(Msgs)]
      /\ queue \in [Objects -> Seq(Msgs)]
  BY DEF Inv, Types, TypeOK
<1>2. ASSUME LoopAlone PROVE [ToLoop!Next]_(ToLoop!vars)
  BY <1>2, AloneStutters
<1>. DEFINE NothingRead == got["loop"] = <<>> /\ pending["loop"] = <<>>
<1>0. (~Up("loop") => NothingRead) /\ (~Up("loop")' => NothingRead')
  BY DEF Inv, UpMatches
<1>3. ASSUME ~Up("loop"), ~Up("loop")' PROVE LoopAlone
  BY <1>0, <1>3 DEF LoopAlone, Up
<1>4. ASSUME Up("loop"), ~Up("loop")' PROVE ToLoop!Go
  <2>1. Pipe' = <<>> /\ got'["loop"] = <<>>
    BY <1>4 DEF Inv, UpMatches, Pipe
  <2>. QED
    BY <1>4, <2>1 DEF ToLoop!Go, ToLoop!Closed, Pipe, LoopQ
<1>5. CASE UNCHANGED vars
  BY <1>2, <1>5 DEF vars, procVars, LoopAlone, LoopQ, Up
<1>6. ASSUME NEW p \in Procs, OpenWriteQ(p) PROVE [ToLoop!Next]_(ToLoop!vars)
  <2>1. /\ phase[p] = "down" /\ phase' = [phase EXCEPT ![p] = "opening"] /\ Open(p, p)
        /\ UNCHANGED <<queue, pending, got>>
    BY <1>6 DEF OpenWriteQ, Open
  <2>2. \A r, s \in Procs : <<r, s>> # <<p, p>> => handle'[r][s] = handle[r][s]
    BY <2>1, OpenKeeps
  <2>3. Up("loop")' = Up("loop")
    BY <1>1, <2>1 DEF Up
  <2>4. LoopAlone
    BY <2>1, <2>2, <2>3 DEF LoopAlone, LoopQ
  <2>. QED
    BY <1>2, <2>4
<1>7. ASSUME NEW p \in Procs, OpenReadQ(p) PROVE [ToLoop!Next]_(ToLoop!vars)
  <2>1. /\ phase[p] = "opening" /\ phase' = [phase EXCEPT ![p] = "up"] /\ Open(p, Peer(p))
        /\ UNCHANGED <<queue, pending, got>>
    BY <1>7 DEF OpenReadQ, Open
  <2>2. \A r, s \in Procs : <<r, s>> # <<p, Peer(p)>> => handle'[r][s] = handle[r][s]
    BY <2>1, OpenKeeps
  <2>3. CASE p = "server"
    <3>1. Up("loop")' = Up("loop")
      BY <1>1, <2>1, <2>3 DEF Up
    <3>2. LoopAlone
      BY <2>1, <2>2, <2>3, <3>1 DEF LoopAlone, LoopQ
    <3>. QED
      BY <1>2, <3>2
  <2>4. CASE p = "loop"
    <3>1. ~Up("loop") /\ Up("loop")' /\ got'["loop"] = <<>>
      BY <1>1, <2>1, <2>4 DEF Up, Inv, UpMatches
    <3>2. Pipe' \in Seq(Msgs)
      <4>1. LoopQ' \in Objects
        BY <3>1 DEF Inv, UpMatches, LoopQ
      <4>. QED
        BY <4>1, <1>1, <3>1, <2>1, ConcatProperties DEF Pipe
    <3>3. ToLoop!Come
      BY <3>1, <3>2 DEF ToLoop!Come, Pipe, LoopQ
    <3>. QED
      BY <3>3 DEF ToLoop!Next
  <2>. QED
    BY <2>3, <2>4
<1>8. ASSUME NEW p \in Procs, SendMsg(p) PROVE [ToLoop!Next]_(ToLoop!vars)
  <2>1. /\ Up(p) /\ sends[p] < MaxSends /\ Write(handle[p][p], sends[p] + 1)
        /\ UNCHANGED <<phase, handle, pending, got>>
    BY <1>8 DEF SendMsg, procVars
  <2>2. CASE p = "server"
    BY <2>1, <2>2, ServerWrites DEF Up
  <2>3. CASE p = "loop"
    <3>1. LoopAlone
      BY <2>1, <2>3, LoopWrites DEF LoopAlone, Up, LoopQ
    <3>. QED
      BY <1>2, <3>1
  <2>. QED
    BY <2>2, <2>3
<1>9. ASSUME NEW p \in Procs, GetAllMsg(p) \/ GetOneMsg(p) PROVE [ToLoop!Next]_(ToLoop!vars)
  <2>1. CASE p = "loop"
    BY <1>9, <2>1, LoopReads
  <2>2. CASE p = "server"
    <3>1. /\ queue' = [queue EXCEPT ![handle["server"]["loop"]] = <<>>]
          /\ UNCHANGED <<phase, handle>>
      BY <1>9, <2>2 DEF GetAllMsg, GetOneMsg
    <3>2. Taking("server")
      BY <1>9, <2>2, GetAllMsgTakes, GetOneMsgTakes
    <3>3. pending'["loop"] = pending["loop"] /\ got'["loop"] = got["loop"]
      BY <3>2 DEF Taking
    <3>4. Up("loop") => queue'[LoopQ] = queue[LoopQ]
      BY <1>1, <3>1, OtherQueue
    <3>5. LoopAlone
      BY <3>1, <3>3, <3>4 DEF LoopAlone, Up, LoopQ
    <3>. QED
      BY <1>2, <3>5
  <2>. QED
    BY <2>1, <2>2
<1>10. ASSUME NEW p \in Procs, CloseAmbassador(p) PROVE [ToLoop!Next]_(ToLoop!vars)
  <2>1. /\ Up(p) /\ sends[p] < MaxSends /\ Write(handle[p][p], sends[p] + 1) /\ Forget(p)
        /\ phase' = [phase EXCEPT ![p] = "closing"] /\ UNCHANGED handle
    BY <1>10 DEF CloseAmbassador
  <2>2. CASE p = "loop"
    <3>1. ToLoop!Go
      BY <1>1, <1>4, <2>1, <2>2 DEF Up
    <3>. QED
      BY <3>1 DEF ToLoop!Next
  <2>3. CASE p = "server"
    <3>1. pending'["loop"] = pending["loop"] /\ got'["loop"] = got["loop"]
      BY <2>1, <2>3, ForgetKeeps
    <3>2. Up("loop")' = Up("loop")
      BY <1>1, <2>1, <2>3 DEF Up
    <3>. QED
      BY <2>1, <2>3, <3>1, <3>2, ServerWrites
  <2>. QED
    BY <2>2, <2>3
<1>11. ASSUME NEW p \in Procs, RemoveReadQ(p) \/ RemoveWriteQ(p)
       PROVE  [ToLoop!Next]_(ToLoop!vars)
  <2>1. /\ phase[p] \in {"closing", "removing"}
        /\ \E q \in Procs : handle' = [handle EXCEPT ![p][q] = NoObject]
        /\ \E s \in {"removing", "down"} : phase' = [phase EXCEPT ![p] = s]
        /\ UNCHANGED <<queue, pending, got>>
    BY <1>11, Peers DEF RemoveReadQ, RemoveWriteQ
  <2>2. CASE p = "loop"
    <3>1. ~Up("loop") /\ ~Up("loop")'
      BY <1>1, <2>1, <2>2 DEF Up
    <3>. QED
      BY <1>2, <1>3, <3>1
  <2>3. CASE p = "server"
    <3>1. Up("loop")' = Up("loop") /\ handle'["loop"] = handle["loop"]
      BY <1>1, <2>1, <2>3 DEF Up
    <3>2. LoopAlone
      BY <2>1, <3>1 DEF LoopAlone, LoopQ
    <3>. QED
      BY <1>2, <3>2
  <2>. QED
    BY <2>2, <2>3
<1>12. ASSUME NEW p \in Procs, Crash(p) PROVE [ToLoop!Next]_(ToLoop!vars)
  <2>1. /\ Forget(p) /\ phase' = [phase EXCEPT ![p] = "down"] /\ UNCHANGED queue
        /\ handle' = [handle EXCEPT ![p] = [q \in Procs |-> NoObject]]
    BY <1>12 DEF Crash
  <2>2. CASE p = "loop"
    <3>1. ~Up("loop")'
      BY <1>1, <2>1, <2>2 DEF Up
    <3>2. CASE Up("loop")
      BY <1>4, <3>1, <3>2 DEF ToLoop!Next
    <3>3. CASE ~Up("loop")
      BY <1>2, <1>3, <3>1, <3>3
    <3>. QED
      BY <3>2, <3>3
  <2>3. CASE p = "server"
    <3>1. pending'["loop"] = pending["loop"] /\ got'["loop"] = got["loop"]
      BY <2>1, <2>3, ForgetKeeps
    <3>2. Up("loop")' = Up("loop") /\ handle'["loop"] = handle["loop"]
      BY <1>1, <2>1, <2>3 DEF Up
    <3>3. LoopAlone
      BY <2>1, <3>1, <3>2 DEF LoopAlone, LoopQ
    <3>. QED
      BY <1>2, <3>3
  <2>. QED
    BY <2>2, <2>3
<1>. QED
  BY <1>5, <1>6, <1>7, <1>8, <1>9, <1>10, <1>11, <1>12 DEF Next, Work, Leave

\* The queue that the event loop process has open, together with its
\* readContentQ, behaves as a FIFO channel: the safety part of ImplementsFifo.
THEOREM RefinesFifo == Spec => ToLoop!Init /\ [][ToLoop!Next]_(ToLoop!vars)
<1>1. Init => ToLoop!Init
  BY Names DEF Init, ToLoop!Init, ToLoop!Closed, Up
<1>. QED
  BY <1>1, InvAlways, StepRefines, PTL DEF Spec
=============================================================================
