----------------------------- MODULE GameProofs -----------------------------
(***************************************************************************)
(* Proofs about the parts that a game is made of: its instances            *)
(* (GameInstances, for any ids, games and players), its settings           *)
(* (GameSettings, for any game files), the expressions in its rules        *)
(* (Expressions, for any of them and any scopes) and the tree of its rules *)
(* (GameFile, for any grammar and any nesting).  A theorem rests on the    *)
(* assumptions of its own part and of those it extends; the parts share    *)
(* the lemmas on recursion.                                                *)
(***************************************************************************)
EXTENDS GameInstances, GameFile,
        SequenceTheorems, WellFoundedInduction, TLAPS

-----------------------------------------------------------------------------
(* The instances of games                                                  *)

\* A game that lives is the one the map has for its id, and the other way
\* round; a game that is created but refused never lived.
OneByOne ==
    /\ \A g \in built : waiting[idOf[g]] = g
    /\ \A d \in Ids : waiting[d] # NoGame => waiting[d] \in built /\ idOf[waiting[d]] = d

\* Players join through the map: nobody plays a game that is not there.
Joined ==
    /\ \A d \in Ids : joined[d] = IF waiting[d] = NoGame THEN <<>> ELSE players[waiting[d]]
    /\ \A g \in Games \ built : players[g] = <<>>

\* The queue gives up only games that live.
Inv == TypeOK /\ Range(queue) \subseteq built /\ OneByOne /\ Joined

\* What is put at the end of a sequence is all that its range gains.
LEMMA RangeOfAppend ==
  ASSUME NEW S, NEW s \in Seq(S), NEW e \in S
  PROVE  Range(Append(s, e)) = Range(s) \cup {e}
<1>1. /\ Len(s) \in Nat /\ Len(Append(s, e)) = Len(s) + 1
      /\ DOMAIN s = 1..Len(s) /\ DOMAIN Append(s, e) = 1..Len(Append(s, e))
      /\ \A i \in 1..Len(s) : Append(s, e)[i] = s[i]
      /\ Append(s, e)[Len(s) + 1] = e
  BY AppendProperties, LenProperties
<1>. DEFINE t == Append(s, e)
<1>. HIDE DEF t
<1>2. \A i \in DOMAIN t : (i \in DOMAIN s /\ t[i] = s[i]) \/ t[i] = e
  BY <1>1 DEF t
<1>3. /\ \A i \in DOMAIN s : i \in DOMAIN t /\ t[i] = s[i]
      /\ Len(s) + 1 \in DOMAIN t /\ t[Len(s) + 1] = e
  BY <1>1 DEF t
<1>4. Range(t) = Range(s) \cup {e}
  BY <1>2, <1>3 DEF Range
<1>. QED
  BY <1>4 DEF t

\* What is taken off the front of a sequence was in its range, and the rest
\* still is.
LEMMA RangeOfTail ==
  ASSUME NEW S, NEW s \in Seq(S), s # <<>>
  PROVE  Head(s) \in Range(s) /\ Range(Tail(s)) \subseteq Range(s)
<1>1. /\ Len(s) \in Nat \ {0} /\ Len(Tail(s)) = Len(s) - 1
      /\ DOMAIN s = 1..Len(s) /\ DOMAIN Tail(s) = 1..Len(Tail(s))
      /\ \A i \in 1..Len(Tail(s)) : Tail(s)[i] = s[i + 1]
      /\ Head(s) = s[1]
  BY HeadTailProperties, LenProperties, EmptySeq
<1>. DEFINE t == Tail(s)
<1>. HIDE DEF t
<1>2. \A i \in DOMAIN t : i + 1 \in DOMAIN s /\ t[i] = s[i + 1]
  BY <1>1 DEF t
<1>3. Range(t) \subseteq Range(s)
  BY <1>2 DEF Range
<1>4. 1 \in DOMAIN s
  BY <1>1
<1>5. Head(s) \in Range(s)
  BY <1>1, <1>4 DEF Range
<1>. QED
  BY <1>3, <1>5 DEF t

\* No game is there yet.
LEMMA InitInv == Init => Inv
<1>. SUFFICES ASSUME Init PROVE Inv
  OBVIOUS
<1>1. <<>> \in Seq(Games) /\ <<>> \in Seq(Players) /\ Len(<<>>) = 0
  BY EmptySeq
<1>2. TypeOK
  BY <1>1, BoundAssumption DEF Init, TypeOK
<1>3. Range(queue) \subseteq built
  BY DEF Init, Range
<1>4. OneByOne /\ Joined
  BY DEF Init, OneByOne, Joined
<1>. QED
  BY <1>2, <1>3, <1>4 DEF Inv

\* A game made for an id that is free is the game of that id; one made for
\* an id that is taken is gone at once.
LEMMA CreateKeepsInv ==
  ASSUME Inv, NEW d \in Ids, CreateGameInstance(d)
  PROVE  Inv'
<1>. USE GameAssumption
<1>1. PICK g \in Games \ built :
        /\ waiting' = Emplace(g, d)
        /\ built' = IF waiting'[d] = g THEN built \cup {g} ELSE built
        /\ idOf' = [idOf EXCEPT ![g] = d]
  BY DEF CreateGameInstance
<1>2. UNCHANGED <<queue, held, players, currPlayerCount, joined>>
  BY DEF CreateGameInstance
<1>3. TypeOK /\ OneByOne /\ Joined /\ Range(queue) \subseteq built
  BY DEF Inv
<1>4. /\ waiting \in [Ids -> Games \cup {NoGame}] /\ idOf \in [Games -> Ids]
      /\ built \subseteq Games
  BY <1>3 DEF TypeOK
<1>5. /\ idOf' \in [Games -> Ids] /\ idOf'[g] = d
      /\ \A h \in Games \ {g} : idOf'[h] = idOf[h]
  BY <1>1, <1>4
<1>6. CASE waiting[d] = NoGame
  <2>1. waiting' = [waiting EXCEPT ![d] = g]
    BY <1>1, <1>6 DEF Emplace
  <2>2. /\ waiting' \in [Ids -> Games \cup {NoGame}] /\ waiting'[d] = g
        /\ \A e \in Ids \ {d} : waiting'[e] = waiting[e]
        /\ built' = built \cup {g}
    BY <1>1, <1>4, <2>1
  <2>3. TypeOK'
    BY <1>1, <1>2, <1>3, <1>5, <2>2 DEF TypeOK
  <2>4. OneByOne'
    BY <1>1, <1>3, <1>4, <1>5, <1>6, <2>2 DEF OneByOne
  <2>5. Joined'
    BY <1>1, <1>2, <1>3, <1>6, <2>2 DEF Joined
  <2>. QED
    BY <1>2, <1>3, <2>2, <2>3, <2>4, <2>5 DEF Inv
<1>7. CASE waiting[d] # NoGame
  <2>1. waiting' = waiting
    BY <1>1, <1>7 DEF Emplace
  <2>2. built' = built
    BY <1>1, <1>3, <1>7, <2>1 DEF OneByOne
  <2>3. TypeOK'
    BY <1>2, <1>3, <1>5, <2>1, <2>2 DEF TypeOK
  <2>4. OneByOne'
    BY <1>1, <1>3, <1>4, <1>5, <2>1, <2>2 DEF OneByOne
  <2>5. Joined'
    BY <1>2, <1>3, <2>1, <2>2 DEF Joined
  <2>. QED
    BY <1>2, <1>3, <2>2, <2>3, <2>4, <2>5 DEF Inv
<1>. QED
  BY <1>6, <1>7

\* A game put back finds its id on the map.
LEMMA EmplaceAgain ==
  ASSUME Inv, NEW g \in held
  PROVE  Emplace(g, idOf[g]) = waiting
<1>1. g \in built /\ g # NoGame
  BY GameAssumption DEF Inv, TypeOK
<1>2. waiting[idOf[g]] = g
  BY <1>1 DEF Inv, OneByOne
<1>. QED
  BY <1>1, <1>2 DEF Emplace

\* Games that are moved between queue, callers and map stay what they are.
LEMMA MoveKeepsInv ==
  ASSUME Inv, UNCHANGED <<waiting, idOf, built, players, currPlayerCount, joined>>,
         held' \subseteq built, queue' \in Seq(Games), Len(queue') <= MaxQueue,
         Range(queue') \subseteq built
  PROVE  Inv'
<1>1. TypeOK'
  BY DEF Inv, TypeOK
<1>2. OneByOne' /\ Joined'
  BY DEF Inv, OneByOne, Joined
<1>. QED
  BY <1>1, <1>2 DEF Inv

\* A player who joins is the last of the game that the map has for the id.
LEMMA AssignKeepsInv ==
  ASSUME Inv, NEW d \in Ids, NEW p \in Players, AssignPlayerToGame(d, p)
  PROVE  Inv'
<1>. DEFINE g == waiting[d]
            SP == Seq(Players)
<1>1. /\ g # NoGame /\ players' = [players EXCEPT ![g] = Append(@, p)]
      /\ joined' = [joined EXCEPT ![d] = Append(@, p)]
      /\ UNCHANGED <<waiting, queue, held, idOf, built, currPlayerCount>>
  BY DEF AssignPlayerToGame, AddPlayer
<1>2. TypeOK /\ OneByOne /\ Joined /\ Range(queue) \subseteq built
  BY DEF Inv
<1>3. players \in [Games -> SP] /\ joined \in [Ids -> SP] /\ waiting \in [Ids -> Games \cup {NoGame}]
  BY <1>2 DEF TypeOK
<1>4. g \in Games /\ g \in built /\ players[g] = joined[d]
  BY <1>1, <1>2, <1>3 DEF OneByOne, Joined
<1>5. Append(players[g], p) \in SP /\ Append(joined[d], p) \in SP
  BY <1>3, <1>4, AppendProperties
<1>. HIDE DEF g, SP
<1>6. /\ players' \in [Games -> SP] /\ joined' \in [Ids -> SP]
      /\ players'[g] = Append(players[g], p) /\ joined'[d] = Append(joined[d], p)
      /\ \A h \in Games \ {g} : players'[h] = players[h]
      /\ \A e \in Ids \ {d} : joined'[e] = joined[e]
  BY <1>1, <1>3, <1>4, <1>5
<1>7. TypeOK'
  BY <1>1, <1>2, <1>6 DEF TypeOK, SP
<1>8. OneByOne'
  BY <1>1, <1>2 DEF OneByOne
<1>9. Joined'
  <2>1. \A e \in Ids \ {d} : waiting[e] # g
    BY <1>1, <1>2 DEF OneByOne, g
  <2>2. \A e \in Ids : joined'[e] = IF waiting[e] = NoGame THEN <<>> ELSE players'[waiting[e]]
    <3>. SUFFICES ASSUME NEW e \in Ids
                  PROVE  joined'[e] = IF waiting[e] = NoGame THEN <<>> ELSE players'[waiting[e]]
      OBVIOUS
    <3>1. CASE e = d
      BY <1>1, <1>4, <1>6, <3>1 DEF g
    <3>2. CASE e # d
      BY <1>2, <1>3, <1>6, <2>1, <3>2 DEF Joined
    <3>. QED
      BY <3>1, <3>2
  <2>. QED
    BY <1>1, <1>2, <1>4, <1>6, <2>2 DEF Joined
<1>. QED
  BY <1>1, <1>2, <1>7, <1>8, <1>9 DEF Inv

\* Every call keeps the invariant.
LEMMA NextInv == Inv /\ [Next]_vars => Inv'
<1>. SUFFICES ASSUME Inv, [Next]_vars PROVE Inv'
  OBVIOUS
<1>1. TypeOK /\ OneByOne /\ Range(queue) \subseteq built
  BY DEF Inv
<1>2. /\ held \subseteq built /\ built \subseteq Games
      /\ queue \in Seq(Games) /\ Len(queue) <= MaxQueue /\ Len(queue) \in Nat
  BY <1>1, LenProperties DEF TypeOK
<1>3. MaxQueue \in Nat
  BY BoundAssumption
<1>4. CASE UNCHANGED vars
  BY <1>4 DEF vars, Inv, TypeOK, OneByOne, Joined
<1>5. CASE \E d \in Ids : CreateGameInstance(d)
  BY <1>5, CreateKeepsInv
<1>6. CASE \E d \in Ids : GetGameInstanceFromMap(d)
  BY <1>1, <1>2, <1>6, MoveKeepsInv DEF GetGameInstanceFromMap, Found, OneByOne
<1>7. CASE \E g \in Games : PutGameInstanceInQueue(g)
  <2>1. PICK g \in Games : PutGameInstanceInQueue(g)
    BY <1>7
  <2>2. /\ g \in held /\ Len(queue) < MaxQueue /\ queue' = Append(queue, g)
        /\ held' = held \ {g}
        /\ UNCHANGED <<waiting, idOf, built, players, currPlayerCount, joined>>
    BY <2>1 DEF PutGameInstanceInQueue
  <2>3. g \in built /\ g \in Games
    BY <1>2, <2>2
  <2>4. /\ Append(queue, g) \in Seq(Games) /\ Len(Append(queue, g)) = Len(queue) + 1
        /\ Range(Append(queue, g)) = Range(queue) \cup {g}
    BY <1>2, <2>3, AppendProperties, RangeOfAppend
  <2>5. /\ queue' \in Seq(Games) /\ Len(queue') <= MaxQueue /\ Range(queue') \subseteq built
    BY <1>1, <1>2, <1>3, <2>2, <2>3, <2>4
  <2>. QED
    BY <1>2, <2>2, <2>5, MoveKeepsInv
<1>8. CASE \E g \in Games : PutGameInstanceInMap(g)
  <2>1. PICK g \in Games : PutGameInstanceInMap(g)
    BY <1>8
  <2>2. waiting' = waiting
    BY <2>1, EmplaceAgain DEF PutGameInstanceInMap
  <2>. QED
    BY <1>1, <1>2, <2>1, <2>2, MoveKeepsInv DEF PutGameInstanceInMap
<1>9. CASE GetGameInstanceFromQueue
  <2>1. /\ queue # <<>> /\ held' = held \cup {Head(queue)} /\ queue' = Tail(queue)
        /\ UNCHANGED <<waiting, idOf, built, players, currPlayerCount, joined>>
    BY <1>9 DEF GetGameInstanceFromQueue
  <2>2. /\ Tail(queue) \in Seq(Games) /\ Len(Tail(queue)) = Len(queue) - 1
        /\ Head(queue) \in Range(queue) /\ Range(Tail(queue)) \subseteq Range(queue)
    BY <1>2, <2>1, HeadTailProperties, RangeOfTail
  <2>3. queue' \in Seq(Games) /\ Len(queue') <= MaxQueue /\ Range(queue') \subseteq built
    BY <1>1, <1>2, <1>3, <2>1, <2>2
  <2>. QED
    BY <1>1, <1>2, <2>1, <2>2, <2>3, MoveKeepsInv
<1>10. CASE \E d \in Ids, p \in Players : AssignPlayerToGame(d, p)
  BY <1>10, AssignKeepsInv
<1>. QED
  BY <1>4, <1>5, <1>6, <1>7, <1>8, <1>9, <1>10 DEF Next

\* The invariant holds in every reachable state.
LEMMA InvAlways == Spec => []Inv
<1>. QED
  BY InitInv, NextInv, PTL DEF Spec

\* Games, ids and players stay in their places.
THEOREM TypeCorrect == Spec => []TypeOK
<1>1. Inv => TypeOK
  BY DEF Inv
<1>. QED
  BY InvAlways, <1>1, PTL

\* A game that can be reached is the game of its id, and its players are
\* those who joined under that id.
THEOREM OneGamePerIdHolds == Spec => []OneGamePerId
<1>1. ASSUME Inv PROVE OneGamePerId
  <2>1. Reachable \subseteq built
    BY <1>1 DEF Inv, TypeOK, OneByOne, Reachable
  <2>2. \A g \in Reachable : waiting[idOf[g]] = g
    BY <1>1, <2>1 DEF Inv, OneByOne
  <2>3. \A d \in Ids : waiting[d] # NoGame => players[waiting[d]] = joined[d]
    BY <1>1 DEF Inv, Joined
  <2>. QED
    BY <2>2, <2>3 DEF OneGamePerId
<1>. QED
  BY InvAlways, <1>1, PTL

-----------------------------------------------------------------------------
(* Induction                                                               *)

\* A set of numbers has a least one.
LEMMA Least ==
  ASSUME NEW S, S \subseteq Nat, S # {}
  PROVE  \E n \in S : \A m \in S : n <= m
<1>. DEFINE R == OpToRel(<, Nat)
<1>1. IsWellFoundedOn(R, Nat)
  BY NatLessThanWellFounded
<1>2. \A m, n \in Nat : m < n => <<m, n>> \in R
  BY DEF OpToRel
<1>. HIDE DEF R
<1>3. PICK n \in S : \A m \in S : ~ (<<m, n>> \in R)
  BY <1>1, WFMin
<1>4. ASSUME NEW m \in S PROVE n <= m
  <2>1. m \in Nat /\ n \in Nat
    OBVIOUS
  <2>2. ~ (m < n)
    BY <1>2, <1>3, <2>1
  <2>. QED
    BY <2>1, <2>2
<1>. QED
  BY <1>4

\* What holds at zero and is handed on by every number up to n.
LEMMA Induction ==
  ASSUME NEW n \in Nat, NEW S, 0 \in S,
         \A i \in 1..n : i - 1 \in S => i \in S
  PROVE  0..n \subseteq S
<1>. DEFINE Bad == {i \in 0..n : i \notin S}
<1>. SUFFICES ASSUME Bad # {} PROVE FALSE
  OBVIOUS
<1>1. PICK i \in Bad : \A m \in Bad : i <= m
  <2>. Bad \subseteq Nat
    OBVIOUS
  <2>. HIDE DEF Bad
  <2>. QED
    BY Least
<1>2. i \in 1..n /\ i - 1 \in 0..n /\ i \notin S
  OBVIOUS
<1>3. i - 1 \in S
  BY <1>1, <1>2
<1>. QED
  BY <1>2, <1>3

-----------------------------------------------------------------------------
(* Recursion over trees                                                    *)

\* f is what step says of the trees that are less than k high.
UpTo(f, k, T, height, step) == \A e \in T : height[e] < k => f[e] = step[<<e, f>>]

\* A tree has a height, and its parts a lower one; what step says of a tree
\* depends on what is said of its parts only.
IsTree(T, height, parts) ==
    /\ height \in [T -> Nat] /\ parts \in [T -> SUBSET T]
    /\ \A e \in T : \A p \in parts[e] : height[p] < height[e]
IsStep(T, parts, V, step) ==
    /\ step \in [T \X [T -> V] -> V]
    /\ \A e \in T : \A f, g \in [T -> V] :
          (\A p \in parts[e] : f[p] = g[p]) => step[<<e, f>>] = step[<<e, g>>]

\* What holds of a tree when it does of its parts.
LEMMA TreeInduction ==
  ASSUME NEW T, NEW height, NEW parts, IsTree(T, height, parts),
         NEW S, \A e \in T : parts[e] \subseteq S => e \in S
  PROVE  T \subseteq S
<1>. DEFINE Bad == {e \in T : e \notin S}
            Low == {height[e] : e \in Bad}
<1>. SUFFICES ASSUME Bad # {} PROVE FALSE
  OBVIOUS
<1>1. \A e \in T : height[e] \in Nat /\ parts[e] \subseteq T /\ \A p \in parts[e] : height[p] < height[e]
  BY DEF IsTree
<1>2. PICK n \in Low : \A m \in Low : n <= m
  <2>1. Low \subseteq Nat /\ Low # {}
    BY <1>1
  <2>. HIDE DEF Low
  <2>. QED
    BY <2>1, Least
<1>3. PICK e \in Bad : height[e] = n
  OBVIOUS
<1>4. ASSUME NEW p \in parts[e] PROVE p \in S
  <2>1. p \in T /\ height[p] < height[e] /\ height[p] \in Nat /\ height[e] \in Nat
    BY <1>1
  <2>2. p \in Bad => height[p] \in Low
    OBVIOUS
  <2>. HIDE DEF Bad, Low
  <2>3. p \notin Bad
    BY <1>2, <1>3, <2>1, <2>2
  <2>. QED
    BY <2>1, <2>3 DEF Bad
<1>. QED
  BY <1>4

\* There is an f for the trees up to any height.
LEMMA UpToExists ==
  ASSUME NEW T, NEW height, NEW parts, IsTree(T, height, parts),
         NEW V, NEW v \in V, NEW step, IsStep(T, parts, V, step), NEW n \in Nat
  PROVE  \E f \in [T -> V] : UpTo(f, n, T, height, step)
<1>. DEFINE Good == {k \in 0..n : \E f \in [T -> V] : UpTo(f, k, T, height, step)}
<1>1. 0 \in Good
  <2>1. \A e \in T : ~ (height[e] < 0)
    BY DEF IsTree
  <2>2. UpTo([e \in T |-> v], 0, T, height, step)
    BY <2>1 DEF UpTo
  <2>. QED
    BY <2>2
<1>2. ASSUME NEW k \in 1..n, k - 1 \in Good PROVE k \in Good
  <2>1. PICK f \in [T -> V] : UpTo(f, k - 1, T, height, step)
    BY <1>2
  <2>. DEFINE g == [e \in T |-> step[<<e, f>>]]
  <2>2. g \in [T -> V]
    BY DEF IsStep
  <2>3. ASSUME NEW e \in T, height[e] < k PROVE g[e] = step[<<e, g>>]
    <3>1. ASSUME NEW p \in parts[e] PROVE g[p] = f[p]
      <4>1. p \in T /\ height[p] < height[e] /\ height[p] \in Nat /\ height[e] \in Nat
        BY DEF IsTree
      <4>2. height[p] < k - 1
        BY <2>3, <4>1
      <4>. QED
        BY <2>1, <4>1, <4>2 DEF UpTo
    <3>2. g[e] = step[<<e, f>>]
      OBVIOUS
    <3>. HIDE DEF g
    <3>. QED
      BY <2>2, <3>1, <3>2 DEF IsStep
  <2>. HIDE DEF g
  <2>4. UpTo(g, k, T, height, step)
    BY <2>3 DEF UpTo
  <2>. QED
    BY <2>2, <2>4
<1>. HIDE DEF Good
<1>3. 0..n \subseteq Good
  BY <1>1, <1>2, Induction
<1>. QED
  BY <1>3 DEF Good

\* Two of them agree.
LEMMA UpToUnique ==
  ASSUME NEW T, NEW height, NEW parts, IsTree(T, height, parts),
         NEW V, NEW step, IsStep(T, parts, V, step),
         NEW k \in Nat, NEW m \in Nat, NEW f \in [T -> V], NEW g \in [T -> V],
         UpTo(f, k, T, height, step), UpTo(g, m, T, height, step)
  PROVE  \A e \in T : height[e] < k /\ height[e] < m => f[e] = g[e]
<1>. DEFINE S == {e \in T : height[e] < k /\ height[e] < m => f[e] = g[e]}
<1>1. ASSUME NEW e \in T, parts[e] \subseteq S PROVE e \in S
  <2>. SUFFICES ASSUME height[e] < k, height[e] < m PROVE f[e] = g[e]
    OBVIOUS
  <2>1. ASSUME NEW p \in parts[e] PROVE f[p] = g[p]
    <3>1. p \in T /\ height[p] < height[e] /\ height[p] \in Nat /\ height[e] \in Nat
      BY DEF IsTree
    <3>2. height[p] < k /\ height[p] < m
      BY <3>1
    <3>. QED
      BY <1>1, <3>2
  <2>2. f[e] = step[<<e, f>>] /\ g[e] = step[<<e, g>>]
    BY DEF UpTo
  <2>. QED
    BY <2>1, <2>2 DEF IsStep
<1>. HIDE DEF S
<1>2. T \subseteq S
  BY <1>1, TreeInduction
<1>. QED
  BY <1>2 DEF S

\* So there is an f for all trees.
LEMMA Recursion ==
  ASSUME NEW T, NEW height, NEW parts, IsTree(T, height, parts),
         NEW V, NEW v \in V, NEW step, IsStep(T, parts, V, step)
  PROVE  \E f \in [T -> V] : f = [e \in T |-> step[<<e, f>>]]
<1>. DEFINE at(e) == CHOOSE f : f \in [T -> V] /\ UpTo(f, height[e] + 1, T, height, step)
            F == [e \in T |-> at(e)[e]]
<1>1. ASSUME NEW e \in T
      PROVE  /\ at(e) \in [T -> V] /\ UpTo(at(e), height[e] + 1, T, height, step)
             /\ height[e] \in Nat /\ height[e] + 1 \in Nat
  <2>1. height[e] \in Nat /\ height[e] + 1 \in Nat
    BY DEF IsTree
  <2>2. \E f \in [T -> V] : UpTo(f, height[e] + 1, T, height, step)
    BY <2>1, UpToExists
  <2>. QED
    BY <2>1, <2>2
<1>. HIDE DEF at
<1>2. F \in [T -> V]
  BY <1>1
<1>3. ASSUME NEW e \in T PROVE F[e] = step[<<e, F>>]
  <2>. DEFINE f == at(e)
              k == height[e] + 1
  <2>1. F[e] = f[e]
    OBVIOUS
  <2>2. f \in [T -> V] /\ UpTo(f, k, T, height, step) /\ k \in Nat /\ height[e] < k /\ height[e] \in Nat
    BY <1>1
  <2>3. ASSUME NEW p \in parts[e] PROVE f[p] = F[p]
    <3>1. p \in T /\ height[p] < height[e]
      BY DEF IsTree
    <3>2. F[p] = at(p)[p]
      BY <3>1
    <3>. HIDE DEF f, k, F
    <3>3. /\ at(p) \in [T -> V] /\ UpTo(at(p), height[p] + 1, T, height, step)
          /\ height[p] \in Nat /\ height[p] + 1 \in Nat
      BY <1>1, <3>1
    <3>4. height[p] < k /\ height[p] < height[p] + 1
      BY <2>2, <3>1, <3>3
    <3>5. f[p] = at(p)[p]
      BY <2>2, <3>1, <3>3, <3>4, UpToUnique
    <3>. QED
      BY <3>2, <3>5
  <2>. HIDE DEF F, f, k
  <2>4. f[e] = step[<<e, f>>]
    BY <2>2 DEF UpTo
  <2>5. step[<<e, f>>] = step[<<e, F>>]
    BY <1>2, <2>2, <2>3 DEF IsStep
  <2>. QED
    BY <2>1, <2>4, <2>5
<1>4. F = [e \in T |-> F[e]]
  OBVIOUS
<1>. HIDE DEF F
<1>5. F = [e \in T |-> step[<<e, F>>]]
  BY <1>3, <1>4
<1>. QED
  BY <1>2, <1>5

-----------------------------------------------------------------------------
(* The settings of a game file                                             *)

\* The items of an expression are expressions, and nested less deep.
LEMMA ItemExpression ==
  ASSUME NEW e \in Expressions
  PROVE  /\ Height[e] \in Nat
         /\ e.items \in Seq(Entry) /\ Len(e.items) \in Nat /\ DOMAIN e.items = 1..Len(e.items)
         /\ \A i \in DOMAIN e.items : /\ e.items[i].value \in Expressions
                                      /\ Height[e.items[i].value] \in Nat
                                      /\ Height[e.items[i].value] < Height[e]
<1>1. /\ Height \in [Expressions -> Nat] /\ e.items \in Seq(Entry)
      /\ \A i \in DOMAIN e.items : Height[e.items[i].value] < Height[e]
  BY ExpressionsAssumption
<1>2. Len(e.items) \in Nat /\ DOMAIN e.items = 1..Len(e.items)
      /\ \A i \in DOMAIN e.items : e.items[i] \in Entry
  BY <1>1, LenProperties, ElementOfSeq
<1>3. \A i \in DOMAIN e.items : e.items[i].value \in Expressions
  BY <1>2 DEF Entry
<1>. QED
  BY <1>1, <1>2, <1>3

SubExpressions == [e \in Expressions |-> {e.items[i].value : i \in DOMAIN e.items}]

LEMMA ItemTree == IsTree(Expressions, Height, SubExpressions)
<1>1. Height \in [Expressions -> Nat] /\ SubExpressions \in [Expressions -> SUBSET Expressions]
  BY ExpressionsAssumption, ItemExpression DEF SubExpressions
<1>2. \A e \in Expressions : \A p \in SubExpressions[e] : Height[p] < Height[e]
  BY ItemExpression DEF SubExpressions
<1>. QED
  BY <1>1, <1>2 DEF IsTree

\* What holds of an expression when it does of its items.
LEMMA HeightInduction ==
  ASSUME NEW S,
         \A e \in Expressions : (\A i \in DOMAIN e.items : e.items[i].value \in S) => e \in S
  PROVE  Expressions \subseteq S
<1>1. \A e \in Expressions : SubExpressions[e] \subseteq S => e \in S
  BY DEF SubExpressions
<1>. QED
  BY <1>1, ItemTree, TreeInduction

\* The expressions nested less than k deep.
Below(k) == {e \in Expressions : Height[e] < k}

-----------------------------------------------------------------------------
(* recursiveExpressionParser                                               *)

\* What it makes of an expression, given what f makes of the items.
ParserStep(f, e) ==
    CASE e.form = "value_map"     -> MapOf(Parsed(e.items, f))
      [] e.form = "list_literal"  ->
            Checked(ListOf([i \in DOMAIN e.items |-> f[e.items[i].value]]))
      [] e.form = "quoted_string" -> Scalar("str", e.text)
      [] e.form = "number"        -> ParseInt(e.text)
      [] OTHER                    -> Scalar("int", "0")

\* It depends on the items only.
LEMMA ParserStepDepends ==
  ASSUME NEW e \in Expressions, NEW f, NEW g,
         \A i \in DOMAIN e.items : f[e.items[i].value] = g[e.items[i].value]
  PROVE  ParserStep(f, e) = ParserStep(g, e)
<1>1. Parsed(e.items, f) = Parsed(e.items, g)
  BY DEF Parsed
<1>2. [i \in DOMAIN e.items |-> f[e.items[i].value]] = [i \in DOMAIN e.items |-> g[e.items[i].value]]
  OBVIOUS
<1>. QED
  BY <1>1, <1>2 DEF ParserStep

\* A function that does it for the expressions nested less than k deep.
IsParser(f, k) == f = [e \in Below(k) |-> ParserStep(f, e)]

\* There is one for every k.
LEMMA ParserExists ==
  ASSUME NEW n \in Nat
  PROVE  \E f : IsParser(f, n)
<1>. DEFINE Good == {k \in 0..n : \E f : IsParser(f, k)}
<1>1. 0 \in Good
  <2>1. Below(0) = {}
    BY ExpressionsAssumption DEF Below
  <2>. DEFINE f == [e \in Below(0) |-> ParserStep(<<>>, e)]
  <2>2. f = [e \in Below(0) |-> ParserStep(f, e)]
    BY <2>1
  <2>. HIDE DEF f
  <2>. QED
    BY <2>2 DEF IsParser
<1>2. ASSUME NEW k \in 1..n, k - 1 \in Good PROVE k \in Good
  <2>1. PICK f : IsParser(f, k - 1)
    BY <1>2
  <2>. DEFINE g == [e \in Below(k) |-> ParserStep(f, e)]
  <2>2. \A e \in Below(k - 1) : f[e] = ParserStep(f, e)
    BY <2>1 DEF IsParser
  <2>3. \A e \in Below(k - 1) : e \in Below(k) /\ g[e] = f[e]
    <3>1. \A e \in Below(k - 1) : e \in Below(k)
      BY ExpressionsAssumption DEF Below
    <3>. QED
      BY <2>2, <3>1
  <2>4. ASSUME NEW e \in Below(k) PROVE g[e] = ParserStep(g, e)
    <3>1. e \in Expressions /\ Height[e] < k
      BY DEF Below
    <3>2. \A i \in DOMAIN e.items : e.items[i].value \in Below(k - 1)
      BY <3>1, ItemExpression DEF Below
    <3>3. \A i \in DOMAIN e.items : f[e.items[i].value] = g[e.items[i].value]
      BY <2>3, <3>2
    <3>. HIDE DEF g
    <3>4. ParserStep(f, e) = ParserStep(g, e)
      BY <3>1, <3>3, ParserStepDepends
    <3>. QED
      BY <3>4 DEF g
  <2>5. g = [e \in Below(k) |-> g[e]]
    OBVIOUS
  <2>. HIDE DEF g
  <2>6. IsParser(g, k)
    BY <2>4, <2>5 DEF IsParser
  <2>. QED
    BY <2>6
<1>. HIDE DEF Good
<1>3. 0..n \subseteq Good
  BY <1>1, <1>2, Induction
<1>. QED
  BY <1>3 DEF Good

\* Two of them agree.
LEMMA ParserUnique ==
  ASSUME NEW k \in Nat, NEW m \in Nat, NEW f, NEW g, IsParser(f, k), IsParser(g, m)
  PROVE  \A e \in Below(k) \cap Below(m) : f[e] = g[e]
<1>. DEFINE S == {e \in Expressions : e \in Below(k) \cap Below(m) => f[e] = g[e]}
<1>1. ASSUME NEW e \in Expressions, \A i \in DOMAIN e.items : e.items[i].value \in S PROVE e \in S
  <2>. SUFFICES ASSUME e \in Below(k) \cap Below(m) PROVE f[e] = g[e]
    OBVIOUS
  <2>1. \A i \in DOMAIN e.items : e.items[i].value \in Below(k) \cap Below(m)
    BY ItemExpression DEF Below
  <2>2. \A i \in DOMAIN e.items : f[e.items[i].value] = g[e.items[i].value]
    BY <1>1, <2>1
  <2>3. f[e] = ParserStep(f, e) /\ g[e] = ParserStep(g, e)
    BY DEF IsParser
  <2>. QED
    BY <2>2, <2>3, ParserStepDepends
<1>. HIDE DEF S
<1>2. Expressions \subseteq S
  BY <1>1, HeightInduction
<1>. QED
  BY <1>2 DEF S, Below

\* And so it does what it says for every expression.
LEMMA RecursiveExpressionParserDoes ==
  RecursiveExpressionParser = [e \in Expressions |-> ParserStep(RecursiveExpressionParser, e)]
<1>. DEFINE at(e) == CHOOSE f : IsParser(f, Height[e] + 1)
            F == [e \in Expressions |-> at(e)[e]]
<1>1. ASSUME NEW e \in Expressions
      PROVE  IsParser(at(e), Height[e] + 1) /\ e \in Below(Height[e] + 1) /\ Height[e] + 1 \in Nat
  <2>1. Height[e] \in Nat /\ Height[e] + 1 \in Nat
    BY ItemExpression
  <2>2. \E f : IsParser(f, Height[e] + 1)
    BY <2>1, ParserExists
  <2>. QED
    BY <2>1, <2>2 DEF Below
<1>. HIDE DEF at
<1>2. ASSUME NEW e \in Expressions PROVE F[e] = ParserStep(F, e)
  <2>. DEFINE f == at(e)
              k == Height[e] + 1
  <2>1. F[e] = f[e]
    OBVIOUS
  <2>2. IsParser(f, k) /\ e \in Below(k) /\ k \in Nat
    BY <1>1
  <2>3. ASSUME NEW i \in DOMAIN e.items PROVE f[e.items[i].value] = F[e.items[i].value]
    <3>. DEFINE c == e.items[i].value
    <3>1. c \in Expressions /\ c \in Below(k)
      BY ItemExpression DEF Below
    <3>. HIDE DEF c, f, k
    <3>2. IsParser(at(c), Height[c] + 1) /\ c \in Below(Height[c] + 1) /\ Height[c] + 1 \in Nat
      BY <1>1, <3>1
    <3>3. f[c] = at(c)[c]
      BY <2>2, <3>1, <3>2, ParserUnique
    <3>. QED
      BY <3>1, <3>3 DEF c
  <2>. HIDE DEF F, f, k
  <2>4. ParserStep(f, e) = ParserStep(F, e)
    BY <2>3, ParserStepDepends
  <2>5. f[e] = ParserStep(f, e)
    BY <2>2 DEF IsParser
  <2>. QED
    BY <2>1, <2>4, <2>5
<1>3. F = [e \in Expressions |-> F[e]]
  OBVIOUS
<1>. HIDE DEF F
<1>4. \E f : f = [e \in Expressions |-> ParserStep(f, e)]
  <2>1. F = [e \in Expressions |-> ParserStep(F, e)]
    BY <1>2, <1>3
  <2>. QED
    BY <2>1
<1>5. RecursiveExpressionParser = CHOOSE f : f = [e \in Expressions |-> ParserStep(f, e)]
  BY DEF RecursiveExpressionParser, ParserStep
<1>. QED
  BY <1>4, <1>5

-----------------------------------------------------------------------------
(* Which expressions have no number that does not fit                      *)

\* What it makes of an expression, given what f makes of the items.
ReadableStep(f, e) ==
    /\ e.form = "number" => e.text \in IntTexts
    /\ \A i \in DOMAIN e.items : f[e.items[i].value]

\* It depends on the items only.
LEMMA ReadableStepDepends ==
  ASSUME NEW e \in Expressions, NEW f, NEW g,
         \A i \in DOMAIN e.items : f[e.items[i].value] = g[e.items[i].value]
  PROVE  ReadableStep(f, e) = ReadableStep(g, e)
<1>. QED
  BY DEF ReadableStep

\* And so it does what it says for every expression.
LEMMA ReadableDoes ==
  Readable = [e \in Expressions |-> ReadableStep(Readable, e)]
<1>. DEFINE V == BOOLEAN
            step == [x \in Expressions \X [Expressions -> V] |-> ReadableStep(x[2], x[1])]
<1>1. \A e \in Expressions, f \in [Expressions -> V] : step[<<e, f>>] = ReadableStep(f, e)
  OBVIOUS
<1>2. IsStep(Expressions, SubExpressions, V, step)
  <2>1. step \in [Expressions \X [Expressions -> V] -> V]
    BY DEF ReadableStep
  <2>2. ASSUME NEW e \in Expressions, NEW f \in [Expressions -> V],
               NEW g \in [Expressions -> V], \A p \in SubExpressions[e] : f[p] = g[p]
        PROVE  step[<<e, f>>] = step[<<e, g>>]
    <3>1. \A i \in DOMAIN e.items : f[e.items[i].value] = g[e.items[i].value]
      BY <2>2 DEF SubExpressions
    <3>2. ReadableStep(f, e) = ReadableStep(g, e)
      BY <3>1, ReadableStepDepends
    <3>. QED
      BY <1>1, <3>2
  <2>. HIDE DEF step, V
  <2>. QED
    BY <2>1, <2>2 DEF IsStep
<1>a. PICK v : v \in V
  OBVIOUS
<1>. HIDE DEF step, V
<1>3. PICK f \in [Expressions -> V] : f = [e \in Expressions |-> step[<<e, f>>]]
  BY <1>a, <1>2, ItemTree, Recursion
<1>4. f = [e \in Expressions |-> ReadableStep(f, e)]
  BY <1>1, <1>3
<1>5. Readable = CHOOSE g : g = [e \in Expressions |-> ReadableStep(g, e)]
  BY DEF Readable, ReadableStep
<1>. QED
  BY <1>4, <1>5

-----------------------------------------------------------------------------
(* The map that entries set                                                *)

\* The keys and the values of entries, and the items a map of them can have.
KeysOf(entries) == {entries[i].key : i \in DOMAIN entries}
ValuesOf(entries) == {entries[i].value : i \in DOMAIN entries}
ItemsOf(entries) == [key : KeysOf(entries), value : ValuesOf(entries)]

\* A map with each key once.
OnceEach(map) == \A i, j \in DOMAIN map : map[i].key = map[j].key => i = j

\* A map has the key with the value.
Has(map, key, value) == \E i \in DOMAIN map : map[i].key = key /\ map[i].value = value

\* What the map is after the first n entries.
SetBy(map, entries, n) ==
    /\ map \in Seq(ItemsOf(entries))
    /\ {map[i].key : i \in DOMAIN map} = {entries[i].key : i \in 1..n}
    /\ OnceEach(map)
    /\ \A i \in 1..n : (\A j \in 1..n : j > i => entries[j].key # entries[i].key)
                          => Has(map, entries[i].key, entries[i].value)

\* new is what a map becomes when value is set for key.
IsSet(new, map, key, value, K, V) ==
    /\ new \in Seq([key : K, value : V])
    /\ {new[i].key : i \in DOMAIN new} = {map[i].key : i \in DOMAIN map} \cup {key}
    /\ OnceEach(new)
    /\ Has(new, key, value)
    /\ \A k, v : k # key /\ Has(map, k, v) => Has(new, k, v)

\* setValue: the key is there once, with its new value; the others stay.
LEMMA SetValueSets ==
  ASSUME NEW K, NEW V, NEW map \in Seq([key : K, value : V]), NEW key \in K, NEW value \in V,
         OnceEach(map)
  PROVE  IsSet(SetValue(map, key, value), map, key, value, K, V)
<1>. DEFINE Item == [key : K, value : V]
            new == SetValue(map, key, value)
<1>1. Len(map) \in Nat /\ DOMAIN map = 1..Len(map) /\ \A i \in DOMAIN map : map[i] \in Item
  BY LenProperties, ElementOfSeq
<1>2. CASE \E i \in DOMAIN map : map[i].key = key
  <2>. DEFINE set(i) == IF map[i].key = key THEN [map[i] EXCEPT !.value = value] ELSE map[i]
  <2>1. new = [i \in DOMAIN map |-> set(i)]
    BY <1>2 DEF SetValue
  <2>2. ASSUME NEW i \in DOMAIN map
        PROVE  /\ set(i) \in Item /\ set(i).key = map[i].key
               /\ set(i).value = IF map[i].key = key THEN value ELSE map[i].value
    BY <1>1
  <2>. HIDE DEF set, new, Item
  <2>3. DOMAIN new = 1..Len(map) /\ \A i \in DOMAIN new : new[i] = set(i)
    BY <1>1, <2>1
  <2>4. new = [i \in 1..Len(map) |-> new[i]] /\ \A i \in 1..Len(map) : new[i] \in Item
    BY <1>1, <2>1, <2>2
  <2>5. new \in Seq(Item)
    BY <1>1, <2>4, IsASeq
  <2>6. \A i \in DOMAIN map : /\ new[i].key = map[i].key
                              /\ new[i].value = IF map[i].key = key THEN value ELSE map[i].value
    BY <1>1, <2>2, <2>3
  <2>7. DOMAIN new = DOMAIN map
    BY <1>1, <2>3
  <2>8. {new[i].key : i \in DOMAIN new} = {map[i].key : i \in DOMAIN map} \cup {key}
    BY <1>2, <2>6, <2>7
  <2>9. OnceEach(new)
    BY <2>6, <2>7 DEF OnceEach
  <2>10. Has(new, key, value) /\ \A k, v : k # key /\ Has(map, k, v) => Has(new, k, v)
    BY <1>2, <2>6, <2>7 DEF Has
  <2>. QED
    BY <2>5, <2>8, <2>9, <2>10 DEF IsSet, new, Item
<1>3. CASE \A i \in DOMAIN map : map[i].key # key
  <2>. DEFINE item == [key |-> key, value |-> value]
              n == Len(map)
  <2>1. new = Append(map, item)
    BY <1>3 DEF SetValue
  <2>2. item \in Item /\ item.key = key /\ item.value = value
    OBVIOUS
  <2>. HIDE DEF item, new, Item
  <2>3. /\ Append(map, item) \in Seq(Item)
        /\ Len(Append(map, item)) = n + 1
        /\ \A i \in 1..n : Append(map, item)[i] = map[i]
        /\ Append(map, item)[n + 1] = item
    BY <1>1, <2>2, AppendProperties DEF Item
  <2>4. DOMAIN new = 1..(n + 1) /\ DOMAIN map = 1..n /\ n \in Nat
    BY <1>1, <2>1, <2>3, LenProperties
  <2>5. /\ \A i \in 1..n : new[i] = map[i]
        /\ new[n + 1] = item
    BY <2>1, <2>3
  <2>. HIDE DEF n
  <2>6. {new[i].key : i \in DOMAIN new} = {map[i].key : i \in DOMAIN map} \cup {key}
    <3>1. ASSUME NEW i \in 1..(n + 1) PROVE i \in 1..n \/ i = n + 1
      BY <2>4
    <3>2. 1..n \subseteq 1..(n + 1) /\ n + 1 \in 1..(n + 1)
      BY <2>4
    <3>. QED
      BY <2>2, <2>4, <2>5, <3>1, <3>2
  <2>7. OnceEach(new)
    <3>1. ASSUME NEW i \in 1..(n + 1), NEW j \in 1..(n + 1), new[i].key = new[j].key PROVE i = j
      <4>1. CASE i \in 1..n /\ j \in 1..n
        BY <3>1, <2>4, <2>5, <4>1 DEF OnceEach
      <4>2. CASE i = n + 1 /\ j \in 1..n
        BY <3>1, <2>2, <2>4, <2>5, <4>2, <1>3
      <4>3. CASE i \in 1..n /\ j = n + 1
        BY <3>1, <2>2, <2>4, <2>5, <4>3, <1>3
      <4>4. (i \in 1..n \/ i = n + 1) /\ (j \in 1..n \/ j = n + 1)
        BY <2>4
      <4>. QED
        BY <4>1, <4>2, <4>3, <4>4
    <3>. QED
      BY <3>1, <2>4 DEF OnceEach
  <2>8. Has(new, key, value)
    <3>1. n + 1 \in DOMAIN new
      BY <2>4
    <3>. QED
      BY <3>1, <2>2, <2>5 DEF Has
  <2>9. \A k, v : Has(map, k, v) => Has(new, k, v)
    <3>1. 1..n \subseteq 1..(n + 1)
      BY <2>4
    <3>. QED
      BY <3>1, <2>4, <2>5 DEF Has
  <2>. QED
    BY <2>1, <2>3, <2>6, <2>7, <2>8, <2>9 DEF IsSet, new, Item
<1>. QED
  BY <1>2, <1>3

\* One entry more.
LEMMA SetByNext ==
  ASSUME NEW entries, Len(entries) \in Nat, DOMAIN entries = 1..Len(entries),
         NEW n \in 1..Len(entries), NEW map, SetBy(map, entries, n - 1)
  PROVE  SetBy(SetValue(map, entries[n].key, entries[n].value), entries, n)
<1>. DEFINE key == entries[n].key
            value == entries[n].value
            new == SetValue(map, key, value)
            K == KeysOf(entries)
            V == ValuesOf(entries)
<1>1. key \in K /\ value \in V
  BY DEF KeysOf, ValuesOf
<1>2. map \in Seq([key : K, value : V]) /\ OnceEach(map)
  BY DEF SetBy, ItemsOf
<1>. HIDE DEF K, V
<1>3. /\ new \in Seq([key : K, value : V])
      /\ {new[i].key : i \in DOMAIN new} = {map[i].key : i \in DOMAIN map} \cup {key}
      /\ OnceEach(new)
      /\ Has(new, key, value)
      /\ \A k, v : k # key /\ Has(map, k, v) => Has(new, k, v)
  <2>1. IsSet(new, map, key, value, K, V)
    BY <1>1, <1>2, SetValueSets
  <2>. HIDE DEF new
  <2>. QED
    BY <2>1 DEF IsSet
<1>4. {map[i].key : i \in DOMAIN map} = {entries[i].key : i \in 1..(n - 1)}
  BY DEF SetBy
<1>. HIDE DEF new
<1>5. {new[i].key : i \in DOMAIN new} = {entries[i].key : i \in 1..n}
  <2>1. n \in 1..n /\ 1..(n - 1) \subseteq 1..n
    OBVIOUS
  <2>2. \A i \in 1..n : i = n \/ i \in 1..(n - 1)
    OBVIOUS
  <2>. QED
    BY <1>3, <1>4, <2>1, <2>2
<1>6. ASSUME NEW i \in 1..n, \A j \in 1..n : j > i => entries[j].key # entries[i].key
      PROVE  Has(new, entries[i].key, entries[i].value)
  <2>1. CASE i = n
    BY <1>3, <2>1
  <2>2. CASE i \in 1..(n - 1)
    <3>1. entries[n].key # entries[i].key
      BY <1>6, <2>2
    <3>2. \A j \in 1..(n - 1) : j \in 1..n
      OBVIOUS
    <3>3. \A j \in 1..(n - 1) : j > i => entries[j].key # entries[i].key
      BY <1>6, <3>2
    <3>4. Has(map, entries[i].key, entries[i].value)
      BY <2>2, <3>3 DEF SetBy
    <3>. QED
      BY <1>3, <3>1, <3>4
  <2>. QED
    BY <2>1, <2>2
<1>. QED
  BY <1>3, <1>5, <1>6 DEF SetBy, ItemsOf, new, K, V

\* The maps after each of the first k entries.
IsMaking(f, k, entries) ==
    f = [n \in 0..k |-> IF n = 0 THEN <<>>
                        ELSE SetValue(f[n - 1], entries[n].key, entries[n].value)]

\* There are such maps for any number of entries.
LEMMA MakingExists ==
  ASSUME NEW n \in Nat, NEW entries
  PROVE  \E f : IsMaking(f, n, entries)
<1>. DEFINE Good == {k \in 0..n : \E f : IsMaking(f, k, entries)}
<1>1. 0 \in Good
  <2>1. IsMaking([i \in 0..0 |-> <<>>], 0, entries)
    BY DEF IsMaking
  <2>. QED
    BY <2>1
<1>2. ASSUME NEW k \in 1..n, k - 1 \in Good PROVE k \in Good
  <2>1. PICK f : IsMaking(f, k - 1, entries)
    BY <1>2
  <2>. DEFINE last == SetValue(f[k - 1], entries[k].key, entries[k].value)
              g == [i \in 0..k |-> IF i < k THEN f[i] ELSE last]
  <2>2. IsMaking(g, k, entries)
    <3>. SUFFICES ASSUME NEW i \in 0..k
                  PROVE  g[i] = IF i = 0 THEN <<>>
                                ELSE SetValue(g[i - 1], entries[i].key, entries[i].value)
      BY DEF IsMaking
    <3>1. CASE i = 0
      BY <2>1, <3>1 DEF IsMaking
    <3>2. CASE i # 0 /\ i < k
      <4>1. i \in 0..(k-1) /\ i - 1 \in 0..k /\ i - 1 < k
        BY <3>2
      <4>2. f[i] = SetValue(f[i - 1], entries[i].key, entries[i].value)
        BY <2>1, <4>1, <3>2 DEF IsMaking
      <4>. QED
        BY <4>1, <4>2, <3>2
    <3>3. CASE i = k
      <4>1. k - 1 \in 0..k /\ k - 1 < k /\ k # 0
        OBVIOUS
      <4>. QED
        BY <3>3, <4>1
    <3>. QED
      BY <3>1, <3>2, <3>3
  <2>. QED
    BY <2>2
<1>. HIDE DEF Good
<1>3. 0..n \subseteq Good
  BY <1>1, <1>2, Induction
<1>. QED
  BY <1>3 DEF Good

\* What a map made of entries is.
LEMMA MapOfMakes ==
  ASSUME NEW entries, Len(entries) \in Nat, DOMAIN entries = 1..Len(entries)
  PROVE  IF \E i \in DOMAIN entries : Throws(entries[i].value) THEN MapOf(entries) = Thrown
         ELSE /\ MapOf(entries).type = "map"
              /\ SetBy(MapOf(entries).items, entries, Len(entries))
<1>. DEFINE n == Len(entries)
            map == CHOOSE f : f = [i \in 0..n |-> IF i = 0 THEN <<>>
                                    ELSE SetValue(f[i - 1], entries[i].key, entries[i].value)]
<1>1. MapOf(entries) = IF \E i \in DOMAIN entries : Throws(entries[i].value) THEN Thrown
                       ELSE [type |-> "map", text |-> "", items |-> map[n]]
  BY DEF MapOf
<1>2. map = [i \in 0..n |-> IF i = 0 THEN <<>>
                            ELSE SetValue(map[i - 1], entries[i].key, entries[i].value)]
  <2>1. \E f : IsMaking(f, n, entries)
    BY MakingExists
  <2>2. \E f : f = [i \in 0..n |-> IF i = 0 THEN <<>>
                                   ELSE SetValue(f[i - 1], entries[i].key, entries[i].value)]
    BY <2>1 DEF IsMaking
  <2>. QED
    BY <2>2
<1>. HIDE DEF map
<1>. DEFINE Good == {i \in 0..n : SetBy(map[i], entries, i)}
<1>3. 0 \in Good
  <2>1. map[0] = <<>>
    BY <1>2
  <2>2. <<>> \in Seq(ItemsOf(entries)) /\ DOMAIN <<>> = {} /\ 1..0 = {}
    BY EmptySeq
  <2>3. SetBy(<<>>, entries, 0)
    BY <2>2 DEF SetBy, OnceEach
  <2>. QED
    BY <2>1, <2>3
<1>4. ASSUME NEW i \in 1..n, i - 1 \in Good PROVE i \in Good
  <2>1. i \in 0..n /\ i # 0
    OBVIOUS
  <2>2. map[i] = SetValue(map[i - 1], entries[i].key, entries[i].value)
    BY <1>2, <2>1
  <2>3. SetBy(map[i - 1], entries, i - 1)
    BY <1>4
  <2>4. SetBy(map[i], entries, i)
    BY <2>2, <2>3, SetByNext
  <2>. QED
    BY <2>1, <2>4
<1>. HIDE DEF Good
<1>5. 0..n \subseteq Good
  BY <1>3, <1>4, Induction
<1>6. SetBy(map[n], entries, n)
  BY <1>5 DEF Good
<1>. DEFINE items == map[n]
<1>7. SetBy(items, entries, n)
  BY <1>6
<1>8. MapOf(entries) = IF \E i \in DOMAIN entries : Throws(entries[i].value) THEN Thrown
                       ELSE [type |-> "map", text |-> "", items |-> items]
  BY <1>1
<1>. HIDE DEF items
<1>9. CASE \E i \in DOMAIN entries : Throws(entries[i].value)
  BY <1>8, <1>9
<1>10. CASE ~ \E i \in DOMAIN entries : Throws(entries[i].value)
  <2>1. MapOf(entries) = [type |-> "map", text |-> "", items |-> items]
    BY <1>8, <1>10
  <2>. DEFINE made == [type |-> "map", text |-> "", items |-> items]
  <2>2. made.type = "map" /\ made.items = items
    OBVIOUS
  <2>3. MapOf(entries) = made
    BY <2>1
  <2>. HIDE DEF made
  <2>4. MapOf(entries).type = "map" /\ MapOf(entries).items = items
    BY <2>2, <2>3
  <2>. QED
    BY <1>7, <1>10, <2>4
<1>. QED
  BY <1>9, <1>10

\* A value that was thrown says so.
LEMMA ThrownThrows == Throws(Thrown)
  BY DEF Throws, Thrown, Scalar

\* A map is thrown when a value of its entries is, and otherwise has what
\* its entries set last.
LEMMA MapOfHoldsLast ==
  ASSUME NEW entries, Len(entries) \in Nat, DOMAIN entries = 1..Len(entries)
  PROVE  /\ MapOf(entries) = Thrown <=> \E i \in DOMAIN entries : Throws(entries[i].value)
         /\ MapOf(entries) # Thrown => ~Throws(MapOf(entries)) /\ HoldsLast(MapOf(entries), entries)
<1>. DEFINE map == MapOf(entries)
            n == Len(entries)
<1>1. CASE \E i \in DOMAIN entries : Throws(entries[i].value)
  BY <1>1, MapOfMakes
<1>2. CASE \A i \in DOMAIN entries : ~Throws(entries[i].value)
  <2>1. map.type = "map" /\ SetBy(map.items, entries, n)
    BY <1>2, MapOfMakes
  <2>. HIDE DEF map
  <2>2. map # Thrown
    <3>1. Thrown.type = "exception" /\ map.type = "map"
      BY <2>1 DEF Thrown, Scalar
    <3>. QED
      BY <3>1
  <2>3. /\ map.items \in Seq(ItemsOf(entries))
        /\ {map.items[i].key : i \in DOMAIN map.items} = {entries[i].key : i \in 1..n}
        /\ OnceEach(map.items)
        /\ \A i \in 1..n : (\A j \in 1..n : j > i => entries[j].key # entries[i].key)
                              => Has(map.items, entries[i].key, entries[i].value)
    BY <2>1 DEF SetBy
  <2>4. ~Throws(map)
    <3>1. ASSUME NEW i \in DOMAIN map.items PROVE map.items[i].value # Thrown
      <4>1. map.items[i] \in ItemsOf(entries)
        BY <2>3, ElementOfSeq, LenProperties
      <4>2. map.items[i].value \in ValuesOf(entries)
        BY <4>1 DEF ItemsOf
      <4>. QED
        BY <1>2, <4>2, ThrownThrows DEF ValuesOf
    <3>. QED
      BY <2>1, <3>1 DEF Throws
  <2>5. ASSUME NEW i \in DOMAIN entries, \A j \in DOMAIN entries : j > i => entries[j].key # entries[i].key
        PROVE  At(map, entries[i].key) = entries[i].value
    <3>. DEFINE key == entries[i].key
    <3>1. PICK m \in DOMAIN map.items : map.items[m].key = key /\ map.items[m].value = entries[i].value
      BY <2>3, <2>5 DEF Has
    <3>2. \A k \in DOMAIN map.items : map.items[k].key = key => k = m
      BY <2>3, <3>1 DEF OnceEach
    <3>3. (CHOOSE k \in DOMAIN map.items : map.items[k].key = key) = m
      BY <3>1, <3>2
    <3>. QED
      BY <3>1, <3>3 DEF At
  <2>6. HoldsLast(map, entries)
    BY <2>3, <2>5 DEF HoldsLast, OnceEach
  <2>. QED
    BY <1>2, <2>2, <2>4, <2>6 DEF map
<1>. QED
  BY <1>1, <1>2

-----------------------------------------------------------------------------
(* What cannot be read is thrown                                           *)

\* A value that is thrown exactly when it could not be read.
Reads(value, readable) == IF readable THEN ~Throws(value) ELSE value = Thrown

IsSeq(ts) == ts \in Seq(Range(ts))

AnyThrows(entries) == \E i \in DOMAIN entries : Throws(entries[i].value)

LEMMA ReadsThrows ==
  ASSUME NEW value, NEW readable \in BOOLEAN, Reads(value, readable)
  PROVE  /\ Throws(value) <=> ~readable
         /\ value = Thrown <=> ~readable
  BY ThrownThrows DEF Reads

\* A function on an initial segment of the numbers is a sequence.
LEMMA MadeSeq ==
  ASSUME NEW n \in Nat, NEW f, DOMAIN f = 1..n, f = [i \in DOMAIN f |-> f[i]]
  PROVE  IsSeq(f) /\ Len(f) = n
<1>1. f \in [1..n -> Range(f)]
  BY DEF Range
<1>2. f \in Seq(Range(f))
  BY <1>1, SeqDef
<1>. QED
  BY <1>2, LenProperties DEF IsSeq

\* The domain of a sequence.
LEMMA SeqDomain ==
  ASSUME NEW ts, IsSeq(ts)
  PROVE  Len(ts) \in Nat /\ DOMAIN ts = 1..Len(ts)
  BY LenProperties DEF IsSeq

\* The scalars, of which an exception is one.
LEMMA ScalarThrows ==
  ASSUME NEW type, NEW text
  PROVE  Throws(Scalar(type, text)) <=> type = "exception"
<1>1. Scalar(type, text).type = type /\ DOMAIN Scalar(type, text).items = {}
  BY DEF Scalar
<1>. HIDE DEF Scalar
<1>. QED
  BY <1>1 DEF Throws

LEMMA ParseIntReads ==
  ASSUME NEW text
  PROVE  Reads(ParseInt(text), text \in IntTexts)
  BY ScalarThrows DEF ParseInt, Reads

LEMMA ParseBoolReads ==
  ASSUME NEW text
  PROVE  Reads(ParseBool(text), text \in {"true", "false"})
  BY ScalarThrows DEF ParseBool, Reads

\* A list of which an element is thrown is.
LEMMA CheckedReads ==
  ASSUME NEW elements
  PROVE  Reads(Checked(ListOf(elements)), \A i \in DOMAIN elements : elements[i] # Thrown)
<1>. DEFINE list == ListOf(elements)
            items == [i \in DOMAIN elements |-> [key |-> "", value |-> elements[i]]]
<1>1. list.type = "list" /\ list.items = items
  BY DEF ListOf
<1>2. DOMAIN items = DOMAIN elements /\ \A i \in DOMAIN elements : items[i].value = elements[i]
  OBVIOUS
<1>. HIDE DEF list, items
<1>3. Throws(list) <=> \E i \in DOMAIN elements : elements[i] = Thrown
  BY <1>1, <1>2 DEF Throws
<1>4. Reads(Checked(list), ~Throws(list))
  BY DEF Reads, Checked
<1>. QED
  BY <1>3, <1>4 DEF list, Reads

\* A map of which a value throws does.
LEMMA MapOfReads ==
  ASSUME NEW entries, IsSeq(entries)
  PROVE  Reads(MapOf(entries), ~AnyThrows(entries))
<1>1. Len(entries) \in Nat /\ DOMAIN entries = 1..Len(entries)
  BY SeqDomain
<1>. QED
  BY <1>1, MapOfHoldsLast DEF Reads, AnyThrows

\* Entries keep their keys, and have what the parser makes of their values.
LEMMA ParsedEntries ==
  ASSUME NEW entries, IsSeq(entries), NEW parser
  PROVE  /\ IsSeq(Parsed(entries, parser))
         /\ AnyThrows(Parsed(entries, parser)) <=> \E i \in DOMAIN entries : Throws(parser[entries[i].value])
<1>. DEFINE p == Parsed(entries, parser)
<1>1. p = [i \in DOMAIN entries |-> [key |-> entries[i].key, value |-> parser[entries[i].value]]]
  BY DEF Parsed
<1>. HIDE DEF p
<1>2. DOMAIN p = DOMAIN entries /\ p = [i \in DOMAIN p |-> p[i]]
      /\ \A i \in DOMAIN entries : p[i].value = parser[entries[i].value]
  BY <1>1
<1>3. IsSeq(p)
  BY <1>2, SeqDomain, MadeSeq
<1>4. AnyThrows(p) <=> \E i \in DOMAIN entries : Throws(parser[entries[i].value])
  BY <1>2 DEF AnyThrows
<1>. QED
  BY <1>3, <1>4 DEF p

\* recursiveExpressionParser throws exactly what has a number that does not fit.
LEMMA ExpressionReads ==
  ASSUME NEW e \in Expressions
  PROVE  Reads(RecursiveExpressionParser[e], Readable[e]) /\ Readable[e] \in BOOLEAN
<1>. DEFINE R == RecursiveExpressionParser
            S == {x \in Expressions : Reads(R[x], Readable[x]) /\ Readable[x] \in BOOLEAN}
<1>1. ASSUME NEW x \in Expressions, \A i \in DOMAIN x.items : x.items[i].value \in S PROVE x \in S
  <2>1. R[x] = ParserStep(R, x)
    BY RecursiveExpressionParserDoes
  <2>2. Readable[x] = ReadableStep(Readable, x)
    BY ReadableDoes
  <2>. HIDE DEF R
  <2>3. Readable[x] \in BOOLEAN
    BY <2>2 DEF ReadableStep
  <2>. DEFINE items == \A i \in DOMAIN x.items : Readable[x.items[i].value]
  <2>4. Readable[x] <=> (x.form = "number" => x.text \in IntTexts) /\ items
    BY <2>2 DEF ReadableStep
  <2>5. \A i \in DOMAIN x.items : /\ Throws(R[x.items[i].value]) <=> ~Readable[x.items[i].value]
                                  /\ R[x.items[i].value] = Thrown <=> ~Readable[x.items[i].value]
    BY <1>1, ReadsThrows DEF S
  <2>6. x.items \in Seq(Entry) /\ (x.items # <<>> => x.form \in {"value_map", "list_literal"})
    BY ExpressionsAssumption
  <2>7. CASE x.form = "value_map"
    <3>1. R[x] = MapOf(Parsed(x.items, R))
      BY <2>1, <2>7 DEF ParserStep
    <3>2. IsSeq(x.items)
      BY <2>6, SeqOfRange DEF IsSeq
    <3>3. IsSeq(Parsed(x.items, R)) /\ (AnyThrows(Parsed(x.items, R)) <=> ~items)
      BY <2>5, <3>2, ParsedEntries
    <3>4. Reads(R[x], items)
      BY <3>1, <3>3, MapOfReads DEF Reads
    <3>. QED
      BY <2>3, <2>4, <2>7, <3>4 DEF S, Reads
  <2>8. CASE x.form = "list_literal"
    <3>. DEFINE elements == [i \in DOMAIN x.items |-> R[x.items[i].value]]
    <3>1. R[x] = Checked(ListOf(elements))
      BY <2>1, <2>8 DEF ParserStep
    <3>2. (\A i \in DOMAIN elements : elements[i] # Thrown) <=> items
      BY <2>5
    <3>. HIDE DEF elements, items
    <3>3. Reads(R[x], items)
      BY <3>1, <3>2, CheckedReads DEF Reads
    <3>. QED
      BY <2>3, <2>4, <2>8, <3>3 DEF S, Reads
  <2>9. CASE x.form \notin {"value_map", "list_literal"}
    <3>1. items
      BY <2>6, <2>9
    <3>2. Readable[x] <=> (x.form = "number" => x.text \in IntTexts)
      BY <2>4, <3>1
    <3>3. R[x] = IF x.form = "quoted_string" THEN Scalar("str", x.text)
                 ELSE IF x.form = "number" THEN ParseInt(x.text) ELSE Scalar("int", "0")
      BY <2>1, <2>9 DEF ParserStep
    <3>4. CASE x.form = "number"
      BY <2>3, <3>2, <3>3, <3>4, ParseIntReads DEF S, Reads
    <3>5. CASE x.form # "number"
      BY <2>3, <3>2, <3>3, <3>5, ScalarThrows DEF S, Reads
    <3>. QED
      BY <3>4, <3>5
  <2>. QED
    BY <2>7, <2>8, <2>9
<1>. HIDE DEF S
<1>2. Expressions \subseteq S
  BY <1>1, HeightInduction
<1>. QED
  BY <1>2 DEF S

-----------------------------------------------------------------------------
(* The sections of a file                                                  *)

\* Two sequences of entries, one after the other.
LEMMA ConcatThrows ==
  ASSUME NEW a, NEW b, IsSeq(a), IsSeq(b)
  PROVE  IsSeq(a \o b) /\ (AnyThrows(a \o b) <=> AnyThrows(a) \/ AnyThrows(b))
<1>. DEFINE c == a \o b
            S == Range(a) \cup Range(b)
            m == Len(a)
            n == Len(b)
<1>1. a \in Seq(S) /\ b \in Seq(S)
  <2>1. Range(a) \subseteq S /\ Range(b) \subseteq S
    OBVIOUS
  <2>. HIDE DEF S
  <2>. QED
    BY <2>1, SeqMonotonic DEF IsSeq
<1>. HIDE DEF S
<1>2. c \in Seq(S) /\ Len(c) = m + n
      /\ \A i \in 1..(m + n) : c[i] = IF i <= m THEN a[i] ELSE b[i - m]
  BY <1>1, ConcatProperties
<1>3. m \in Nat /\ n \in Nat /\ DOMAIN a = 1..m /\ DOMAIN b = 1..n
  BY SeqDomain
<1>4. DOMAIN c = 1..(m + n)
  BY <1>2, LenProperties
<1>5. IsSeq(c)
  BY <1>2, SeqOfRange DEF IsSeq
<1>. HIDE DEF c, m, n
<1>6. ASSUME AnyThrows(c) PROVE AnyThrows(a) \/ AnyThrows(b)
  <2>1. PICK i \in DOMAIN c : Throws(c[i].value)
    BY <1>6 DEF AnyThrows
  <2>2. CASE i <= m
    <3>1. i \in DOMAIN a /\ c[i] = a[i]
      BY <1>2, <1>3, <1>4, <2>2
    <3>. QED
      BY <2>1, <3>1 DEF AnyThrows
  <2>3. CASE ~ (i <= m)
    <3>1. i - m \in DOMAIN b /\ c[i] = b[i - m]
      BY <1>2, <1>3, <1>4, <2>3
    <3>. QED
      BY <2>1, <3>1 DEF AnyThrows
  <2>. QED
    BY <2>2, <2>3
<1>7. ASSUME AnyThrows(a) PROVE AnyThrows(c)
  <2>1. PICK i \in DOMAIN a : Throws(a[i].value)
    BY <1>7 DEF AnyThrows
  <2>2. i \in DOMAIN c /\ c[i] = a[i]
    BY <1>2, <1>3, <1>4
  <2>. QED
    BY <2>1, <2>2 DEF AnyThrows
<1>8. ASSUME AnyThrows(b) PROVE AnyThrows(c)
  <2>1. PICK i \in DOMAIN b : Throws(b[i].value)
    BY <1>8 DEF AnyThrows
  <2>2. i + m \in 1..(m + n) /\ ~ (i + m <= m) /\ (i + m) - m = i
    BY <1>3
  <2>3. i + m \in DOMAIN c /\ c[i + m] = b[i]
    BY <1>2, <1>4, <2>2
  <2>. QED
    BY <2>1, <2>3 DEF AnyThrows
<1>. QED
  BY <1>5, <1>6, <1>7, <1>8 DEF c

\* One entry for each element.
LEMMA EachIsSeq ==
  ASSUME NEW ts, IsSeq(ts), NEW f, DOMAIN f = DOMAIN ts, f = [i \in DOMAIN f |-> f[i]]
  PROVE  IsSeq(f)
  BY SeqDomain, MadeSeq

\* Entries written one by one.
LEMMA FewThrow ==
  /\ IsSeq(<<>>) /\ ~AnyThrows(<<>>)
  /\ \A x : IsSeq(<<x>>) /\ (AnyThrows(<<x>>) <=> Throws(x.value))
  /\ \A x, y : IsSeq(<<x, y>>) /\ (AnyThrows(<<x, y>>) <=> Throws(x.value) \/ Throws(y.value))
  /\ \A x, y, z : /\ IsSeq(<<x, y, z>>)
                  /\ AnyThrows(<<x, y, z>>) <=> Throws(x.value) \/ Throws(y.value) \/ Throws(z.value)
<1>1. IsSeq(<<>>) /\ ~AnyThrows(<<>>)
  BY EmptySeq DEF IsSeq, AnyThrows
<1>2. ASSUME NEW x PROVE IsSeq(<<x>>) /\ (AnyThrows(<<x>>) <=> Throws(x.value))
  <2>. DEFINE s == <<x>>
  <2>1. DOMAIN s = 1..1 /\ s = [i \in DOMAIN s |-> s[i]] /\ s[1] = x
    OBVIOUS
  <2>. HIDE DEF s
  <2>2. IsSeq(s)
    BY <2>1, MadeSeq
  <2>3. AnyThrows(s) <=> Throws(x.value)
    BY <2>1 DEF AnyThrows
  <2>. QED
    BY <2>2, <2>3 DEF s
<1>3. ASSUME NEW x, NEW y
      PROVE  IsSeq(<<x, y>>) /\ (AnyThrows(<<x, y>>) <=> Throws(x.value) \/ Throws(y.value))
  <2>. DEFINE s == <<x, y>>
  <2>1. DOMAIN s = 1..2 /\ s = [i \in DOMAIN s |-> s[i]] /\ s[1] = x /\ s[2] = y
    OBVIOUS
  <2>. HIDE DEF s
  <2>2. IsSeq(s)
    BY <2>1, MadeSeq
  <2>3. \A i : i \in DOMAIN s <=> i = 1 \/ i = 2
    BY <2>1
  <2>4. AnyThrows(s) <=> Throws(x.value) \/ Throws(y.value)
    BY <2>1, <2>3 DEF AnyThrows
  <2>. QED
    BY <2>2, <2>4 DEF s
<1>4. ASSUME NEW x, NEW y, NEW z
      PROVE  /\ IsSeq(<<x, y, z>>)
             /\ AnyThrows(<<x, y, z>>) <=> Throws(x.value) \/ Throws(y.value) \/ Throws(z.value)
  <2>. DEFINE s == <<x, y, z>>
  <2>1. DOMAIN s = 1..3 /\ s = [i \in DOMAIN s |-> s[i]] /\ s[1] = x /\ s[2] = y /\ s[3] = z
    OBVIOUS
  <2>. HIDE DEF s
  <2>2. IsSeq(s)
    BY <2>1, MadeSeq
  <2>3. \A i : i \in DOMAIN s <=> i = 1 \/ i = 2 \/ i = 3
    BY <2>1
  <2>4. AnyThrows(s) <=> Throws(x.value) \/ Throws(y.value) \/ Throws(z.value)
    BY <2>1, <2>3 DEF AnyThrows
  <2>. QED
    BY <2>2, <2>4 DEF s
<1>. QED
  BY <1>1, <1>2, <1>3, <1>4

\* The range of players is two numbers.
LEMMA PlayerRangeReads ==
  ASSUME NEW bounds \in STRING \X STRING
  PROVE  Reads(PlayerRange(bounds), Range(bounds) \subseteq IntTexts)
<1>. DEFINE elements == <<ParseInt(bounds[1]), ParseInt(bounds[2])>>
<1>1. DOMAIN elements = {1, 2} /\ elements[1] = ParseInt(bounds[1]) /\ elements[2] = ParseInt(bounds[2])
  OBVIOUS
<1>2. Range(bounds) = {bounds[1], bounds[2]}
  <2>1. DOMAIN bounds = {1, 2}
    OBVIOUS
  <2>. QED
    BY <2>1 DEF Range
<1>3. \A t : ParseInt(t) = Thrown <=> t \notin IntTexts
  BY ParseIntReads, ThrownThrows DEF Reads
<1>. HIDE DEF elements
<1>4. (\A i \in DOMAIN elements : elements[i] # Thrown) <=> Range(bounds) \subseteq IntTexts
  BY <1>1, <1>2, <1>3
<1>5. PlayerRange(bounds) = Checked(ListOf(elements))
  BY DEF PlayerRange, elements
<1>. QED
  BY <1>4, <1>5, CheckedReads DEF Reads

\* What configurationParser can read of one setting.
ReadableSetup(setup) ==
    setup.kind = "integer" => Range(setup.range) \cup Range(setup.default) \subseteq IntTexts

\* A setting is thrown when one of the numbers it needs does not fit.
LEMMA SetupRuleReads ==
  ASSUME NEW setup \in Setting
  PROVE  Reads(SetupRule(setup), ReadableSetup(setup))
<1>. DEFINE kind == [key |-> "kind", value |-> Scalar("str", setup.kind)]
            prompt == [key |-> "prompt", value |-> Scalar("str", setup.prompt)]
            range == [key |-> "range", value |-> PlayerRange(setup.range)]
            defaults == [i \in DOMAIN setup.default |->
                           [key |-> "default_int", value |-> ParseInt(setup.default[i])]]
            rest == IF setup.kind # "integer" THEN <<>> ELSE <<range>> \o defaults
<1>1. SetupRule(setup) = MapOf(<<kind, prompt>> \o rest)
  BY DEF SetupRule
<1>2. /\ Throws(kind.value) <=> FALSE
      /\ Throws(prompt.value) <=> FALSE
      /\ range.value = PlayerRange(setup.range)
  BY ScalarThrows
<1>3. setup.range \in STRING \X STRING /\ setup.default \in Seq(STRING)
  BY DEF Setting
<1>4. IsSeq(setup.default)
  BY <1>3, SeqOfRange DEF IsSeq
<1>5. DOMAIN defaults = DOMAIN setup.default /\ defaults = [i \in DOMAIN defaults |-> defaults[i]]
      /\ \A i \in DOMAIN setup.default : defaults[i].value = ParseInt(setup.default[i])
  OBVIOUS
<1>. HIDE DEF kind, prompt, range, defaults
<1>6. IsSeq(defaults)
  BY <1>4, <1>5, EachIsSeq
<1>7. AnyThrows(defaults) <=> ~ (Range(setup.default) \subseteq IntTexts)
  <2>1. \A t : Throws(ParseInt(t)) <=> t \notin IntTexts
    BY ParseIntReads, ThrownThrows DEF Reads
  <2>. QED
    BY <1>5, <2>1 DEF AnyThrows, Range
<1>8. Throws(range.value) <=> ~ (Range(setup.range) \subseteq IntTexts)
  BY <1>2, <1>3, PlayerRangeReads, ThrownThrows DEF Reads
<1>9. IsSeq(rest) /\ (AnyThrows(rest) <=> ~ReadableSetup(setup))
  <2>1. CASE setup.kind # "integer"
    BY <2>1, FewThrow DEF ReadableSetup
  <2>2. CASE setup.kind = "integer"
    <3>1. rest = <<range>> \o defaults
      BY <2>2
    <3>2. IsSeq(<<range>>) /\ (AnyThrows(<<range>>) <=> Throws(range.value))
      BY FewThrow
    <3>. DEFINE one == <<range>>
    <3>. HIDE DEF rest, one
    <3>3. IsSeq(one \o defaults) /\ (AnyThrows(one \o defaults) <=> AnyThrows(one) \/ AnyThrows(defaults))
      BY <1>6, <3>2, ConcatThrows DEF one
    <3>4. AnyThrows(one) <=> Throws(range.value)
      BY <3>2 DEF one
    <3>5. IsSeq(rest) /\ (AnyThrows(rest) <=> Throws(range.value) \/ AnyThrows(defaults))
      BY <3>1, <3>3, <3>4 DEF one
    <3>6. ReadableSetup(setup) <=> Range(setup.range) \subseteq IntTexts /\ Range(setup.default) \subseteq IntTexts
      BY <2>2 DEF ReadableSetup
    <3>. QED
      BY <1>7, <1>8, <3>5, <3>6
  <2>. QED
    BY <2>1, <2>2
<1>. HIDE DEF rest
<1>10. IsSeq(<<kind, prompt>>) /\ ~AnyThrows(<<kind, prompt>>)
  BY <1>2, FewThrow
<1>. DEFINE two == <<kind, prompt>>
<1>11. IsSeq(two) /\ ~AnyThrows(two) /\ SetupRule(setup) = MapOf(two \o rest)
  BY <1>1, <1>10
<1>. HIDE DEF two
<1>12. IsSeq(two \o rest) /\ (AnyThrows(two \o rest) <=> ~ReadableSetup(setup))
  BY <1>9, <1>11, ConcatThrows
<1>. DEFINE all == two \o rest
<1>13. IsSeq(all) /\ (AnyThrows(all) <=> ~ReadableSetup(setup)) /\ SetupRule(setup) = MapOf(all)
  BY <1>11, <1>12
<1>. HIDE DEF all
<1>. QED
  BY <1>13, MapOfReads DEF Reads

\* What configurationParser can read of the configuration of a game.
ReadableConfiguration(config) ==
    /\ config.audience \in {"true", "false"}
    /\ Range(config.range) \subseteq IntTexts
    /\ \A i \in DOMAIN config.setup : ReadableSetup(config.setup[i])

\* The configuration throws when one of its parts cannot be read.
LEMMA ConfigurationThrows ==
  ASSUME NEW config, config.range \in STRING \X STRING, config.setup \in Seq(Setting)
  PROVE  /\ IsSeq(ConfigurationEntries(config))
         /\ AnyThrows(ConfigurationEntries(config)) <=> ~ReadableConfiguration(config)
<1>. DEFINE name == [key |-> "name", value |-> Scalar("str", config.name)]
            range == [key |-> "player_range", value |-> PlayerRange(config.range)]
            audience == [key |-> "audience", value |-> ParseBool(config.audience)]
            settings_ == [i \in DOMAIN config.setup |->
                            [key |-> config.setup[i].name, value |-> SetupRule(config.setup[i])]]
            three == <<name, range, audience>>
            all == three \o settings_
<1>1. ConfigurationEntries(config) = all
  BY DEF ConfigurationEntries
<1>2. /\ Throws(name.value) <=> FALSE
      /\ range.value = PlayerRange(config.range)
      /\ audience.value = ParseBool(config.audience)
  BY ScalarThrows
<1>3. IsSeq(config.setup) /\ \A i \in DOMAIN config.setup : config.setup[i] \in Setting
  BY SeqOfRange, ElementOfSeq, LenProperties DEF IsSeq
<1>4. DOMAIN settings_ = DOMAIN config.setup /\ settings_ = [i \in DOMAIN settings_ |-> settings_[i]]
      /\ \A i \in DOMAIN config.setup : settings_[i].value = SetupRule(config.setup[i])
  OBVIOUS
<1>. HIDE DEF name, range, audience, settings_
<1>5. IsSeq(three)
      /\ (AnyThrows(three) <=> Throws(name.value) \/ Throws(range.value) \/ Throws(audience.value))
  BY FewThrow
<1>6. Throws(range.value) <=> ~ (Range(config.range) \subseteq IntTexts)
  BY <1>2, PlayerRangeReads, ThrownThrows DEF Reads
<1>7. Throws(audience.value) <=> config.audience \notin {"true", "false"}
  BY <1>2, ParseBoolReads, ThrownThrows DEF Reads
<1>8. IsSeq(settings_)
  BY <1>3, <1>4, EachIsSeq
<1>9. AnyThrows(settings_) <=> ~ (\A i \in DOMAIN config.setup : ReadableSetup(config.setup[i]))
  <2>1. \A i \in DOMAIN config.setup : Throws(SetupRule(config.setup[i])) <=> ~ReadableSetup(config.setup[i])
    BY <1>3, SetupRuleReads, ThrownThrows DEF Reads
  <2>. QED
    BY <1>4, <2>1 DEF AnyThrows
<1>. HIDE DEF three
<1>10. IsSeq(all) /\ (AnyThrows(all) <=> AnyThrows(three) \/ AnyThrows(settings_))
  BY <1>5, <1>8, ConcatThrows
<1>11. IsSeq(all) /\ (AnyThrows(all) <=> ~ReadableConfiguration(config))
  BY <1>2, <1>5, <1>6, <1>7, <1>9, <1>10 DEF ReadableConfiguration
<1>. QED
  BY <1>1, <1>11

\* The five sections, and how the grammar writes them.
LEMMA SectionNames ==
  /\ DOMAIN Sections = 1..5
  /\ \A j, k \in 1..5 : Sections[j] = Sections[k] => j = k
  /\ \A k \in 1..5 : Sections[k] \in Range(Sections)
  /\ \A s \in Range(Sections) : s = "configuration" \/ s \in Range(Tail(Sections))
<1>1. DOMAIN Sections = 1..5 /\ Sections[1] = "configuration" /\ Sections[2] = "constants"
      /\ Sections[3] = "variables" /\ Sections[4] = "per_player" /\ Sections[5] = "per_audience"
  BY DEF Sections
<1>2. Sections \in Seq(Range(Sections)) /\ Sections # <<>> /\ Len(Sections) = 5
  <2>1. Sections = [i \in DOMAIN Sections |-> Sections[i]]
    BY DEF Sections
  <2>2. IsSeq(Sections) /\ Len(Sections) = 5
    BY <1>1, <2>1, MadeSeq
  <2>. QED
    BY <1>1, <2>2, EmptySeq DEF IsSeq
<1>3. /\ Tail(Sections) \in Seq(Range(Sections)) /\ Len(Tail(Sections)) = 4
      /\ \A i \in 1..Len(Tail(Sections)) : Tail(Sections)[i] = Sections[i + 1]
  BY <1>2, HeadTailProperties
<1>4. DOMAIN Tail(Sections) = 1..4
  BY <1>3, LenProperties
<1>5. \A i \in 1..4 : Tail(Sections)[i] = Sections[i + 1] /\ Tail(Sections)[i] \in Range(Tail(Sections))
  BY <1>3, <1>4 DEF Range
<1>6. \A k \in 2..5 : Sections[k] \in Range(Tail(Sections))
  <2>1. ASSUME NEW k \in 2..5 PROVE Sections[k] \in Range(Tail(Sections))
    <3>1. k - 1 \in 1..4 /\ (k - 1) + 1 = k
      OBVIOUS
    <3>. QED
      BY <1>5, <3>1
  <2>. QED
    BY <2>1
<1>7. \A j, k \in 1..5 : Sections[j] = Sections[k] => j = k
  <2>1. \A i \in 1..5 : i = 1 \/ i = 2 \/ i = 3 \/ i = 4 \/ i = 5
    OBVIOUS
  <2>. QED
    BY <1>1, <2>1
<1>8. \A k \in 1..5 : Sections[k] \in Range(Sections)
  BY <1>1 DEF Range
<1>9. \A s \in Range(Sections) : s = "configuration" \/ s \in Range(Tail(Sections))
  <2>1. ASSUME NEW s \in Range(Sections) PROVE s = "configuration" \/ s \in Range(Tail(Sections))
    <3>1. PICK k \in 1..5 : s = Sections[k]
      BY <1>1 DEF Range
    <3>2. k = 1 \/ k \in 2..5
      BY <3>1
    <3>. QED
      BY <1>1, <1>6, <3>1, <3>2
  <2>. QED
    BY <2>1
<1>. QED
  BY <1>1, <1>7, <1>8, <1>9

\* A section is read unless it has something that cannot be, and then its map
\* holds what is written last.
LEMMA SectionReads ==
  ASSUME file \in Files, NEW section \in Range(Sections)
  PROVE  /\ ParseSection(section) = Thrown <=> ~ReadableSection(section)
         /\ ParseSection(section) # Thrown => HoldsLast(ParseSection(section), SectionEntries(section))
<1>. DEFINE entries == SectionEntries(section)
<1>1. IsSeq(entries) /\ (AnyThrows(entries) <=> ~ReadableSection(section))
  <2>1. CASE section = "configuration"
    <3>. DEFINE config == file.configuration
    <3>1. config.range \in STRING \X STRING /\ config.setup \in Seq(Setting)
      BY FilesAssumption
    <3>2. entries = ConfigurationEntries(config)
      BY <2>1 DEF SectionEntries
    <3>3. ReadableSection(section) <=> ReadableConfiguration(config)
      BY <2>1 DEF ReadableSection, ReadableConfiguration, ReadableSetup
    <3>. HIDE DEF entries, config
    <3>. QED
      BY <3>1, <3>2, <3>3, ConfigurationThrows
  <2>2. CASE section # "configuration"
    <3>. DEFINE R == RecursiveExpressionParser
                written == file[section]
    <3>1. written \in Seq(Entry)
      BY <2>2, SectionNames, FilesAssumption
    <3>2. entries = Parsed(written, R)
      BY <2>2 DEF SectionEntries
    <3>3. IsSeq(written) /\ \A i \in DOMAIN written : written[i] \in Entry
      BY <3>1, SeqOfRange, ElementOfSeq, LenProperties DEF IsSeq
    <3>4. \A i \in DOMAIN written : Throws(R[written[i].value]) <=> ~Readable[written[i].value]
      <4>1. \A i \in DOMAIN written : written[i].value \in Expressions
        BY <3>3 DEF Entry
      <4>. QED
        BY <4>1, ExpressionReads, ReadsThrows
    <3>5. ReadableSection(section) <=> \A i \in DOMAIN written : Readable[written[i].value]
      BY <2>2 DEF ReadableSection
    <3>. HIDE DEF entries, R, written
    <3>6. IsSeq(entries) /\ (AnyThrows(entries) <=> \E i \in DOMAIN written : Throws(R[written[i].value]))
      BY <3>2, <3>3, ParsedEntries
    <3>. QED
      BY <3>4, <3>5, <3>6
  <2>. QED
    BY <2>1, <2>2
<1>2. ParseSection(section) = MapOf(entries)
  BY DEF ParseSection
<1>. HIDE DEF entries
<1>3. Len(entries) \in Nat /\ DOMAIN entries = 1..Len(entries)
  BY <1>1, SeqDomain
<1>4. /\ MapOf(entries) = Thrown <=> AnyThrows(entries)
      /\ MapOf(entries) # Thrown => HoldsLast(MapOf(entries), entries)
  BY <1>3, MapOfHoldsLast DEF AnyThrows
<1>. QED
  BY <1>1, <1>2, <1>4 DEF entries

\* The file that is parsed stays; what parse leaves is as written.
ParsedAsWritten == file \in Files /\ SettingsAsWritten

LEMMA ParseSettingsAsWritten ==
  ASSUME file \in Files, ParseSettings
  PROVE  ParsedAsWritten'
<1>. DEFINE map(k) == ParseSection(Sections[k])
            maps == [k \in DOMAIN Sections |-> map(k)]
<1>1. /\ settings' = [s \in Range(Sections) |-> Filled[CHOOSE k \in DOMAIN Sections : Sections[k] = s]]
      /\ parsed' = IF \E s \in Range(Sections) : ParseSection(s) = Thrown THEN "throws" ELSE "ok"
      /\ file' = file
  BY DEF ParseSettings
<1>2. \A section : /\ ReadableSection(section)' <=> ReadableSection(section)
                   /\ SectionEntries(section)' = SectionEntries(section)
  BY <1>1 DEF ReadableSection, SectionEntries
<1>3. \A k \in 1..5 : Filled[k] = IF \E j \in 1..k : ParseSection(Sections[j]) = Thrown
                                  THEN Empty ELSE ParseSection(Sections[k])
  <2>1. DOMAIN maps = 1..5 /\ \A k \in 1..5 : maps[k] = map(k)
    BY SectionNames
  <2>2. \A k \in 1..5 : Filled[k] = IF \E j \in 1..k : maps[j] = Thrown THEN Empty ELSE maps[k]
    BY SectionNames DEF Filled
  <2>3. \A k \in 1..5 : 1..k \subseteq 1..5
    OBVIOUS
  <2>. HIDE DEF maps
  <2>. QED
    BY <2>1, <2>2, <2>3
<1>4. \A k \in 1..5 : settings'[Sections[k]] = Filled[k]
  <2>1. ASSUME NEW k \in 1..5 PROVE settings'[Sections[k]] = Filled[k]
    <3>1. (CHOOSE i \in DOMAIN Sections : Sections[i] = Sections[k]) = k
      BY SectionNames
    <3>2. Sections[k] \in Range(Sections)
      BY SectionNames
    <3>. QED
      BY <1>1, <3>1, <3>2
  <2>. QED
    BY <2>1
<1>5. ASSUME NEW k \in 1..5
      PROVE  IF \A j \in 1..k : ReadableSection(Sections[j])
             THEN HoldsLast(settings'[Sections[k]], SectionEntries(Sections[k]))
             ELSE settings'[Sections[k]] = Empty /\ parsed' = "throws"
  <2>1. \A j \in 1..k : j \in 1..5 /\ Sections[j] \in Range(Sections)
    BY SectionNames
  <2>2. \A j \in 1..k : ParseSection(Sections[j]) = Thrown <=> ~ReadableSection(Sections[j])
    BY <2>1, SectionReads
  <2>3. CASE \A j \in 1..k : ReadableSection(Sections[j])
    <3>1. k \in 1..k
      OBVIOUS
    <3>2. settings'[Sections[k]] = ParseSection(Sections[k])
      BY <1>3, <1>4, <2>2, <2>3
    <3>3. HoldsLast(ParseSection(Sections[k]), SectionEntries(Sections[k]))
      BY <2>1, <2>2, <2>3, <3>1, SectionReads
    <3>. QED
      BY <2>3, <3>2, <3>3
  <2>4. CASE ~ \A j \in 1..k : ReadableSection(Sections[j])
    <3>1. PICK j \in 1..k : ParseSection(Sections[j]) = Thrown
      BY <2>2, <2>4
    <3>2. settings'[Sections[k]] = Empty
      BY <1>3, <1>4, <3>1
    <3>3. parsed' = "throws"
      BY <1>1, <2>1, <3>1
    <3>. QED
      BY <2>4, <3>2, <3>3
  <2>. QED
    BY <2>3, <2>4
<1>6. SettingsAsWritten'
  BY <1>2, <1>5, SectionNames DEF SettingsAsWritten
<1>. QED
  BY <1>1, <1>6 DEF ParsedAsWritten

\* For any grammar, file and numbers that fit: parse fills the sections up to
\* the first that cannot be read, each key once with the value written last
\* (GameSettings::parse, recursiveExpressionParser, VariableUtils::setValue).
THEOREM SettingsCorrect == SettingsSpec => []SettingsAsWritten
<1>1. SettingsInit => ParsedAsWritten
  BY DEF SettingsInit, ParsedAsWritten, SettingsAsWritten
<1>2. ParsedAsWritten /\ [ParseSettings]_settingsVars => ParsedAsWritten'
  <2>. SUFFICES ASSUME ParsedAsWritten, [ParseSettings]_settingsVars PROVE ParsedAsWritten'
    OBVIOUS
  <2>1. CASE ParseSettings
    BY <2>1, ParseSettingsAsWritten DEF ParsedAsWritten
  <2>2. CASE UNCHANGED settingsVars
    BY <2>2 DEF settingsVars, ParsedAsWritten, SettingsAsWritten, ReadableSection, SectionEntries
  <2>. QED
    BY <2>1, <2>2
<1>3. ParsedAsWritten => SettingsAsWritten
  BY DEF ParsedAsWritten
<1>. QED
  BY <1>1, <1>2, <1>3, PTL DEF SettingsSpec

-----------------------------------------------------------------------------
(* parseExpression                                                         *)

TermParts == [e \in Terms |-> Parts(e)]

LEMMA TermTree == IsTree(Terms, Depth, TermParts)
<1>1. /\ Depth \in [Terms -> Nat]
      /\ \A e \in Terms : \A part \in Parts(e) : part \in Terms /\ Depth[part] < Depth[e]
  BY TermsAssumption
<1>. QED
  BY <1>1 DEF IsTree, TermParts

\* What the grammar gives an expression of each form.
LEMMA TermForms ==
  ASSUME NEW e \in Terms
  PROVE  /\ e.form \in {"leaf", "builtin", "not", "binary"}
         /\ e.form = "leaf" => e.text \in STRING \ OperatorMap
         /\ e.form = "builtin" => /\ e.subject \in STRING /\ e.name \in BuiltinMap
                                  /\ e.args \in Seq(Terms) /\ Range(e.args) \subseteq TermParts[e]
         /\ e.form = "not" => e.operand \in Terms /\ e.operand \in TermParts[e]
         /\ e.form = "binary" => /\ e.symbol \in {"=", "+", "||"}
                                 /\ e.lhs \in Terms /\ e.rhs \in Terms
                                 /\ e.lhs \in TermParts[e] /\ e.rhs \in TermParts[e]
<1>1. /\ \/ e.form = "leaf" /\ e.text \in STRING \ OperatorMap
         \/ /\ e.form = "builtin" /\ e.subject \in STRING /\ e.name \in BuiltinMap
            /\ e.args \in Seq(Terms)
         \/ e.form = "not"
         \/ e.form = "binary" /\ e.symbol \in {"=", "+", "||"}
      /\ \A part \in Parts(e) : part \in Terms
  BY TermsAssumption
<1>2. TermParts[e] = Parts(e)
  BY DEF TermParts
<1>3. e.form = "builtin" => Parts(e) = Range(e.args)
  BY DEF Parts
<1>4. e.form = "not" => Parts(e) = {e.operand}
  BY DEF Parts
<1>5. e.form = "binary" => Parts(e) = {e.lhs, e.rhs}
  BY DEF Parts
<1>. QED
  BY <1>1, <1>2, <1>3, <1>4, <1>5

\* The sequences that FlattenSeq has after each element, up to the k-th.
IsFlat(f, k, seqs) == f = [i \in 1..k |-> IF i = 1 THEN seqs[i] ELSE f[i - 1] \o seqs[i]]

LEMMA FlatExists ==
  ASSUME NEW n \in Nat, NEW seqs
  PROVE  \E f : IsFlat(f, n, seqs)
<1>. DEFINE Good == {k \in 0..n : \E f : IsFlat(f, k, seqs)}
<1>1. 0 \in Good
  <2>1. IsFlat([i \in 1..0 |-> <<>>], 0, seqs)
    BY DEF IsFlat
  <2>. QED
    BY <2>1
<1>2. ASSUME NEW k \in 1..n, k - 1 \in Good PROVE k \in Good
  <2>1. PICK f : IsFlat(f, k - 1, seqs)
    BY <1>2
  <2>. DEFINE last == IF k = 1 THEN seqs[k] ELSE f[k - 1] \o seqs[k]
              g == [i \in 1..k |-> IF i < k THEN f[i] ELSE last]
  <2>2. ASSUME NEW i \in 1..k PROVE g[i] = IF i = 1 THEN seqs[i] ELSE g[i - 1] \o seqs[i]
    <3>1. CASE i < k
      <4>1. i \in 1..(k - 1) /\ (i # 1 => i - 1 \in 1..k /\ i - 1 < k)
        BY <3>1
      <4>2. f[i] = IF i = 1 THEN seqs[i] ELSE f[i - 1] \o seqs[i]
        BY <2>1, <4>1 DEF IsFlat
      <4>. QED
        BY <3>1, <4>1, <4>2
    <3>2. CASE i = k
      <4>1. i # 1 => i - 1 \in 1..k /\ i - 1 < k
        BY <3>2
      <4>. QED
        BY <3>2, <4>1
    <3>. QED
      BY <3>1, <3>2
  <2>3. g = [i \in 1..k |-> g[i]]
    OBVIOUS
  <2>. HIDE DEF g
  <2>4. IsFlat(g, k, seqs)
    BY <2>2, <2>3 DEF IsFlat
  <2>. QED
    BY <2>4
<1>. HIDE DEF Good
<1>3. 0..n \subseteq Good
  BY <1>1, <1>2, Induction
<1>. QED
  BY <1>3 DEF Good

\* Sequences one after the other are a sequence.
LEMMA FlattenType ==
  ASSUME NEW S, NEW seqs \in Seq(Seq(S))
  PROVE  FlattenSeq(seqs) \in Seq(S)
<1>. DEFINE n == Len(seqs)
            flatten == CHOOSE f : f = [i \in 1..n |-> IF i = 1 THEN seqs[i] ELSE f[i - 1] \o seqs[i]]
<1>1. n \in Nat /\ DOMAIN seqs = 1..n /\ \A i \in 1..n : seqs[i] \in Seq(S)
  BY LenProperties, ElementOfSeq
<1>2. CASE n = 0
  <2>1. seqs = <<>>
    BY <1>2, EmptySeq
  <2>. QED
    BY <1>2, <2>1, EmptySeq DEF FlattenSeq
<1>3. CASE n # 0
  <2>1. FlattenSeq(seqs) = flatten[n]
    BY <1>3 DEF FlattenSeq
  <2>2. \E f : IsFlat(f, n, seqs)
    BY <1>1, FlatExists
  <2>3. \E f : f = [i \in 1..n |-> IF i = 1 THEN seqs[i] ELSE f[i - 1] \o seqs[i]]
    BY <2>2 DEF IsFlat
  <2>4. flatten = [i \in 1..n |-> IF i = 1 THEN seqs[i] ELSE flatten[i - 1] \o seqs[i]]
    BY <2>3
  <2>. HIDE DEF flatten
  <2>. DEFINE Good == {i \in 0..n : i # 0 => flatten[i] \in Seq(S)}
  <2>5. 0 \in Good
    BY <1>1
  <2>6. ASSUME NEW i \in 1..n, i - 1 \in Good PROVE i \in Good
    <3>1. flatten[i] = IF i = 1 THEN seqs[i] ELSE flatten[i - 1] \o seqs[i]
      BY <2>4
    <3>2. i # 1 => flatten[i - 1] \in Seq(S)
      BY <1>1, <2>6
    <3>3. flatten[i] \in Seq(S)
      BY <1>1, <3>1, <3>2, ConcatProperties
    <3>. QED
      BY <1>1, <3>3
  <2>. HIDE DEF Good
  <2>7. 0..n \subseteq Good
    BY <1>1, <2>5, <2>6, Induction
  <2>8. n \in Good
    BY <1>1, <2>7
  <2>. QED
    BY <1>3, <2>1, <2>8 DEF Good
<1>. QED
  BY <1>2, <1>3

\* None after another is none, and one sequence is itself.
LEMMA FlattenShort ==
  /\ FlattenSeq(<<>>) = <<>>
  /\ \A s : FlattenSeq(<<s>>) = s
<1>1. FlattenSeq(<<>>) = <<>>
  BY EmptySeq DEF FlattenSeq
<1>2. ASSUME NEW s PROVE FlattenSeq(<<s>>) = s
  <2>. DEFINE seqs == <<s>>
              flatten == CHOOSE f : f = [i \in 1..1 |-> IF i = 1 THEN seqs[i] ELSE f[i - 1] \o seqs[i]]
  <2>1. Len(seqs) = 1 /\ seqs[1] = s
    OBVIOUS
  <2>. HIDE DEF seqs
  <2>2. \E f : IsFlat(f, 1, seqs)
    BY FlatExists
  <2>3. \E f : f = [i \in 1..1 |-> IF i = 1 THEN seqs[i] ELSE f[i - 1] \o seqs[i]]
    BY <2>2 DEF IsFlat
  <2>4. flatten = [i \in 1..1 |-> IF i = 1 THEN seqs[i] ELSE flatten[i - 1] \o seqs[i]]
    BY <2>3
  <2>5. FlattenSeq(seqs) = flatten[1]
    BY <2>1 DEF FlattenSeq
  <2>. HIDE DEF flatten
  <2>6. flatten[1] = seqs[1]
    BY <2>4
  <2>7. FlattenSeq(seqs) = s
    BY <2>1, <2>5, <2>6
  <2>. QED
    BY <2>7 DEF seqs
<1>. QED
  BY <1>1, <1>2

\* What can be a token.
Token == UNION {{Name(e), e.subject, e.name, OperatorChar(e), "!"} : e \in Terms}

\* The tokens of an expression, given those of its parts.
Tokens(e, f) ==
    CASE e.form = "builtin" ->
            <<e.subject, e.name>> \o FlattenSeq([i \in DOMAIN e.args |-> f[e.args[i]]])
      [] e.form = "not"     -> <<"!">> \o f[e.operand]
      [] e.form = "binary"  -> <<OperatorChar(e)>> \o f[e.lhs] \o f[e.rhs]
      [] e.form = "leaf"    -> <<Name(e)>>

LEMMA TokensType ==
  ASSUME NEW e \in Terms, NEW f, \A p \in TermParts[e] : f[p] \in Seq(Token)
  PROVE  Tokens(e, f) \in Seq(Token)
<1>0. {Name(e), e.subject, e.name, OperatorChar(e), "!"} \subseteq Token
  BY DEF Token
<1>. HIDE DEF Token
<1>1. CASE e.form = "builtin"
  <2>. DEFINE seqs == [i \in DOMAIN e.args |-> f[e.args[i]]]
              two == <<e.subject, e.name>>
              rest == FlattenSeq(seqs)
  <2>1. e.args \in Seq(Terms) /\ Range(e.args) \subseteq TermParts[e]
    BY <1>1, TermForms
  <2>2. /\ Len(e.args) \in Nat /\ DOMAIN e.args = 1..Len(e.args)
        /\ \A i \in DOMAIN e.args : f[e.args[i]] \in Seq(Token)
    BY <2>1, LenProperties DEF Range
  <2>3. seqs \in [1..Len(e.args) -> Seq(Token)]
    BY <2>2
  <2>4. seqs \in Seq(Seq(Token))
    <3>. HIDE DEF seqs
    <3>. QED
      BY <2>2, <2>3, SeqDef
  <2>5. two \in Seq(Token)
    BY <1>0
  <2>. HIDE DEF seqs
  <2>6. rest \in Seq(Token)
    BY <2>4, FlattenType
  <2>. HIDE DEF two, rest
  <2>7. two \o rest \in Seq(Token)
    BY <2>5, <2>6, ConcatProperties
  <2>8. Tokens(e, f) = two \o rest
    BY <1>1 DEF Tokens, seqs, two, rest
  <2>. QED
    BY <2>7, <2>8
<1>2. CASE e.form = "not"
  <2>1. f[e.operand] \in Seq(Token) /\ <<"!">> \in Seq(Token)
    BY <1>0, <1>2, TermForms
  <2>. QED
    BY <1>2, <2>1, ConcatProperties DEF Tokens
<1>3. CASE e.form = "binary"
  <2>1. f[e.lhs] \in Seq(Token) /\ f[e.rhs] \in Seq(Token)
    BY <1>3, TermForms
  <2>2. <<OperatorChar(e)>> \in Seq(Token)
    BY <1>0
  <2>. DEFINE a == <<OperatorChar(e)>>
              b == f[e.lhs]
              c == f[e.rhs]
  <2>3. Tokens(e, f) = a \o b \o c
    BY <1>3 DEF Tokens
  <2>. HIDE DEF a, b, c
  <2>4. a \in Seq(Token) /\ b \in Seq(Token) /\ c \in Seq(Token)
    BY <2>1, <2>2 DEF a, b, c
  <2>5. a \o b \o c \in Seq(Token)
    BY <2>4, ConcatProperties
  <2>. QED
    BY <2>3, <2>5
<1>4. CASE e.form = "leaf"
  <2>1. <<Name(e)>> \in Seq(Token)
    BY <1>0
  <2>. QED
    BY <1>4, <2>1 DEF Tokens
<1>. QED
  BY <1>1, <1>2, <1>3, <1>4, TermForms

\* They depend on those of its parts only.
LEMMA TokensDepend ==
  ASSUME NEW e \in Terms, NEW f, NEW g, \A p \in TermParts[e] : f[p] = g[p]
  PROVE  Tokens(e, f) = Tokens(e, g)
<1>1. CASE e.form = "builtin"
  <2>1. e.args \in Seq(Terms) /\ Range(e.args) \subseteq TermParts[e]
    BY <1>1, TermForms
  <2>2. \A i \in DOMAIN e.args : f[e.args[i]] = g[e.args[i]]
    BY <2>1 DEF Range
  <2>3. [i \in DOMAIN e.args |-> f[e.args[i]]] = [i \in DOMAIN e.args |-> g[e.args[i]]]
    BY <2>2
  <2>. QED
    BY <1>1, <2>3 DEF Tokens
<1>2. CASE e.form = "not"
  BY <1>2, TermForms DEF Tokens
<1>3. CASE e.form = "binary"
  <2>1. f[e.lhs] = g[e.lhs] /\ f[e.rhs] = g[e.rhs]
    BY <1>3, TermForms
  <2>. QED
    BY <1>3, <2>1 DEF Tokens
<1>4. CASE e.form = "leaf"
  BY <1>4 DEF Tokens
<1>. QED
  BY <1>1, <1>2, <1>3, <1>4, TermForms

\* So parseExpression does what it says for every expression.
LEMMA ParseExpressionDoes ==
  /\ ParseExpression \in [Terms -> Seq(Token)]
  /\ \A e \in Terms : ParseExpression[e] = Tokens(e, ParseExpression)
<1>. DEFINE V == Seq(Token)
            step == [x \in Terms \X [Terms -> V] |-> Tokens(x[1], x[2])]
<1>1. \A e \in Terms, f \in [Terms -> V] : step[<<e, f>>] = Tokens(e, f)
  OBVIOUS
<1>2. IsStep(Terms, TermParts, V, step)
  <2>1. step \in [Terms \X [Terms -> V] -> V]
    <3>1. \A e \in Terms : TermParts[e] \subseteq Terms
      BY TermTree DEF IsTree
    <3>2. ASSUME NEW e \in Terms, NEW f \in [Terms -> V] PROVE Tokens(e, f) \in V
      BY <3>1, TokensType
    <3>. HIDE DEF V
    <3>. QED
      BY <3>2
  <2>2. ASSUME NEW e \in Terms, NEW f \in [Terms -> V], NEW g \in [Terms -> V],
               \A p \in TermParts[e] : f[p] = g[p]
        PROVE  step[<<e, f>>] = step[<<e, g>>]
    <3>1. Tokens(e, f) = Tokens(e, g)
      BY <2>2, TokensDepend
    <3>. QED
      BY <1>1, <3>1
  <2>. HIDE DEF step, V
  <2>. QED
    BY <2>1, <2>2 DEF IsStep
<1>3. <<>> \in V
  BY EmptySeq
<1>. HIDE DEF step, V
<1>4. PICK f \in [Terms -> V] : f = [e \in Terms |-> step[<<e, f>>]]
  BY <1>2, <1>3, TermTree, Recursion
<1>5. f = [e \in Terms |-> Tokens(e, f)]
  BY <1>1, <1>4
<1>. DEFINE Is(g) == g = [e \in Terms |-> Tokens(e, g)]
<1>6. ParseExpression = CHOOSE g : Is(g)
  BY DEF ParseExpression, Tokens
<1>7. Is(f)
  BY <1>5
<1>8. Is(ParseExpression)
  <2>. HIDE DEF Is
  <2>. QED
    BY <1>6, <1>7
<1>9. ParseExpression = [e \in Terms |-> ParseExpression[e]]
      /\ \A e \in Terms : ParseExpression[e] = Tokens(e, ParseExpression)
  <2>. DEFINE P == ParseExpression
  <2>1. P = [e \in Terms |-> Tokens(e, P)]
    BY <1>8
  <2>. HIDE DEF P
  <2>2. P = [e \in Terms |-> P[e]] /\ \A e \in Terms : P[e] = Tokens(e, P)
    BY <2>1
  <2>. QED
    BY <2>2 DEF P
<1>10. Terms \subseteq {e \in Terms : ParseExpression[e] \in Seq(Token)}
  <2>. DEFINE S == {e \in Terms : ParseExpression[e] \in Seq(Token)}
  <2>1. ASSUME NEW e \in Terms, TermParts[e] \subseteq S PROVE e \in S
    <3>1. Tokens(e, ParseExpression) \in Seq(Token)
      BY <2>1, TokensType
    <3>. QED
      BY <1>9, <3>1
  <2>. HIDE DEF S
  <2>2. Terms \subseteq S
    BY <2>1, TermTree, TreeInduction
  <2>. QED
    BY <2>2 DEF S
<1>. QED
  BY <1>9, <1>10

-----------------------------------------------------------------------------
(* What expressions mean                                                   *)

Meaning == Variants \cup {None}

IsScope(scope) == \A name \in DOMAIN scope : scope[name] \in Variants

\* A value by its type.
LEMMA MeaningTypes ==
  ASSUME NEW v \in Meaning
  PROVE  /\ v.type \in {"bool", "int", "string", "list", "map", "none"}
         /\ v.type = "bool" => v.data \in BOOLEAN /\ v = Boolean(v.data)
         /\ v.type = "int" => v.data \in Int
         /\ v.type \in {"list", "map"} => Len(v.data) \in Nat
         /\ v.type = "none" => v = None
         /\ v.type # "none" => v \in Variants
<1>1. CASE v \in [type : {"bool"}, data : BOOLEAN]
  BY <1>1 DEF Boolean, Variants
<1>2. CASE v \in [type : {"int"}, data : Int]
  BY <1>2 DEF Variants
<1>3. CASE v \in [type : {"list", "map"}, data : Seq(STRING)]
  BY <1>3, LenProperties DEF Variants
<1>5. CASE v \in [type : {"string"}, data : STRING]
  BY <1>5 DEF Variants
<1>4. CASE v = None
  BY <1>4 DEF None
<1>. QED
  BY <1>1, <1>2, <1>3, <1>4, <1>5 DEF Meaning, Variants

LEMMA ScalarTypes ==
  /\ \A b \in BOOLEAN : Boolean(b) \in Variants /\ Boolean(b).type = "bool" /\ Boolean(b).data = b
  /\ \A i \in Int : Integer(i) \in Variants /\ Integer(i).type = "int" /\ Integer(i).data = i
  BY DEF Boolean, Integer, Variants

LEMMA BuiltinMeansType ==
  ASSUME NEW name, NEW v \in Meaning
  PROVE  BuiltinMeans(name, v) \in Meaning
<1>1. v.type \in {"list", "map"} => Len(v.data) \in Int
  BY MeaningTypes
<1>2. v.type \in {"list", "map"} => Integer(Len(v.data)) \in Variants
  BY <1>1, ScalarTypes
<1>. QED
  BY <1>2 DEF BuiltinMeans, Meaning

\* What an expression means, given what its parts do.
MeansStep(e, f, scope) ==
    CASE e.form = "leaf"    -> Bound(Name(e), scope)
      [] e.form = "builtin" -> BuiltinMeans(e.name, Bound(e.subject, scope))
      [] e.form = "not"     -> NotMeans(f[e.operand])
      [] OTHER              -> BinaryMeans(e.symbol, f[e.lhs], f[e.rhs])

LEMMA NotMeansType ==
  ASSUME NEW v \in Meaning
  PROVE  NotMeans(v) \in Meaning
<1>1. v.type = "bool" => Boolean(~v.data) \in Meaning
  BY MeaningTypes, ScalarTypes DEF Meaning
<1>. QED
  BY <1>1 DEF NotMeans, Meaning

LEMMA BinaryMeansType ==
  ASSUME NEW v \in Meaning, NEW w \in Meaning, NEW symbol
  PROVE  BinaryMeans(symbol, v, w) \in Meaning
<1>1. Boolean(SameValue(v, w)) \in Meaning
  <2>1. SameValue(v, w) \in BOOLEAN
    BY DEF SameValue
  <2>. QED
    BY <2>1, ScalarTypes DEF Meaning
<1>2. {v.type, w.type} = {"int"} => Integer(v.data + w.data) \in Meaning
  <2>. SUFFICES ASSUME {v.type, w.type} = {"int"} PROVE Integer(v.data + w.data) \in Meaning
    OBVIOUS
  <2>1. v.type = "int" /\ w.type = "int"
    OBVIOUS
  <2>2. v.data \in Int /\ w.data \in Int
    BY <2>1, MeaningTypes
  <2>. QED
    BY <2>2, ScalarTypes DEF Meaning
<1>3. Boolean(v.data \/ w.data) \in Meaning
  BY ScalarTypes DEF Meaning
<1>4. None \in Meaning
  BY DEF Meaning
<1>. QED
  BY <1>1, <1>2, <1>3, <1>4 DEF BinaryMeans

LEMMA MeansStepType ==
  ASSUME NEW scope, IsScope(scope),
         NEW e \in Terms, NEW f, \A p \in TermParts[e] : f[p] \in Meaning
  PROVE  MeansStep(e, f, scope) \in Meaning
<1>1. CASE e.form = "leaf"
  BY <1>1 DEF MeansStep, Bound, IsScope, Meaning
<1>2. CASE e.form = "builtin"
  <2>1. Bound(e.subject, scope) \in Meaning
    BY DEF Bound, IsScope, Meaning
  <2>2. BuiltinMeans(e.name, Bound(e.subject, scope)) \in Meaning
    BY <2>1, BuiltinMeansType
  <2>. QED
    BY <1>2, <2>2 DEF MeansStep
<1>3. CASE e.form = "not"
  <2>1. f[e.operand] \in Meaning
    BY <1>3, TermForms
  <2>. QED
    BY <1>3, <2>1, NotMeansType DEF MeansStep
<1>4. CASE e.form = "binary"
  <2>1. f[e.lhs] \in Meaning /\ f[e.rhs] \in Meaning
    BY <1>4, TermForms
  <2>. QED
    BY <1>4, <2>1, BinaryMeansType DEF MeansStep
<1>. QED
  BY <1>1, <1>2, <1>3, <1>4, TermForms

LEMMA MeansStepDepends ==
  ASSUME NEW scope, NEW e \in Terms, NEW f, NEW g, \A p \in TermParts[e] : f[p] = g[p]
  PROVE  MeansStep(e, f, scope) = MeansStep(e, g, scope)
<1>1. CASE e.form = "not"
  <2>1. f[e.operand] = g[e.operand]
    BY <1>1, TermForms
  <2>. QED
    BY <1>1, <2>1 DEF MeansStep
<1>2. CASE e.form = "binary"
  <2>1. f[e.lhs] = g[e.lhs] /\ f[e.rhs] = g[e.rhs]
    BY <1>2, TermForms
  <2>. QED
    BY <1>2, <2>1 DEF MeansStep
<1>3. CASE e.form \in {"leaf", "builtin"}
  BY <1>3 DEF MeansStep
<1>. QED
  BY <1>1, <1>2, <1>3, TermForms

\* The meaning of every expression in a scope.
MeaningsIn(scope) == [e \in Terms |-> Means(e, scope)]

LEMMA MeansDoes ==
  ASSUME NEW scope, IsScope(scope)
  PROVE  \A e \in Terms : /\ Means(e, scope) \in Meaning
                          /\ Means(e, scope) = MeansStep(e, MeaningsIn(scope), scope)
<1>. DEFINE V == Meaning
            step == [x \in Terms \X [Terms -> V] |-> MeansStep(x[1], x[2], scope)]
            Is(g) == g = [e \in Terms |-> MeansStep(e, g, scope)]
            M == CHOOSE g : Is(g)
<1>1. \A e \in Terms, f \in [Terms -> V] : step[<<e, f>>] = MeansStep(e, f, scope)
  OBVIOUS
<1>2. IsStep(Terms, TermParts, V, step)
  <2>1. step \in [Terms \X [Terms -> V] -> V]
    <3>1. \A e \in Terms : TermParts[e] \subseteq Terms
      BY TermTree DEF IsTree
    <3>2. ASSUME NEW e \in Terms, NEW f \in [Terms -> V] PROVE MeansStep(e, f, scope) \in V
      BY <3>1, MeansStepType
    <3>. HIDE DEF V
    <3>. QED
      BY <3>2
  <2>2. ASSUME NEW e \in Terms, NEW f \in [Terms -> V], NEW g \in [Terms -> V],
               \A p \in TermParts[e] : f[p] = g[p]
        PROVE  step[<<e, f>>] = step[<<e, g>>]
    <3>1. MeansStep(e, f, scope) = MeansStep(e, g, scope)
      BY <2>2, MeansStepDepends
    <3>. QED
      BY <1>1, <3>1
  <2>. HIDE DEF step, V
  <2>. QED
    BY <2>1, <2>2 DEF IsStep
<1>3. None \in V
  BY DEF Meaning
<1>. HIDE DEF step, V
<1>4. PICK f \in [Terms -> V] : f = [e \in Terms |-> step[<<e, f>>]]
  BY <1>2, <1>3, TermTree, Recursion
<1>5. Is(f)
  BY <1>1, <1>4
<1>6. Is(M)
  <2>. HIDE DEF Is
  <2>. QED
    BY <1>5
<1>7. ASSUME NEW term \in Terms PROVE Means(term, scope) = M[term]
  BY DEF Means, MeansStep
<1>. HIDE DEF M
<1>8. M = [e \in Terms |-> M[e]] /\ \A e \in Terms : M[e] = MeansStep(e, M, scope)
  BY <1>6
<1>9. M = MeaningsIn(scope)
  BY <1>7, <1>8 DEF MeaningsIn
<1>10. Terms \subseteq {e \in Terms : M[e] \in Meaning}
  <2>. DEFINE S == {e \in Terms : M[e] \in Meaning}
  <2>1. ASSUME NEW e \in Terms, TermParts[e] \subseteq S PROVE e \in S
    <3>1. MeansStep(e, M, scope) \in Meaning
      BY <2>1, MeansStepType
    <3>. QED
      BY <1>8, <3>1
  <2>. HIDE DEF S
  <2>2. Terms \subseteq S
    BY <2>1, TermTree, TreeInduction
  <2>. QED
    BY <2>2 DEF S
<1>. QED
  BY <1>7, <1>8, <1>9, <1>10

-----------------------------------------------------------------------------
(* How the calls read expressions                                          *)

Readings == {"whole", "cut", "wrong"}

\* How an expression is read, given how its parts are.
ReadingStep(e, f, scope) ==
    CASE e.form = "leaf" -> IF e.text \in BuiltinMap THEN "wrong" ELSE "whole"
      [] e.form = "builtin" ->
            IF e.subject \in BuiltinMap THEN "wrong"
            ELSE IF IsPlainCall(e) THEN "whole" ELSE "cut"
      [] e.form = "not" -> f[e.operand]
      [] OTHER ->
            IF e.blanks # 1 \/ "wrong" \in {f[e.lhs], f[e.rhs]} THEN "wrong"
            ELSE IF e.symbol = "||" /\ ~SameValue(Means(e.lhs, scope), Boolean(FALSE)) THEN "cut"
            ELSE IF f[e.lhs] = "cut" THEN "wrong"
            ELSE f[e.rhs]

LEMMA ReadingStepType ==
  ASSUME NEW scope, NEW e \in Terms, NEW f, \A p \in TermParts[e] : f[p] \in Readings
  PROVE  ReadingStep(e, f, scope) \in Readings
<1>1. CASE e.form \in {"leaf", "builtin"}
  BY <1>1 DEF ReadingStep, Readings
<1>2. CASE e.form = "not"
  <2>1. f[e.operand] \in Readings
    BY <1>2, TermForms
  <2>. QED
    BY <1>2, <2>1 DEF ReadingStep
<1>3. CASE e.form = "binary"
  <2>1. f[e.lhs] \in Readings /\ f[e.rhs] \in Readings
    BY <1>3, TermForms
  <2>. QED
    BY <1>3, <2>1 DEF ReadingStep, Readings
<1>. QED
  BY <1>1, <1>2, <1>3, TermForms

LEMMA ReadingStepDepends ==
  ASSUME NEW scope, NEW e \in Terms, NEW f, NEW g, \A p \in TermParts[e] : f[p] = g[p]
  PROVE  ReadingStep(e, f, scope) = ReadingStep(e, g, scope)
<1>1. CASE e.form = "not"
  <2>1. f[e.operand] = g[e.operand]
    BY <1>1, TermForms
  <2>. QED
    BY <1>1, <2>1 DEF ReadingStep
<1>2. CASE e.form = "binary"
  <2>1. f[e.lhs] = g[e.lhs] /\ f[e.rhs] = g[e.rhs]
    BY <1>2, TermForms
  <2>. QED
    BY <1>2, <2>1 DEF ReadingStep
<1>3. CASE e.form \in {"leaf", "builtin"}
  BY <1>3 DEF ReadingStep
<1>. QED
  BY <1>1, <1>2, <1>3, TermForms

\* How every expression is read in a scope.
ReadingsIn(scope) == [e \in Terms |-> Reading(e, scope)]

LEMMA ReadingDoes ==
  ASSUME NEW scope
  PROVE  \A e \in Terms : /\ Reading(e, scope) \in Readings
                          /\ Reading(e, scope) = ReadingStep(e, ReadingsIn(scope), scope)
<1>. DEFINE V == Readings
            step == [x \in Terms \X [Terms -> V] |-> ReadingStep(x[1], x[2], scope)]
            Is(g) == g = [e \in Terms |-> ReadingStep(e, g, scope)]
            R == CHOOSE g : Is(g)
<1>1. \A e \in Terms, f \in [Terms -> V] : step[<<e, f>>] = ReadingStep(e, f, scope)
  OBVIOUS
<1>2. IsStep(Terms, TermParts, V, step)
  <2>1. step \in [Terms \X [Terms -> V] -> V]
    <3>1. \A e \in Terms : TermParts[e] \subseteq Terms
      BY TermTree DEF IsTree
    <3>2. ASSUME NEW e \in Terms, NEW f \in [Terms -> V] PROVE ReadingStep(e, f, scope) \in V
      BY <3>1, ReadingStepType
    <3>. HIDE DEF V
    <3>. QED
      BY <3>2
  <2>2. ASSUME NEW e \in Terms, NEW f \in [Terms -> V], NEW g \in [Terms -> V],
               \A p \in TermParts[e] : f[p] = g[p]
        PROVE  step[<<e, f>>] = step[<<e, g>>]
    <3>1. ReadingStep(e, f, scope) = ReadingStep(e, g, scope)
      BY <2>2, ReadingStepDepends
    <3>. QED
      BY <1>1, <3>1
  <2>. HIDE DEF step, V
  <2>. QED
    BY <2>1, <2>2 DEF IsStep
<1>3. "cut" \in V
  BY DEF Readings
<1>. HIDE DEF step, V
<1>4. PICK f \in [Terms -> V] : f = [e \in Terms |-> step[<<e, f>>]]
  BY <1>2, <1>3, TermTree, Recursion
<1>5. Is(f)
  BY <1>1, <1>4
<1>6. Is(R)
  <2>. HIDE DEF Is
  <2>. QED
    BY <1>5
<1>7. ASSUME NEW term \in Terms PROVE Reading(term, scope) = R[term]
  BY DEF Reading, ReadingStep
<1>. HIDE DEF R
<1>8. R = [e \in Terms |-> R[e]] /\ \A e \in Terms : R[e] = ReadingStep(e, R, scope)
  BY <1>6
<1>9. R = ReadingsIn(scope)
  BY <1>7, <1>8 DEF ReadingsIn
<1>10. Terms \subseteq {e \in Terms : R[e] \in Readings}
  <2>. DEFINE S == {e \in Terms : R[e] \in Readings}
  <2>1. ASSUME NEW e \in Terms, TermParts[e] \subseteq S PROVE e \in S
    <3>1. ReadingStep(e, R, scope) \in Readings
      BY <2>1, ReadingStepType
    <3>. QED
      BY <1>8, <3>1
  <2>. HIDE DEF S
  <2>2. Terms \subseteq S
    BY <2>1, TermTree, TreeInduction
  <2>. QED
    BY <2>2 DEF S
<1>. QED
  BY <1>7, <1>8, <1>9, <1>10

-----------------------------------------------------------------------------
(* evaluationExpression                                                    *)

\* One call, given what the calls further on return.
CallStep(f, at, tokens, scopes, scope) ==
    IF at > Len(tokens) THEN Failure
    ELSE IF at < Len(tokens) /\ tokens[at + 1] \in BuiltinMap
         THEN EvaluateBuiltin(tokens, at, scope)
    ELSE IF at < Len(tokens) /\ tokens[at] \in OperatorMap
         THEN EvaluateOperator(tokens[at], f[at + 1], f[f[at + 1].at])
    ELSE IF (\E s \in Range(scopes) : tokens[at] \in DOMAIN s) /\ tokens[at] \in DOMAIN scope
         THEN Value(scope[tokens[at]], at + 1)
    ELSE Failure

\* A call fails, or moves the iterator on.
Advances(r, at) == r.fails \in BOOLEAN /\ (~r.fails => r.at \in Nat /\ at < r.at)

LEMMA ResultFields ==
  /\ Failure.fails = TRUE
  /\ \A v, at : Value(v, at).fails = FALSE /\ Value(v, at).value = v /\ Value(v, at).at = at
  BY DEF Failure, Value

LEMMA OperatorAdvances ==
  ASSUME NEW operator \in OperatorMap, NEW at \in Nat, NEW lhs, NEW rhs,
         Advances(lhs, at + 1), ~lhs.fails => Advances(rhs, lhs.at)
  PROVE  Advances(EvaluateOperator(operator, lhs, rhs), at)
<1>. DEFINE r == EvaluateOperator(operator, lhs, rhs)
<1>1. lhs.fails \in BOOLEAN /\ (~lhs.fails => lhs.at \in Nat /\ at < lhs.at /\ rhs.fails \in BOOLEAN)
  BY DEF Advances
<1>2. ~lhs.fails /\ ~rhs.fails => rhs.at \in Nat /\ at < rhs.at
  BY <1>1 DEF Advances
<1>3. Advances(Failure, at)
  BY ResultFields DEF Advances
<1>4. \A v : ~lhs.fails => Advances(Value(v, lhs.at), at)
  BY <1>1, ResultFields DEF Advances
<1>5. \A v : ~lhs.fails /\ ~rhs.fails => Advances(Value(v, rhs.at), at)
  BY <1>2, ResultFields DEF Advances
<1>6. ~lhs.fails => Advances(lhs, at)
  BY <1>1 DEF Advances
<1>7. ~lhs.fails /\ ~rhs.fails => Advances(rhs, at)
  BY <1>1, <1>2 DEF Advances
<1>8. CASE operator = "!"
  BY <1>3, <1>4, <1>8 DEF EvaluateOperator
<1>9. CASE operator = "="
  BY <1>1, <1>3, <1>5, <1>9 DEF EvaluateOperator
<1>10. CASE operator = "+"
  BY <1>3, <1>5, <1>10 DEF EvaluateOperator
<1>11. CASE operator = "|"
  BY <1>3, <1>6, <1>7, <1>11 DEF EvaluateOperator
<1>. QED
  BY <1>8, <1>9, <1>10, <1>11 DEF OperatorMap

\* Where the left operand fails, the right one does not matter.
LEMMA OperatorOfFailure ==
  ASSUME NEW operator \in OperatorMap, NEW lhs, lhs.fails, NEW r, NEW s
  PROVE  EvaluateOperator(operator, lhs, r) = EvaluateOperator(operator, lhs, s)
<1>1. CASE operator = "!"
  BY <1>1 DEF EvaluateOperator
<1>2. CASE operator = "="
  BY <1>2 DEF EvaluateOperator
<1>3. CASE operator = "+"
  BY <1>3 DEF EvaluateOperator
<1>4. CASE operator = "|"
  BY <1>4 DEF EvaluateOperator
<1>. QED
  BY <1>1, <1>2, <1>3, <1>4 DEF OperatorMap

\* f says what the calls from the last k tokens on return.
IsCalls(f, k, tokens, scopes, scope) ==
    \A at \in Nat : at + k > Len(tokens) =>
        f[at] = CallStep(f, at, tokens, scopes, scope) /\ Advances(f[at], at)

LEMMA CallStepAdvances ==
  ASSUME NEW tokens, Len(tokens) \in Nat, NEW scopes, NEW scope, NEW at \in Nat, NEW f,
         at < Len(tokens) => Advances(f[at + 1], at + 1),
         at < Len(tokens) /\ ~f[at + 1].fails => Advances(f[f[at + 1].at], f[at + 1].at)
  PROVE  Advances(CallStep(f, at, tokens, scopes, scope), at)
<1>1. Advances(Failure, at)
  BY ResultFields DEF Advances
<1>a. \A v : \A to \in Nat : at < to => Advances(Value(v, to), at)
  <2>. TAKE v
  <2>. TAKE to \in Nat
  <2>1. Value(v, to).fails = FALSE /\ Value(v, to).at = to
    BY ResultFields
  <2>. QED
    BY <2>1 DEF Advances
<1>b. \A v : Advances(Value(v, at + 1), at)
  <2>1. at + 1 \in Nat /\ at < at + 1
    OBVIOUS
  <2>. QED
    BY <1>a, <2>1
<1>2. tokens[at + 1] \in BuiltinMap => Advances(EvaluateBuiltin(tokens, at, scope), at)
  <2>. SUFFICES ASSUME tokens[at + 1] \in BuiltinMap
                PROVE  Advances(EvaluateBuiltin(tokens, at, scope), at)
    OBVIOUS
  <2>. DEFINE name == tokens[at + 1]
  <2>1. Skips[name] \in {2, 3, 5}
    BY DEF Skips, BuiltinMap
  <2>2. \A k \in {2, 3, 5} : at + k \in Nat /\ at < at + k
    OBVIOUS
  <2>3. \A v : Advances(Value(v, at + Skips[name]), at)
    BY <1>a, <2>1, <2>2
  <2>. QED
    BY <1>1, <2>3 DEF EvaluateBuiltin
<1>3. at < Len(tokens) /\ tokens[at] \in OperatorMap
          => Advances(EvaluateOperator(tokens[at], f[at + 1], f[f[at + 1].at]), at)
  BY OperatorAdvances
<1>. QED
  BY <1>1, <1>b, <1>2, <1>3 DEF CallStep

\* A call depends on those further on only.
LEMMA CallStepDepends ==
  ASSUME NEW tokens, Len(tokens) \in Nat, NEW scopes, NEW scope, NEW at \in Nat, NEW f, NEW g,
         Advances(f[at + 1], at + 1), \A i \in Nat : at < i => g[i] = f[i]
  PROVE  CallStep(f, at, tokens, scopes, scope) = CallStep(g, at, tokens, scopes, scope)
<1>1. g[at + 1] = f[at + 1]
  OBVIOUS
<1>2. tokens[at] \in OperatorMap
          => EvaluateOperator(tokens[at], f[at + 1], f[f[at + 1].at])
             = EvaluateOperator(tokens[at], g[at + 1], g[g[at + 1].at])
  <2>1. CASE f[at + 1].fails
    BY <1>1, <2>1, OperatorOfFailure
  <2>2. CASE ~f[at + 1].fails
    <3>1. f[at + 1].at \in Nat /\ at < f[at + 1].at
      BY <2>2 DEF Advances
    <3>2. g[f[at + 1].at] = f[f[at + 1].at]
      BY <3>1
    <3>. QED
      BY <1>1, <3>2
  <2>. QED
    BY <2>1, <2>2
<1>. QED
  BY <1>2 DEF CallStep

\* f says what every call returns.
AreCalls(f, tokens, scopes, scope) == f = [at \in Nat |-> CallStep(f, at, tokens, scopes, scope)]

LEMMA CallsExist ==
  ASSUME NEW tokens, Len(tokens) \in Nat, NEW scopes, NEW scope
  PROVE  \E f : AreCalls(f, tokens, scopes, scope)
<1>. DEFINE n == Len(tokens)
            Good == {k \in 0..(n + 1) : \E f : /\ f = [at \in Nat |-> f[at]]
                                               /\ IsCalls(f, k, tokens, scopes, scope)}
<1>1. 0 \in Good
  <2>. DEFINE f == [at \in Nat |-> Failure]
  <2>1. \A at \in Nat : at > n => CallStep(f, at, tokens, scopes, scope) = Failure
    BY DEF CallStep
  <2>2. \A at \in Nat : Advances(Failure, at)
    BY ResultFields DEF Advances
  <2>3. IsCalls(f, 0, tokens, scopes, scope)
    BY <2>1, <2>2 DEF IsCalls
  <2>4. f = [at \in Nat |-> f[at]]
    OBVIOUS
  <2>. HIDE DEF f
  <2>. QED
    BY <2>3, <2>4
<1>2. ASSUME NEW k \in 1..(n + 1), k - 1 \in Good PROVE k \in Good
  <2>1. PICK f : f = [at \in Nat |-> f[at]] /\ IsCalls(f, k - 1, tokens, scopes, scope)
    BY <1>2
  <2>. DEFINE here == (n + 1) - k
              call == CallStep(f, here, tokens, scopes, scope)
              g == [at \in Nat |-> IF at = here THEN call ELSE f[at]]
  <2>2. here \in Nat /\ here + 1 \in Nat
    OBVIOUS
  <2>3. \A at \in Nat : here < at => f[at] = CallStep(f, at, tokens, scopes, scope) /\ Advances(f[at], at)
    <3>1. \A at \in Nat : here < at => at + (k - 1) > Len(tokens)
      OBVIOUS
    <3>. QED
      BY <2>1, <3>1 DEF IsCalls
  <2>4. /\ g = [at \in Nat |-> g[at]] /\ g[here] = call
        /\ \A at \in Nat : here < at => g[at] = f[at]
    BY <2>2
  <2>. HIDE DEF g, here
  <2>5. \A at \in Nat : at + k > Len(tokens) => at = here \/ here < at
    BY DEF here
  <2>6. \A at \in Nat : here <= at => Advances(f[at + 1], at + 1)
    <3>1. \A at \in Nat : here <= at => at + 1 \in Nat /\ here < at + 1
      BY <2>2
    <3>. QED
      BY <2>3, <3>1
  <2>7. ASSUME NEW at \in Nat, here <= at
        PROVE  CallStep(f, at, tokens, scopes, scope) = CallStep(g, at, tokens, scopes, scope)
    <3>1. \A i \in Nat : at < i => g[i] = f[i]
      BY <2>2, <2>4, <2>7
    <3>2. Advances(f[at + 1], at + 1)
      BY <2>6, <2>7
    <3>. QED
      BY <3>1, <3>2, CallStepDepends
  <2>8. Advances(call, here)
    <3>1. Advances(f[here + 1], here + 1)
      BY <2>2, <2>6
    <3>2. ~f[here + 1].fails => f[here + 1].at \in Nat /\ here < f[here + 1].at
      BY <2>2, <3>1 DEF Advances
    <3>3. ~f[here + 1].fails => Advances(f[f[here + 1].at], f[here + 1].at)
      BY <2>3, <3>2
    <3>. QED
      BY <2>2, <3>1, <3>3, CallStepAdvances
  <2>9. ASSUME NEW at \in Nat, at + k > Len(tokens)
        PROVE  g[at] = CallStep(g, at, tokens, scopes, scope) /\ Advances(g[at], at)
    <3>1. CASE at = here
      <4>1. call = CallStep(g, here, tokens, scopes, scope)
        BY <2>2, <2>7
      <4>. HIDE DEF call
      <4>. QED
        BY <2>4, <2>8, <3>1, <4>1
    <3>2. CASE here < at
      <4>1. CallStep(f, at, tokens, scopes, scope) = CallStep(g, at, tokens, scopes, scope)
        BY <2>2, <2>7, <3>2
      <4>. QED
        BY <2>3, <2>4, <3>2, <4>1
    <3>. QED
      BY <2>5, <2>9, <3>1, <3>2
  <2>10. IsCalls(g, k, tokens, scopes, scope)
    BY <2>9 DEF IsCalls
  <2>. QED
    BY <2>4, <2>10
<1>. HIDE DEF Good
<1>3. n + 1 \in Good
  <2>0. n + 1 \in Nat
    OBVIOUS
  <2>1. 0..(n + 1) \subseteq Good
    BY <1>1, <1>2, <2>0, Induction
  <2>. QED
    BY <2>1
<1>4. PICK f : f = [at \in Nat |-> f[at]] /\ IsCalls(f, n + 1, tokens, scopes, scope)
  BY <1>3 DEF Good
<1>5. \A at \in Nat : f[at] = CallStep(f, at, tokens, scopes, scope)
  BY <1>4 DEF IsCalls
<1>6. f = [at \in Nat |-> CallStep(f, at, tokens, scopes, scope)]
  BY <1>4, <1>5
<1>. QED
  BY <1>6 DEF AreCalls

\* The calls on some tokens.
Calls(tokens, scopes, scope) == [at \in Nat |-> EvaluationExpression(tokens, at, scopes, scope)]

\* So evaluationExpression does what it says from every token on.
LEMMA EvaluationExpressionDoes ==
  ASSUME NEW tokens, Len(tokens) \in Nat, NEW scopes, NEW scope, NEW at \in Nat
  PROVE  EvaluationExpression(tokens, at, scopes, scope)
         = CallStep(Calls(tokens, scopes, scope), at, tokens, scopes, scope)
<1>. DEFINE Is(g) == g = [i \in Nat |-> CallStep(g, i, tokens, scopes, scope)]
            C == CHOOSE g : Is(g)
<1>1. \E g : Is(g)
  <2>1. PICK g : AreCalls(g, tokens, scopes, scope)
    BY CallsExist
  <2>2. Is(g)
    BY <2>1 DEF AreCalls
  <2>. HIDE DEF Is
  <2>. QED
    BY <2>2
<1>2. Is(C)
  <2>. HIDE DEF Is
  <2>. QED
    BY <1>1
<1>3. ASSUME NEW start \in Nat PROVE EvaluationExpression(tokens, start, scopes, scope) = C[start]
  BY DEF EvaluationExpression, CallStep
<1>. HIDE DEF C
<1>4. C = [i \in Nat |-> C[i]] /\ \A i \in Nat : C[i] = CallStep(C, i, tokens, scopes, scope)
  BY <1>2
<1>5. C = Calls(tokens, scopes, scope)
  BY <1>3, <1>4 DEF Calls
<1>. QED
  BY <1>3, <1>4, <1>5

-----------------------------------------------------------------------------
(* What evaluates to what it means                                         *)

\* The tokens ts begin at one of the tokens.
Fits(ts, tokens, at) ==
    \A i \in 1..Len(ts) : (at - 1) + i \in 1..Len(tokens) /\ tokens[(at - 1) + i] = ts[i]

LEMMA FitsConcat ==
  ASSUME NEW S, NEW a \in Seq(S), NEW b \in Seq(S), NEW tokens, NEW at \in Nat,
         Fits(a \o b, tokens, at)
  PROVE  Fits(a, tokens, at) /\ Fits(b, tokens, at + Len(a))
<1>. DEFINE m == Len(a)
            n == Len(b)
            c == a \o b
<1>1. /\ m \in Nat /\ n \in Nat /\ Len(c) = m + n
      /\ \A i \in 1..m : c[i] = a[i]
      /\ \A i \in 1..n : c[m + i] = b[i]
  <2>1. m \in Nat /\ n \in Nat
    BY LenProperties
  <2>2. Len(c) = m + n /\ \A i \in 1..(m + n) : c[i] = IF i <= m THEN a[i] ELSE b[i - m]
    BY ConcatProperties
  <2>3. \A i \in 1..m : i \in 1..(m + n) /\ i <= m
    BY <2>1
  <2>4. \A i \in 1..n : m + i \in 1..(m + n) /\ ~(m + i <= m) /\ (m + i) - m = i
    BY <2>1
  <2>. HIDE DEF m, n, c
  <2>5. \A i \in 1..n : c[m + i] = b[(m + i) - m]
    BY <2>2, <2>4
  <2>. QED
    BY <2>1, <2>2, <2>3, <2>4, <2>5
<1>2. \A i \in 1..(m + n) : (at - 1) + i \in 1..Len(tokens) /\ tokens[(at - 1) + i] = c[i]
  BY <1>1 DEF Fits
<1>. HIDE DEF m, n, c
<1>3. \A i \in 1..m : (at - 1) + i \in 1..Len(tokens) /\ tokens[(at - 1) + i] = a[i]
  <2>1. \A i \in 1..m : i \in 1..(m + n)
    BY <1>1
  <2>. QED
    BY <1>1, <1>2, <2>1
<1>4. \A i \in 1..n : ((at + m) - 1) + i \in 1..Len(tokens) /\ tokens[((at + m) - 1) + i] = b[i]
  <2>1. \A i \in 1..n : m + i \in 1..(m + n) /\ (at - 1) + (m + i) = ((at + m) - 1) + i
    BY <1>1
  <2>. QED
    BY <1>1, <1>2, <2>1
<1>. QED
  BY <1>3, <1>4 DEF Fits, m, n

\* What ends an expression: a builtin's name there would be taken for a call.
NoBuiltinAt(tokens, at) == at <= Len(tokens) => tokens[at] \notin BuiltinMap

\* What a call returns for an expression whose tokens begin somewhere.
IsWorth(r, e, scope) == Means(e, scope).type # "none" => ~r.fails /\ r.value = Means(e, scope)

TakesAll(r, e, at, scope) ==
    Reading(e, scope) = "whole" /\ ~r.fails => r.at = at + Len(ParseExpression[e])

\* The evaluation of an expression wherever its tokens are.
EvaluatesAt(e, tokens, scopes, scope) ==
    \A at \in Nat \ {0} :
        /\ Fits(ParseExpression[e], tokens, at)
        /\ NoBuiltinAt(tokens, at + Len(ParseExpression[e]))
        /\ Reading(e, scope) # "wrong"
        => /\ IsWorth(EvaluationExpression(tokens, at, scopes, scope), e, scope)
           /\ TakesAll(EvaluationExpression(tokens, at, scopes, scope), e, at, scope)

\* The first token of an expression, and what follows of it.
LEMMA FirstToken ==
  ASSUME NEW e \in Terms
  PROVE  /\ ParseExpression[e] \in Seq(Token) /\ Len(ParseExpression[e]) \in Nat \ {0}
         /\ e.form = "leaf" => Len(ParseExpression[e]) = 1 /\ ParseExpression[e][1] = Name(e)
         /\ e.form = "builtin" => /\ Len(ParseExpression[e]) >= 2 /\ ParseExpression[e][1] = e.subject
                                  /\ ParseExpression[e][2] = e.name
         /\ e.form = "not" => ParseExpression[e][1] = "!"
         /\ e.form = "binary" => ParseExpression[e][1] = OperatorChar(e)
<1>. DEFINE P == ParseExpression
<1>1. P \in [Terms -> Seq(Token)] /\ P[e] = Tokens(e, P)
  BY ParseExpressionDoes
<1>. HIDE DEF P
<1>2. P[e] \in Seq(Token) /\ Len(P[e]) \in Nat
  BY <1>1, LenProperties
<1>3. CASE e.form = "leaf"
  <2>1. P[e] = <<Name(e)>>
    BY <1>1, <1>3 DEF Tokens
  <2>2. Len(P[e]) = 1 /\ P[e][1] = Name(e)
    BY <2>1
  <2>. QED
    BY <1>2, <1>3, <2>2 DEF P
<1>4. CASE e.form = "builtin"
  <2>. DEFINE two == <<e.subject, e.name>>
              rest == FlattenSeq([i \in DOMAIN e.args |-> P[e.args[i]]])
  <2>1. P[e] = two \o rest
    BY <1>1, <1>4 DEF Tokens
  <2>2. e.args \in Seq(Terms)
    BY <1>4, TermForms
  <2>3. rest \in Seq(Token)
    <3>. DEFINE seqs == [i \in DOMAIN e.args |-> P[e.args[i]]]
    <3>1. /\ Len(e.args) \in Nat /\ DOMAIN e.args = 1..Len(e.args)
          /\ \A i \in DOMAIN e.args : P[e.args[i]] \in Seq(Token)
      BY <1>1, <2>2, LenProperties, ElementOfSeq
    <3>2. seqs \in [1..Len(e.args) -> Seq(Token)]
      BY <3>1
    <3>3. seqs \in Seq(Seq(Token))
      <4>. HIDE DEF seqs
      <4>. QED
        BY <3>1, <3>2, SeqDef
    <3>. HIDE DEF seqs
    <3>4. FlattenSeq(seqs) \in Seq(Token)
      BY <3>3, FlattenType
    <3>. QED
      BY <3>4 DEF seqs
  <2>4. two \in Seq(Token) /\ Len(two) = 2 /\ two[1] = e.subject /\ two[2] = e.name
    <3>1. {e.subject, e.name} \subseteq Token
      BY DEF Token
    <3>. HIDE DEF Token
    <3>. QED
      BY <3>1
  <2>. HIDE DEF two, rest
  <2>a. two \in Seq(Token) /\ Len(two) = 2
    BY <2>4
  <2>b. Len(rest) \in Nat
    BY <2>3, LenProperties
  <2>c. /\ Len(two \o rest) = Len(two) + Len(rest)
        /\ \A i \in 1..(Len(two) + Len(rest)) :
              (two \o rest)[i] = IF i <= Len(two) THEN two[i] ELSE rest[i - Len(two)]
    BY <2>3, <2>a, ConcatProperties
  <2>5. Len(rest) \in Nat /\ Len(two \o rest) = 2 + Len(rest)
    BY <2>a, <2>b, <2>c
  <2>6. (two \o rest)[1] = two[1] /\ (two \o rest)[2] = two[2]
    <3>2. 1 \in 1..(Len(two) + Len(rest)) /\ 2 \in 1..(Len(two) + Len(rest))
      BY <2>a, <2>b
    <3>. QED
      BY <2>a, <2>c, <3>2
  <2>7. Len(P[e]) >= 2 /\ P[e][1] = e.subject /\ P[e][2] = e.name
    BY <2>1, <2>4, <2>5, <2>6
  <2>. QED
    BY <1>2, <1>4, <2>7 DEF P
<1>5. \A t : \A a \in Seq(Token) : Len(<<t>> \o a) # 0 /\ (<<t>> \o a)[1] = t
  OBVIOUS
<1>6. CASE e.form = "not"
  <2>1. P[e] = <<"!">> \o P[e.operand] /\ P[e.operand] \in Seq(Token)
    BY <1>1, <1>6, TermForms DEF Tokens
  <2>2. Len(P[e]) # 0 /\ P[e][1] = "!"
    BY <1>5, <2>1
  <2>. QED
    BY <1>2, <1>6, <2>2 DEF P
<1>7. CASE e.form = "binary"
  <2>. DEFINE a == <<OperatorChar(e)>>
              b == P[e.lhs]
              c == P[e.rhs]
  <2>1. P[e] = a \o b \o c
    BY <1>1, <1>7 DEF Tokens
  <2>2. b \in Seq(Token) /\ c \in Seq(Token)
    BY <1>1, <1>7, TermForms
  <2>3. a \in Seq(Token)
    <3>1. OperatorChar(e) \in Token
      BY DEF Token
    <3>. HIDE DEF Token
    <3>. QED
      BY <3>1
  <2>4. a \o b \o c = a \o (b \o c) /\ b \o c \in Seq(Token)
    <3>. HIDE DEF a, b, c
    <3>1. b \o c \in Seq(Token)
      BY <2>2, ConcatProperties
    <3>2. a \o b \o c = a \o (b \o c)
      BY <2>2, <2>3, ConcatAssociative
    <3>. QED
      BY <3>1, <3>2
  <2>5. Len(P[e]) # 0 /\ P[e][1] = OperatorChar(e)
    <3>. DEFINE d == b \o c
    <3>. HIDE DEF d
    <3>1. P[e] = <<OperatorChar(e)>> \o d /\ d \in Seq(Token)
      BY <2>1, <2>4 DEF d
    <3>. QED
      BY <1>5, <3>1
  <2>. QED
    BY <1>2, <1>7, <2>5 DEF P
<1>. QED
  BY <1>3, <1>4, <1>6, <1>7, TermForms

\* An expression that is read where it begins does not begin with a builtin.
LEMMA NoBuiltinFirst ==
  ASSUME NEW e \in Terms, NEW scope, Reading(e, scope) # "wrong"
  PROVE  ParseExpression[e][1] \notin BuiltinMap
<1>1. ReadingStep(e, ReadingsIn(scope), scope) # "wrong"
  BY ReadingDoes
<1>2. CASE e.form = "leaf"
  <2>1. e.text \notin BuiltinMap
    BY <1>1, <1>2 DEF ReadingStep
  <2>2. Name(e) \notin BuiltinMap
    BY <2>1 DEF Name, BuiltinMap
  <2>. QED
    BY <1>2, <2>2, FirstToken
<1>3. CASE e.form = "builtin"
  <2>1. e.subject \notin BuiltinMap
    BY <1>1, <1>3 DEF ReadingStep
  <2>. QED
    BY <1>3, <2>1, FirstToken
<1>4. CASE e.form = "not"
  BY <1>4, FirstToken DEF BuiltinMap
<1>5. CASE e.form = "binary"
  <2>1. e.blanks = 1
    BY <1>1, <1>5 DEF ReadingStep
  <2>2. e.symbol \in {"=", "+", "||"}
    BY <1>5, TermForms
  <2>3. OperatorChar(e) \notin BuiltinMap
    BY <2>1, <2>2 DEF OperatorChar, BuiltinMap
  <2>. QED
    BY <1>5, <2>3, FirstToken
<1>. QED
  BY <1>2, <1>3, <1>4, <1>5, TermForms

\* What a call returns at the first token of an expression.
LEMMA LeafEvaluates ==
  ASSUME NEW tokens, Len(tokens) \in Nat, NEW scopes, NEW scope \in Range(scopes), IsScope(scope),
         NEW e \in Terms, e.form = "leaf"
  PROVE  EvaluatesAt(e, tokens, scopes, scope)
<1>. DEFINE r(at) == EvaluationExpression(tokens, at, scopes, scope)
<1>. SUFFICES ASSUME NEW at \in Nat \ {0}, Fits(ParseExpression[e], tokens, at),
                     NoBuiltinAt(tokens, at + Len(ParseExpression[e])),
                     Reading(e, scope) # "wrong"
              PROVE  IsWorth(r(at), e, scope) /\ TakesAll(r(at), e, at, scope)
  BY DEF EvaluatesAt
<1>1. Len(ParseExpression[e]) = 1 /\ ParseExpression[e][1] = Name(e)
  BY FirstToken
<1>2. at \in 1..Len(tokens) /\ tokens[at] = Name(e)
  <2>1. \A i \in 1..1 : (at - 1) + i \in 1..Len(tokens) /\ tokens[(at - 1) + i] = ParseExpression[e][i]
    BY <1>1 DEF Fits
  <2>2. 1 \in 1..1 /\ (at - 1) + 1 = at
    OBVIOUS
  <2>. QED
    BY <1>1, <2>1, <2>2
<1>3. at < Len(tokens) => tokens[at + 1] \notin BuiltinMap
  BY <1>1 DEF NoBuiltinAt
<1>4. Name(e) \notin OperatorMap
  BY TermForms DEF Name, OperatorMap
<1>5. Means(e, scope) = Bound(Name(e), scope)
  BY MeansDoes DEF MeansStep
<1>6. Means(e, scope).type # "none" => Name(e) \in DOMAIN scope /\ Means(e, scope) = scope[Name(e)]
  BY <1>5 DEF Bound, None
<1>7. r(at) = IF Name(e) \in DOMAIN scope THEN Value(scope[Name(e)], at + 1) ELSE Failure
  <2>1. r(at) = CallStep(Calls(tokens, scopes, scope), at, tokens, scopes, scope)
    BY EvaluationExpressionDoes
  <2>. QED
    BY <1>2, <1>3, <1>4, <2>1 DEF CallStep
<1>. HIDE DEF r
<1>8. IsWorth(r(at), e, scope)
  BY <1>6, <1>7, ResultFields DEF IsWorth
<1>9. TakesAll(r(at), e, at, scope)
  BY <1>1, <1>7, ResultFields DEF TakesAll
<1>. QED
  BY <1>8, <1>9

\* How many tokens there are of a call whose arguments need no look.
LEMMA PlainCallLength ==
  ASSUME NEW e \in Terms, e.form = "builtin", IsPlainCall(e)
  PROVE  Len(ParseExpression[e]) = Skips[e.name]
<1>. DEFINE P == ParseExpression
            two == <<e.subject, e.name>>
            seqs == [i \in DOMAIN e.args |-> P[e.args[i]]]
            rest == FlattenSeq(seqs)
<1>1. P \in [Terms -> Seq(Token)] /\ P[e] = two \o rest
  BY ParseExpressionDoes DEF Tokens
<1>2. e.args \in Seq(Terms) /\ e.name \in BuiltinMap
  BY TermForms
<1>. HIDE DEF P
<1>3. CASE e.name = "size"
  <2>1. e.args = <<>>
    BY <1>3 DEF IsPlainCall
  <2>2. seqs = <<>>
    BY <2>1
  <2>. HIDE DEF seqs
  <2>3. rest = <<>>
    BY <2>2, FlattenShort
  <2>. HIDE DEF rest
  <2>4. Len(two \o rest) = 2
    BY <2>3
  <2>5. Skips["size"] = 2
    BY DEF Skips
  <2>. QED
    BY <1>1, <1>3, <2>4, <2>5 DEF P
<1>4. CASE e.name # "size"
  <2>1. e.name \in {"contains", "upfrom"} /\ Len(e.args) = 1 /\ e.args[1].form = "leaf"
    BY <1>4 DEF IsPlainCall
  <2>. DEFINE arg == e.args[1]
  <2>2. DOMAIN e.args = 1..1 /\ arg \in Terms
    BY <1>2, <2>1, LenProperties, ElementOfSeq
  <2>3. P[arg] \in Seq(Token) /\ Len(P[arg]) = 1
    BY <2>1, <2>2, FirstToken DEF P
  <2>4. seqs = <<P[arg]>>
    BY <2>2
  <2>. HIDE DEF seqs, arg
  <2>5. rest = P[arg]
    BY <2>4, FlattenShort
  <2>. HIDE DEF rest
  <2>6. two \in Seq(Token) /\ Len(two) = 2
    <3>1. {e.subject, e.name} \subseteq Token
      BY DEF Token
    <3>. HIDE DEF Token
    <3>. QED
      BY <3>1
  <2>. HIDE DEF two
  <2>7. Len(two \o rest) = Len(two) + Len(rest)
    BY <2>3, <2>5, <2>6, ConcatProperties
  <2>8. Len(two \o rest) = 3
    BY <2>3, <2>5, <2>6, <2>7
  <2>9. Skips[e.name] = 3
    BY <2>1 DEF Skips
  <2>. QED
    BY <1>1, <2>8, <2>9 DEF P
<1>. QED
  BY <1>3, <1>4

LEMMA BuiltinEvaluates ==
  ASSUME NEW tokens, Len(tokens) \in Nat, NEW scopes, NEW scope \in Range(scopes), IsScope(scope),
         NEW e \in Terms, e.form = "builtin"
  PROVE  EvaluatesAt(e, tokens, scopes, scope)
<1>. DEFINE size == Len(ParseExpression[e])
            r(at) == EvaluationExpression(tokens, at, scopes, scope)
<1>. SUFFICES ASSUME NEW at \in Nat \ {0}, Fits(ParseExpression[e], tokens, at),
                     NoBuiltinAt(tokens, at + size),
                     Reading(e, scope) # "wrong"
              PROVE  IsWorth(r(at), e, scope) /\ TakesAll(r(at), e, at, scope)
  BY DEF EvaluatesAt
<1>1. size \in Nat /\ size >= 2 /\ ParseExpression[e][1] = e.subject /\ ParseExpression[e][2] = e.name
  BY FirstToken
<1>2. at \in 1..Len(tokens) /\ at < Len(tokens) /\ tokens[at] = e.subject /\ tokens[at + 1] = e.name
  <2>1. \A i \in 1..size : (at - 1) + i \in 1..Len(tokens) /\ tokens[(at - 1) + i] = ParseExpression[e][i]
    BY DEF Fits
  <2>2. 1 \in 1..size /\ (at - 1) + 1 = at /\ 2 \in 1..size /\ (at - 1) + 2 = at + 1
    BY <1>1
  <2>3. at \in 1..Len(tokens) /\ tokens[at] = ParseExpression[e][1]
    BY <2>1, <2>2
  <2>4. at + 1 \in 1..Len(tokens) /\ tokens[at + 1] = ParseExpression[e][2]
    BY <2>1, <2>2
  <2>. QED
    BY <1>1, <2>3, <2>4
<1>3. e.name \in BuiltinMap
  BY TermForms
<1>4. Means(e, scope) = BuiltinMeans(e.name, Bound(e.subject, scope))
  BY MeansDoes DEF MeansStep
<1>5. r(at) = EvaluateBuiltin(tokens, at, scope)
  <2>1. r(at) = CallStep(Calls(tokens, scopes, scope), at, tokens, scopes, scope)
    BY EvaluationExpressionDoes
  <2>. QED
    BY <1>2, <1>3, <2>1 DEF CallStep
<1>. HIDE DEF r
<1>6. IsWorth(r(at), e, scope)
  <2>. SUFFICES ASSUME Means(e, scope).type # "none"
                PROVE  ~r(at).fails /\ r(at).value = Means(e, scope)
    BY DEF IsWorth
  <2>. DEFINE v == Bound(e.subject, scope)
  <2>1. e.name = "size" /\ v.type \in {"list", "map"} /\ Means(e, scope) = Integer(Len(v.data))
    BY <1>4 DEF BuiltinMeans, None
  <2>2. e.subject \in DOMAIN scope /\ v = scope[e.subject]
    BY <2>1 DEF Bound, None
  <2>. HIDE DEF v
  <2>3. Size(v) = Means(e, scope)
    BY <2>1 DEF Size
  <2>4. r(at) = Value(Size(v), at + Skips[e.name])
    BY <1>2, <1>5, <2>1, <2>2 DEF EvaluateBuiltin, BuiltinValue
  <2>. QED
    BY <2>3, <2>4, ResultFields
<1>7. TakesAll(r(at), e, at, scope)
  <2>. SUFFICES ASSUME Reading(e, scope) = "whole", ~r(at).fails
                PROVE  r(at).at = at + size
    BY DEF TakesAll
  <2>1. IsPlainCall(e)
    <3>1. Reading(e, scope) = ReadingStep(e, ReadingsIn(scope), scope)
      BY ReadingDoes
    <3>. QED
      BY <3>1 DEF ReadingStep
  <2>2. size = Skips[e.name]
    BY <2>1, PlainCallLength
  <2>. HIDE DEF size
  <2>3. PICK v : r(at) = Value(v, at + Skips[e.name])
    BY <1>2, <1>5, ResultFields DEF EvaluateBuiltin
  <2>. QED
    BY <2>2, <2>3, ResultFields
<1>. QED
  BY <1>6, <1>7

LEMMA NotEvaluates ==
  ASSUME NEW tokens, Len(tokens) \in Nat, NEW scopes, NEW scope \in Range(scopes), IsScope(scope),
         NEW e \in Terms, e.form = "not", EvaluatesAt(e.operand, tokens, scopes, scope)
  PROVE  EvaluatesAt(e, tokens, scopes, scope)
<1>. DEFINE ts == ParseExpression[e]
            us == ParseExpression[e.operand]
            result(at) == EvaluationExpression(tokens, at, scopes, scope)
<1>. SUFFICES ASSUME NEW at \in Nat \ {0}, Fits(ts, tokens, at),
                     NoBuiltinAt(tokens, at + Len(ts)),
                     Reading(e, scope) # "wrong"
              PROVE  IsWorth(result(at), e, scope) /\ TakesAll(result(at), e, at, scope)
  BY DEF EvaluatesAt
<1>1. e.operand \in Terms
  BY TermForms
<1>2. ts = <<"!">> \o us /\ us \in Seq(Token)
  BY <1>1, ParseExpressionDoes DEF Tokens
<1>3. Len(us) \in Nat \ {0} /\ Len(ts) = 1 + Len(us) /\ Fits(<<"!">>, tokens, at) /\ Fits(us, tokens, at + 1)
  <2>1. <<"!">> \in Seq(Token) /\ Len(<<"!">>) = 1
    <3>1. "!" \in Token
      BY DEF Token
    <3>. HIDE DEF Token
    <3>. QED
      BY <3>1
  <2>. HIDE DEF ts, us
  <2>2. Len(ts) = 1 + Len(us)
    BY <1>2, <2>1, ConcatProperties
  <2>3. Fits(<<"!">>, tokens, at) /\ Fits(us, tokens, at + Len(<<"!">>))
    BY <1>2, <2>1, FitsConcat
  <2>4. Fits(us, tokens, at + 1)
    BY <2>1, <2>3
  <2>. QED
    BY <1>1, <2>2, <2>3, <2>4, FirstToken DEF us
<1>4. at \in 1..Len(tokens) /\ tokens[at] = "!"
  <2>1. 1 \in 1..Len(<<"!">>) /\ (at - 1) + 1 = at /\ <<"!">>[1] = "!"
    OBVIOUS
  <2>2. \A i \in 1..Len(<<"!">>) : (at - 1) + i \in 1..Len(tokens) /\ tokens[(at - 1) + i] = <<"!">>[i]
    BY <1>3 DEF Fits
  <2>. QED
    BY <2>1, <2>2
<1>5. Means(e, scope) = NotMeans(Means(e.operand, scope))
  BY <1>1, MeansDoes DEF MeansStep, MeaningsIn
<1>6. Reading(e, scope) = Reading(e.operand, scope)
  BY <1>1, ReadingDoes DEF ReadingStep, ReadingsIn
<1>7. Means(e, scope).type # "none" => /\ Means(e.operand, scope).type = "bool"
                                       /\ Means(e, scope) = Boolean(~Means(e.operand, scope).data)
  BY <1>5 DEF NotMeans, None
<1>8. at + 1 \in 1..Len(tokens) /\ tokens[at + 1] \notin BuiltinMap
  <2>1. us[1] \notin BuiltinMap
    BY <1>1, <1>6, NoBuiltinFirst
  <2>2. 1 \in 1..Len(us) /\ ((at + 1) - 1) + 1 = at + 1
    BY <1>3
  <2>3. ((at + 1) - 1) + 1 \in 1..Len(tokens) /\ tokens[((at + 1) - 1) + 1] = us[1]
    BY <1>3, <2>2 DEF Fits
  <2>. QED
    BY <2>1, <2>2, <2>3
<1>a. (at + 1) + Len(us) = at + Len(ts)
  <2>. HIDE DEF ts, us
  <2>. QED
    BY <1>3
<1>. DEFINE r == result(at + 1)
<1>9. IsWorth(r, e.operand, scope) /\ TakesAll(r, e.operand, at + 1, scope)
  <2>1. NoBuiltinAt(tokens, (at + 1) + Len(us))
    BY <1>a
  <2>2. at + 1 \in Nat \ {0}
    OBVIOUS
  <2>. QED
    BY <1>3, <1>6, <2>1, <2>2 DEF EvaluatesAt
<1>10. \E s : result(at) = EvaluateOperator("!", r, s)
  <2>. DEFINE calls == Calls(tokens, scopes, scope)
  <2>1. result(at) = CallStep(calls, at, tokens, scopes, scope)
    BY EvaluationExpressionDoes
  <2>2. calls[at + 1] = r
    BY DEF Calls
  <2>. HIDE DEF calls, r, result
  <2>3. result(at) = EvaluateOperator("!", r, calls[r.at])
    BY <1>4, <1>8, <2>1, <2>2 DEF CallStep, OperatorMap
  <2>. QED
    BY <2>3
<1>. HIDE DEF r, result
<1>11. result(at) = IF ~r.fails /\ r.value.type = "bool" THEN Value(Boolean(~r.value.data), r.at) ELSE Failure
  BY <1>10 DEF EvaluateOperator
<1>12. IsWorth(result(at), e, scope)
  <2>. SUFFICES ASSUME Means(e, scope).type # "none"
                PROVE  ~result(at).fails /\ result(at).value = Means(e, scope)
    BY DEF IsWorth
  <2>1. ~r.fails /\ r.value = Means(e.operand, scope)
    BY <1>7, <1>9 DEF IsWorth
  <2>2. result(at) = Value(Means(e, scope), r.at)
    BY <1>7, <1>11, <2>1
  <2>. QED
    BY <2>2, ResultFields
<1>13. TakesAll(result(at), e, at, scope)
  <2>. SUFFICES ASSUME Reading(e, scope) = "whole", ~result(at).fails
                PROVE  result(at).at = at + Len(ts)
    BY DEF TakesAll
  <2>1. ~r.fails /\ result(at).at = r.at
    BY <1>11, ResultFields
  <2>2. r.at = (at + 1) + Len(us)
    BY <1>6, <1>9, <2>1 DEF TakesAll
  <2>. QED
    BY <1>a, <2>1, <2>2
<1>. QED
  BY <1>12, <1>13

\* Where the tokens of a binary operation and of its operands are.
BinaryAt(e, tokens, at) ==
    LET m == Len(ParseExpression[e.lhs])
        n == Len(ParseExpression[e.rhs])
    IN  /\ m \in Nat \ {0} /\ n \in Nat \ {0} /\ Len(ParseExpression[e]) = 1 + m + n
        /\ at \in 1..Len(tokens) /\ tokens[at] = OperatorChar(e)
        /\ Fits(ParseExpression[e.lhs], tokens, at + 1)
        /\ at + 1 \in 1..Len(tokens) /\ tokens[at + 1] = ParseExpression[e.lhs][1]
        /\ Fits(ParseExpression[e.rhs], tokens, (at + 1) + m)
        /\ tokens[(at + 1) + m] = ParseExpression[e.rhs][1]

LEMMA BinaryFits ==
  ASSUME NEW tokens, Len(tokens) \in Nat, NEW at \in Nat \ {0}, NEW e \in Terms, e.form = "binary",
         Fits(ParseExpression[e], tokens, at)
  PROVE  BinaryAt(e, tokens, at)
<1>. DEFINE a == <<OperatorChar(e)>>
            b == ParseExpression[e.lhs]
            c == ParseExpression[e.rhs]
<1>1. e.lhs \in Terms /\ e.rhs \in Terms
  BY TermForms
<1>2. ParseExpression[e] = a \o b \o c
  BY ParseExpressionDoes DEF Tokens
<1>3. b \in Seq(Token) /\ c \in Seq(Token) /\ Len(b) \in Nat \ {0} /\ Len(c) \in Nat \ {0}
  BY <1>1, FirstToken
<1>4. a \in Seq(Token) /\ Len(a) = 1 /\ a[1] = OperatorChar(e)
  <2>1. OperatorChar(e) \in Token
    BY DEF Token
  <2>. HIDE DEF Token
  <2>. QED
    BY <2>1
<1>. HIDE DEF a, b, c
<1>5. a \o b \in Seq(Token) /\ Len(a \o b) = 1 + Len(b)
  <2>1. a \in Seq(Token) /\ b \in Seq(Token)
    BY <1>3, <1>4
  <2>2. a \o b \in Seq(Token) /\ Len(a \o b) = Len(a) + Len(b)
    BY <2>1, ConcatProperties
  <2>. QED
    BY <1>4, <2>2
<1>6. Len(a \o b \o c) = Len(a \o b) + Len(c)
  <2>. DEFINE d == a \o b
  <2>1. d \in Seq(Token)
    BY <1>5
  <2>. HIDE DEF d
  <2>2. Len(d \o c) = Len(d) + Len(c)
    BY <1>3, <2>1, ConcatProperties
  <2>. QED
    BY <2>2 DEF d
<1>7. Fits(a \o b, tokens, at) /\ Fits(c, tokens, at + Len(a \o b))
  BY <1>2, <1>3, <1>5, FitsConcat
<1>8. Fits(a, tokens, at) /\ Fits(b, tokens, at + Len(a))
  BY <1>3, <1>4, <1>7, FitsConcat
<1>9. at + Len(a) = at + 1 /\ at + Len(a \o b) = (at + 1) + Len(b)
  BY <1>3, <1>4, <1>5
<1>10. \A ts, i : i \in Nat \ {0} /\ Len(ts) \in Nat \ {0} /\ Fits(ts, tokens, i)
           => i \in 1..Len(tokens) /\ tokens[i] = ts[1]
  <2>. SUFFICES ASSUME NEW ts, NEW i \in Nat \ {0}, Len(ts) \in Nat \ {0}, Fits(ts, tokens, i)
                PROVE  i \in 1..Len(tokens) /\ tokens[i] = ts[1]
    OBVIOUS
  <2>1. 1 \in 1..Len(ts) /\ (i - 1) + 1 = i
    OBVIOUS
  <2>2. (i - 1) + 1 \in 1..Len(tokens) /\ tokens[(i - 1) + 1] = ts[1]
    BY <2>1 DEF Fits
  <2>. QED
    BY <2>1, <2>2
<1>11. at \in 1..Len(tokens) /\ tokens[at] = a[1]
  <2>1. at \in Nat \ {0} /\ Len(a) \in Nat \ {0} /\ Fits(a, tokens, at)
    BY <1>4, <1>8
  <2>. QED
    BY <1>10, <2>1
<1>12. at + 1 \in 1..Len(tokens) /\ tokens[at + 1] = b[1]
  <2>1. at + 1 \in Nat \ {0} /\ Fits(b, tokens, at + 1)
    BY <1>8, <1>9
  <2>. QED
    BY <1>3, <1>10, <2>1
<1>13. tokens[(at + 1) + Len(b)] = c[1]
  <2>1. (at + 1) + Len(b) \in Nat \ {0} /\ Fits(c, tokens, (at + 1) + Len(b))
    BY <1>3, <1>7, <1>9
  <2>. QED
    BY <1>3, <1>10, <2>1
<1>14. Len(ParseExpression[e]) = 1 + Len(b) + Len(c)
  BY <1>2, <1>5, <1>6
<1>. QED
  BY <1>3, <1>4, <1>7, <1>8, <1>9, <1>11, <1>12, <1>13, <1>14 DEF BinaryAt, b, c

\* The values that a binary operation means something of, and what of them.
LEMMA BinaryForms ==
  ASSUME NEW v \in Meaning, NEW w \in Meaning, NEW symbol \in {"=", "+", "||"},
         BinaryMeans(symbol, v, w).type # "none"
  PROVE  /\ v.type # "none" /\ w.type # "none"
         /\ symbol = "=" => BinaryMeans(symbol, v, w) = Boolean(SameValue(v, w))
         /\ symbol = "+" => v.type = "int" /\ w.type = "int" /\ BinaryMeans(symbol, v, w) = Integer(v.data + w.data)
         /\ symbol = "||" => /\ v.type = "bool" /\ w.type = "bool" /\ v.data \in BOOLEAN
                             /\ BinaryMeans(symbol, v, w) = IF v.data THEN v ELSE w
<1>1. None.type = "none"
  BY DEF None
<1>2. v.type # "none" /\ w.type # "none"
  BY <1>1 DEF BinaryMeans
<1>3. symbol = "=" => BinaryMeans(symbol, v, w) = Boolean(SameValue(v, w))
  BY <1>2 DEF BinaryMeans
<1>4. symbol = "+" => v.type = "int" /\ w.type = "int" /\ BinaryMeans(symbol, v, w) = Integer(v.data + w.data)
  BY <1>1 DEF BinaryMeans
<1>5. symbol = "||" => v.type = "bool" /\ w.type = "bool" /\ BinaryMeans(symbol, v, w) = Boolean(v.data \/ w.data)
  BY <1>1 DEF BinaryMeans
<1>6. \A u \in Meaning : u.type = "bool" => u.data \in BOOLEAN /\ u = Boolean(u.data)
  BY DEF Meaning, Variants, None, Boolean
<1>7. symbol = "||" => BinaryMeans(symbol, v, w) = IF v.data THEN v ELSE w
  <2>. SUFFICES ASSUME symbol = "||" PROVE BinaryMeans(symbol, v, w) = IF v.data THEN v ELSE w
    OBVIOUS
  <2>1. v.data \in BOOLEAN /\ w.data \in BOOLEAN /\ v = Boolean(v.data) /\ w = Boolean(w.data)
    BY <1>5, <1>6
  <2>2. (v.data \/ w.data) = IF v.data THEN v.data ELSE w.data
    BY <2>1
  <2>3. CASE v.data = TRUE
    BY <1>5, <2>1, <2>3
  <2>4. CASE v.data = FALSE
    BY <1>5, <2>1, <2>4
  <2>. QED
    BY <2>1, <2>3, <2>4
<1>. QED
  BY <1>2, <1>3, <1>4, <1>5, <1>6, <1>7

LEMMA BinaryEvaluates ==
  ASSUME NEW tokens, Len(tokens) \in Nat, NEW scopes, NEW scope \in Range(scopes), IsScope(scope),
         NEW e \in Terms, e.form = "binary",
         EvaluatesAt(e.lhs, tokens, scopes, scope), EvaluatesAt(e.rhs, tokens, scopes, scope)
  PROVE  EvaluatesAt(e, tokens, scopes, scope)
<1>. DEFINE size == Len(ParseExpression[e])
            m == Len(ParseExpression[e.lhs])
            n == Len(ParseExpression[e.rhs])
            v == Means(e.lhs, scope)
            w == Means(e.rhs, scope)
            decided == e.symbol = "||" /\ ~SameValue(v, Boolean(FALSE))
<1>. SUFFICES ASSUME NEW at \in Nat \ {0}, Fits(ParseExpression[e], tokens, at),
                     NoBuiltinAt(tokens, at + size),
                     Reading(e, scope) # "wrong"
              PROVE  /\ IsWorth(EvaluationExpression(tokens, at, scopes, scope), e, scope)
                     /\ TakesAll(EvaluationExpression(tokens, at, scopes, scope), e, at, scope)
  BY DEF EvaluatesAt
<1>. DEFINE r == EvaluationExpression(tokens, at, scopes, scope)
            calls == Calls(tokens, scopes, scope)
            lhs == calls[at + 1]
            there == (at + 1) + m
            rhs == calls[there]
<1>1. e.lhs \in Terms /\ e.rhs \in Terms /\ e.symbol \in {"=", "+", "||"}
  BY TermForms
<1>2. /\ m \in Nat \ {0} /\ n \in Nat \ {0} /\ size = 1 + m + n
      /\ at \in 1..Len(tokens) /\ tokens[at] = OperatorChar(e)
      /\ Fits(ParseExpression[e.lhs], tokens, at + 1)
      /\ at + 1 \in 1..Len(tokens) /\ tokens[at + 1] = ParseExpression[e.lhs][1]
      /\ Fits(ParseExpression[e.rhs], tokens, there)
      /\ tokens[there] = ParseExpression[e.rhs][1]
  <2>1. BinaryAt(e, tokens, at)
    BY BinaryFits
  <2>. QED
    BY <2>1 DEF BinaryAt
<1>3. v \in Meaning /\ w \in Meaning /\ Means(e, scope) = BinaryMeans(e.symbol, v, w)
  BY <1>1, MeansDoes DEF MeansStep, MeaningsIn
<1>4. Means(e, scope).type # "none" =>
          /\ v.type # "none" /\ w.type # "none"
          /\ e.symbol = "=" => Means(e, scope) = Boolean(SameValue(v, w))
          /\ e.symbol = "+" => v.type = "int" /\ w.type = "int" /\ Means(e, scope) = Integer(v.data + w.data)
          /\ e.symbol = "||" => /\ v.type = "bool" /\ w.type = "bool" /\ v.data \in BOOLEAN
                                /\ Means(e, scope) = IF v.data THEN v ELSE w
  <2>. HIDE DEF v, w
  <2>. QED
    BY <1>1, <1>3, BinaryForms
<1>5. Reading(e, scope) = IF e.blanks # 1 \/ "wrong" \in {Reading(e.lhs, scope), Reading(e.rhs, scope)} THEN "wrong"
                          ELSE IF decided THEN "cut"
                          ELSE IF Reading(e.lhs, scope) = "cut" THEN "wrong"
                          ELSE Reading(e.rhs, scope)
  BY <1>1, ReadingDoes DEF ReadingStep, ReadingsIn
<1>6. /\ e.blanks = 1 /\ Reading(e.lhs, scope) # "wrong" /\ Reading(e.rhs, scope) # "wrong"
      /\ decided => Reading(e, scope) = "cut"
      /\ ~decided => Reading(e.lhs, scope) = "whole" /\ Reading(e, scope) = Reading(e.rhs, scope)
  <2>1. Reading(e.lhs, scope) \in {"whole", "cut", "wrong"}
    BY <1>1, ReadingDoes DEF Readings
  <2>. HIDE DEF decided
  <2>. QED
    BY <1>5, <2>1
<1>7. OperatorChar(e) = IF e.symbol = "||" THEN "|" ELSE e.symbol
  BY <1>6 DEF OperatorChar
<1>8. tokens[at + 1] \notin BuiltinMap /\ tokens[there] \notin BuiltinMap
  BY <1>1, <1>2, <1>6, NoBuiltinFirst
<1>9. at + 1 \in Nat \ {0} /\ there \in Nat \ {0} /\ there + n = at + size
  <2>1. m \in Nat \ {0} /\ n \in Nat \ {0} /\ size = 1 + m + n
    BY <1>2
  <2>. HIDE DEF size, m, n
  <2>. QED
    BY <2>1
<1>10. IsWorth(lhs, e.lhs, scope) /\ TakesAll(lhs, e.lhs, at + 1, scope)
  <2>1. lhs = EvaluationExpression(tokens, at + 1, scopes, scope)
    BY DEF Calls
  <2>2. NoBuiltinAt(tokens, there)
    BY <1>8 DEF NoBuiltinAt
  <2>3. at + 1 \in Nat \ {0} /\ Fits(ParseExpression[e.lhs], tokens, at + 1)
    BY <1>2
  <2>. QED
    BY <1>6, <2>1, <2>2, <2>3 DEF EvaluatesAt
<1>11. IsWorth(rhs, e.rhs, scope) /\ TakesAll(rhs, e.rhs, there, scope)
  <2>1. rhs = EvaluationExpression(tokens, there, scopes, scope)
    BY <1>9 DEF Calls
  <2>2. NoBuiltinAt(tokens, there + n)
    BY <1>9
  <2>3. there \in Nat \ {0} /\ Fits(ParseExpression[e.rhs], tokens, there)
    BY <1>2, <1>9
  <2>. HIDE DEF there
  <2>. QED
    BY <1>6, <2>1, <2>2, <2>3 DEF EvaluatesAt
<1>a. /\ v.type # "none" => ~lhs.fails /\ lhs.value = v
      /\ Reading(e.lhs, scope) = "whole" /\ ~lhs.fails => lhs.at = there
  BY <1>10 DEF IsWorth, TakesAll
<1>b. /\ w.type # "none" => ~rhs.fails /\ rhs.value = w
      /\ Reading(e.rhs, scope) = "whole" /\ ~rhs.fails => rhs.at = at + size
  BY <1>9, <1>11 DEF IsWorth, TakesAll
<1>c. decided <=> e.symbol = "||" /\ ~(v.type = "bool" /\ v.data = FALSE)
  BY ScalarTypes DEF SameValue
<1>. HIDE DEF calls, size, m, n, v, w, there, decided
<1>12. r = EvaluateOperator(tokens[at], lhs, calls[lhs.at])
  <2>1. r = CallStep(calls, at, tokens, scopes, scope)
    BY EvaluationExpressionDoes DEF calls
  <2>2. tokens[at] \in OperatorMap
    BY <1>1, <1>2, <1>7 DEF OperatorMap
  <2>3. at < Len(tokens)
    BY <1>2
  <2>. QED
    BY <1>2, <1>8, <2>1, <2>2, <2>3 DEF CallStep
<1>. HIDE DEF lhs, rhs, r
<1>13. ASSUME Means(e, scope).type # "none" PROVE ~r.fails /\ r.value = Means(e, scope)
  <2>1. ~lhs.fails /\ lhs.value = v /\ ~rhs.fails /\ rhs.value = w
    BY <1>4, <1>13, <1>a, <1>b
  <2>2. CASE decided
    <3>1. e.symbol = "||" /\ v.type = "bool" /\ v.data = TRUE
      BY <1>4, <1>13, <1>c, <2>2
    <3>2. r = lhs
      BY <1>2, <1>7, <1>12, <2>1, <3>1 DEF EvaluateOperator
    <3>. QED
      BY <1>4, <1>13, <2>1, <3>1, <3>2
  <2>3. CASE ~decided
    <3>1. r = EvaluateOperator(tokens[at], lhs, rhs)
      BY <1>6, <1>12, <1>a, <2>1, <2>3 DEF rhs
    <3>2. CASE e.symbol = "="
      <4>1. r = Value(Means(e, scope), rhs.at)
        BY <1>2, <1>4, <1>7, <1>13, <2>1, <3>1, <3>2 DEF EvaluateOperator
      <4>. QED
        BY <4>1, ResultFields
    <3>3. CASE e.symbol = "+"
      <4>1. r = Value(Means(e, scope), rhs.at)
        BY <1>2, <1>4, <1>7, <1>13, <2>1, <3>1, <3>3 DEF EvaluateOperator
      <4>. QED
        BY <4>1, ResultFields
    <3>4. CASE e.symbol = "||"
      <4>1. v.type = "bool" /\ v.data = FALSE /\ w.type = "bool" /\ Means(e, scope) = w
        BY <1>4, <1>13, <1>c, <2>3, <3>4
      <4>2. r = rhs
        BY <1>2, <1>7, <2>1, <3>1, <3>4, <4>1 DEF EvaluateOperator
      <4>. QED
        BY <2>1, <4>1, <4>2
    <3>. QED
      BY <1>1, <3>2, <3>3, <3>4
  <2>. QED
    BY <2>2, <2>3
<1>14. ASSUME Reading(e, scope) = "whole", ~r.fails PROVE r.at = at + size
  <2>1. ~decided /\ Reading(e.lhs, scope) = "whole" /\ Reading(e.rhs, scope) = "whole"
    BY <1>6, <1>14
  <2>2. ~lhs.fails
    BY <1>1, <1>2, <1>7, <1>12, <1>14, ResultFields DEF EvaluateOperator
  <2>3. r = EvaluateOperator(tokens[at], lhs, rhs)
    BY <1>12, <1>a, <2>1, <2>2 DEF rhs
  <2>4. e.symbol = "||" => lhs.value.data = FALSE
    BY <1>a, <1>c, <2>1
  <2>5. ~rhs.fails /\ r.at = rhs.at
    <3>1. CASE e.symbol = "="
      BY <1>2, <1>7, <1>14, <2>2, <2>3, <3>1, ResultFields DEF EvaluateOperator
    <3>2. CASE e.symbol = "+"
      BY <1>2, <1>7, <1>14, <2>2, <2>3, <3>2, ResultFields DEF EvaluateOperator
    <3>3. CASE e.symbol = "||"
      <4>1. tokens[at] = "|"
        BY <1>2, <1>7, <3>3
      <4>2. r = rhs \/ r = Failure
        BY <2>2, <2>3, <2>4, <3>3, <4>1 DEF EvaluateOperator
      <4>. QED
        BY <1>14, <4>2, ResultFields
    <3>. QED
      BY <1>1, <3>1, <3>2, <3>3
  <2>. QED
    BY <1>b, <2>1, <2>5
<1>. QED
  BY <1>13, <1>14 DEF IsWorth, TakesAll, r, size

\* So does every expression.
LEMMA EveryTermEvaluates ==
  ASSUME NEW tokens, Len(tokens) \in Nat, NEW scopes, NEW scope \in Range(scopes), IsScope(scope)
  PROVE  \A e \in Terms : EvaluatesAt(e, tokens, scopes, scope)
<1>. DEFINE S == {e \in Terms : EvaluatesAt(e, tokens, scopes, scope)}
<1>1. ASSUME NEW e \in Terms, TermParts[e] \subseteq S PROVE e \in S
  <2>1. CASE e.form = "leaf"
    BY <2>1, LeafEvaluates
  <2>2. CASE e.form = "builtin"
    BY <2>2, BuiltinEvaluates
  <2>3. CASE e.form = "not"
    <3>1. EvaluatesAt(e.operand, tokens, scopes, scope)
      BY <1>1, <2>3, TermForms
    <3>. QED
      BY <2>3, <3>1, NotEvaluates
  <2>4. CASE e.form = "binary"
    <3>1. EvaluatesAt(e.lhs, tokens, scopes, scope) /\ EvaluatesAt(e.rhs, tokens, scopes, scope)
      BY <1>1, <2>4, TermForms
    <3>. QED
      BY <2>4, <3>1, BinaryEvaluates
  <2>. QED
    BY <2>1, <2>2, <2>3, <2>4, TermForms
<1>. HIDE DEF S
<1>2. Terms \subseteq S
  BY <1>1, TermTree, TreeInduction
<1>. QED
  BY <1>2 DEF S

\* The answer is that of some guard in the scope at some depth of some stack.
Asked ==
    answer # NoAnswer =>
        \E guard \in Terms, scopes \in Stacks : \E depth \in DOMAIN scopes :
            answer = [asked |-> guard, scope |-> scopes[depth],
                      result |-> EvaluationExpression(ParseExpression[guard], 1, scopes, scopes[depth])]

LEMMA AskedIsInvariant == ExpressionsSpec => []Asked
<1>1. answer = NoAnswer => Asked
  BY DEF Asked
<1>2. Asked /\ [ExpressionsNext]_answer => Asked'
  <2>. SUFFICES ASSUME Asked, [ExpressionsNext]_answer PROVE Asked'
    OBVIOUS
  <2>1. CASE UNCHANGED answer
    BY <2>1 DEF Asked
  <2>2. CASE ExpressionsNext
    BY <2>2 DEF ExpressionsNext, Evaluate, Asked
  <2>. QED
    BY <2>1, <2>2
<1>. QED
  BY <1>1, <1>2, PTL DEF ExpressionsSpec

LEMMA AskedIsAsWritten == Asked => EvaluatesAsWritten
<1>. SUFFICES ASSUME Asked, answer # NoAnswer, Reading(answer.asked, answer.scope) # "wrong"
              PROVE  /\ Means(answer.asked, answer.scope).type # "none"
                            => ~answer.result.fails /\ answer.result.value = Means(answer.asked, answer.scope)
                     /\ Reading(answer.asked, answer.scope) = "whole" /\ ~answer.result.fails
                            => answer.result.at = Len(ParseExpression[answer.asked]) + 1
  BY DEF EvaluatesAsWritten
<1>1. PICK guard \in Terms, scopes \in Stacks : \E depth \in DOMAIN scopes :
          answer = [asked |-> guard, scope |-> scopes[depth],
                    result |-> EvaluationExpression(ParseExpression[guard], 1, scopes, scopes[depth])]
  BY DEF Asked
<1>2. PICK depth \in DOMAIN scopes :
          answer = [asked |-> guard, scope |-> scopes[depth],
                    result |-> EvaluationExpression(ParseExpression[guard], 1, scopes, scopes[depth])]
  BY <1>1
<1>. DEFINE scope == scopes[depth]
            tokens == ParseExpression[guard]
            r == EvaluationExpression(tokens, 1, scopes, scope)
<1>3. answer.asked = guard /\ answer.scope = scope /\ answer.result = r
  BY <1>2
<1>4. scope \in Range(scopes)
  BY <1>2 DEF Range
<1>5. IsScope(scope)
  BY <1>1, <1>2, StacksAssumption DEF IsScope
<1>6. tokens \in Seq(Token) /\ Len(tokens) \in Nat
  BY <1>1, FirstToken
<1>. HIDE DEF scope, tokens
<1>7. EvaluatesAt(guard, tokens, scopes, scope)
  BY <1>1, <1>4, <1>5, <1>6, EveryTermEvaluates
<1>8. Fits(tokens, tokens, 1) /\ NoBuiltinAt(tokens, 1 + Len(tokens))
  <2>1. \A i \in 1..Len(tokens) : (1 - 1) + i = i
    BY <1>6
  <2>. QED
    BY <1>6, <2>1 DEF Fits, NoBuiltinAt
<1>9. IsWorth(r, guard, scope) /\ TakesAll(r, guard, 1, scope)
  <2>1. ParseExpression[guard] = tokens /\ 1 \in Nat \ {0}
    BY DEF tokens
  <2>. QED
    BY <1>3, <1>7, <1>8, <2>1 DEF EvaluatesAt
<1>10. ParseExpression[guard] = tokens /\ 1 + Len(tokens) = Len(tokens) + 1
  BY <1>6 DEF tokens
<1>. HIDE DEF r
<1>. QED
  BY <1>3, <1>9, <1>10 DEF IsWorth, TakesAll

\* For any expressions, scopes and stacks of them: a guard of names, sizes of
\* lists and maps, and operators whose operands are each read where they begin
\* evaluates to what it means, however deep it is nested; and one of which all
\* tokens have to be taken leaves none of them, whatever the placeholder values
\* of its contains and upfrom (parseExpression,
\* EnvironmentMgr::evaluationExpression).
THEOREM EvaluatesCorrect == ExpressionsSpec => []EvaluatesAsWritten
  BY AskedIsInvariant, AskedIsAsWritten, PTL

\* Numbers up to n, each with a value that step makes from the one before.
AreStepsFrom(f, v, n, V, step) ==
    f \in [0..n -> V] /\ f[0] = v /\ \A i \in 1..n : f[i] = step[<<i, f[i - 1]>>]

Makes(step, n, V) == step \in [(1..n) \X V -> V]

LEMMA StepsExist ==
  ASSUME NEW n \in Nat, NEW V, NEW v \in V, NEW step, Makes(step, n, V)
  PROVE  \E f : AreStepsFrom(f, v, n, V, step)
<1>. USE DEF Makes
<1>. DEFINE T == 0..n
            height == [i \in T |-> i]
            parts == [i \in T |-> IF i = 0 THEN {} ELSE {i - 1}]
            next == [x \in T \X [T -> V] |-> IF x[1] = 0 THEN v ELSE step[<<x[1], x[2][x[1] - 1]>>]]
<1>1. IsTree(T, height, parts)
  BY DEF IsTree
<1>2. \A i \in T, f \in [T -> V] : next[<<i, f>>] = IF i = 0 THEN v ELSE step[<<i, f[i - 1]>>]
  OBVIOUS
<1>3. IsStep(T, parts, V, next)
  <2>1. ASSUME NEW i \in T, NEW f \in [T -> V]
        PROVE  (IF i = 0 THEN v ELSE step[<<i, f[i - 1]>>]) \in V
    <3>1. CASE i = 0
      BY <3>1
    <3>2. CASE i # 0
      <4>1. i \in 1..n /\ f[i - 1] \in V
        BY <3>2
      <4>. QED
        BY <3>2, <4>1
    <3>. QED
      BY <3>1, <3>2
  <2>2. next \in [T \X [T -> V] -> V]
    <3>. HIDE DEF T
    <3>. QED
      BY <2>1
  <2>3. ASSUME NEW i \in T, NEW f \in [T -> V], NEW g \in [T -> V], \A p \in parts[i] : f[p] = g[p]
        PROVE  next[<<i, f>>] = next[<<i, g>>]
    <3>1. i # 0 => f[i - 1] = g[i - 1]
      BY <2>3
    <3>. HIDE DEF T, next
    <3>. QED
      BY <1>2, <3>1
  <2>. HIDE DEF T, next, parts
  <2>. QED
    BY <2>2, <2>3 DEF IsStep
<1>. HIDE DEF T, height, parts, next
<1>4. PICK f \in [T -> V] : f = [i \in T |-> next[<<i, f>>]]
  BY <1>1, <1>3, Recursion
<1>5. ASSUME NEW i \in T PROVE f[i] = IF i = 0 THEN v ELSE step[<<i, f[i - 1]>>]
  <2>1. f[i] = next[<<i, f>>]
    BY <1>4
  <2>. QED
    BY <1>2, <2>1
<1>6. 0 \in T /\ \A i \in 1..n : i \in T /\ i # 0
  BY DEF T
<1>. QED
  BY <1>5, <1>6 DEF T, AreStepsFrom

-----------------------------------------------------------------------------
(* The nodes that parseRules makes                                         *)

\* What rules and nodes hold.
RuleType == {rule.type : rule \in Items}
RuleData == {Data(rule) : rule \in Items}
Key == UNION {{BodiesOf(rule)[k].key : k \in DOMAIN BodiesOf(rule)} : rule \in Items}
Node == [type : RuleType, data : RuleData, next : Nat, parent : Nat,
         children : Seq([key : Key, child : Nat])]

\* Nodes by their numbers, and what calls return.
NodeMap == UNION {[D -> Node] : D \in SUBSET Nat}
Outcome == {"ok", "throws", "undefined"}
Call == [nodes : NodeMap, last : Nat, outcome : Outcome]
Body == [nodes : NodeMap, last : Nat, outcome : Outcome, first : Nat, prev : Nat]
Parser == [Items -> [Nat -> Call]]

LEMMA NodeMapElements ==
  ASSUME NEW f \in NodeMap
  PROVE  DOMAIN f \subseteq Nat /\ \A n \in DOMAIN f : f[n] \in Node
<1>1. PICK D \in SUBSET Nat : f \in [D -> Node]
  BY DEF NodeMap
<1>. HIDE DEF Node
<1>. QED
  BY <1>1

\* The entries of a match.
LEMMA MatchEntries ==
  ASSUME NEW rule \in Items, rule.type = "match"
  PROVE  /\ Len(rule.entries) \in Nat /\ DOMAIN rule.entries = 1..Len(rule.entries)
         /\ \A k \in DOMAIN rule.entries :
               rule.entries[k].guard \in Terms /\ rule.entries[k].body \in Seq(Items)
<1>. DEFINE E == [guard : Terms, body : Seq(Items)]
            entries == rule.entries
<1>1. \A e \in E : e.guard \in Terms /\ e.body \in Seq(Items)
  OBVIOUS
<1>2. entries \in Seq(E)
  BY ItemsAssumption
<1>. HIDE DEF E, entries
<1>3. Len(entries) \in Nat /\ DOMAIN entries = 1..Len(entries)
  BY <1>2, LenProperties
<1>4. \A k \in DOMAIN entries : entries[k] \in E
  BY <1>2, <1>3, ElementOfSeq
<1>. QED
  BY <1>1, <1>3, <1>4 DEF entries

\* The bodies of rules, and what is in them.
LEMMA BodiesOfItems ==
  ASSUME NEW rule \in Items
  PROVE  /\ Len(BodiesOf(rule)) \in Nat /\ DOMAIN BodiesOf(rule) = 1..Len(BodiesOf(rule))
         /\ \A k \in DOMAIN BodiesOf(rule) :
               /\ BodiesOf(rule)[k].body \in Seq(Items) /\ BodiesOf(rule)[k].key \in Key
               /\ Range(BodiesOf(rule)[k].body) \subseteq Nested(rule)
<1>1. \A k \in DOMAIN BodiesOf(rule) : BodiesOf(rule)[k].key \in Key
  BY DEF Key
<1>. DEFINE bodies == BodiesOf(rule)
<1>2. CASE rule.type = "match"
  <2>. DEFINE entries == rule.entries
  <2>1. /\ DOMAIN entries = 1..Len(entries) /\ Len(entries) \in Nat
        /\ \A k \in DOMAIN entries : entries[k].body \in Seq(Items)
    BY <1>2, MatchEntries
  <2>2. bodies = [k \in DOMAIN entries |-> [key |-> ParseExpression[entries[k].guard], body |-> entries[k].body]]
    BY <1>2 DEF BodiesOf
  <2>3. Nested(rule) = UNION {Range(entries[k].body) : k \in DOMAIN entries}
    BY <1>2 DEF Nested
  <2>. HIDE DEF entries, bodies
  <2>6. /\ DOMAIN bodies = DOMAIN entries /\ \A k \in DOMAIN entries : bodies[k].body = entries[k].body
        /\ bodies = [k \in DOMAIN bodies |-> bodies[k]]
    BY <2>2
  <2>7. Len(bodies) = Len(entries)
    BY <2>1, <2>6, MadeSeq
  <2>8. \A k \in DOMAIN entries : Range(entries[k].body) \subseteq Nested(rule)
    BY <2>3
  <2>. QED
    BY <1>1, <2>1, <2>6, <2>7, <2>8 DEF bodies
<1>3. CASE rule.type # "match" /\ rule.type \in LoopRules
  <2>1. rule.body \in Seq(Items) /\ Nested(rule) = Range(rule.body)
    BY <1>3, ItemsAssumption DEF Nested
  <2>2. bodies = <<[key |-> <<"true">>, body |-> rule.body]>>
    BY <1>3 DEF BodiesOf
  <2>3. Len(bodies) = 1 /\ DOMAIN bodies = 1..1 /\ bodies[1].body = rule.body
    BY <2>2
  <2>4. \A k \in 1..1 : k = 1
    OBVIOUS
  <2>. HIDE DEF bodies
  <2>. QED
    BY <1>1, <2>1, <2>3, <2>4 DEF bodies
<1>4. CASE rule.type # "match" /\ rule.type \notin LoopRules
  <2>1. bodies = <<>>
    BY <1>4 DEF BodiesOf
  <2>2. Len(bodies) = 0 /\ DOMAIN bodies = 1..0 /\ 1..0 = {}
    BY <2>1
  <2>. HIDE DEF bodies
  <2>. QED
    BY <1>1, <2>2 DEF bodies
<1>. QED
  BY <1>2, <1>3, <1>4

NestedParts == [rule \in Items |-> Nested(rule)]

LEMMA NestedTree == IsTree(Items, Nesting, NestedParts)
<1>1. ASSUME NEW rule \in Items, NEW part \in Nested(rule) PROVE part \in Items
  <2>1. CASE rule.type = "match"
    <3>1. PICK k \in DOMAIN rule.entries : part \in Range(rule.entries[k].body)
      BY <1>1, <2>1 DEF Nested
    <3>2. rule.entries[k].body \in Seq(Items)
      BY <2>1, <3>1, MatchEntries
    <3>. QED
      BY <3>1, <3>2, ElementOfSeq, LenProperties DEF Range
  <2>2. CASE rule.type # "match"
    <3>1. rule.type \in LoopRules /\ part \in Range(rule.body)
      BY <1>1, <2>2 DEF Nested
    <3>2. rule.body \in Seq(Items)
      BY <3>1, ItemsAssumption
    <3>. QED
      BY <3>1, <3>2, ElementOfSeq, LenProperties DEF Range
  <2>. QED
    BY <2>1, <2>2
<1>2. NestedParts \in [Items -> SUBSET Items]
  BY <1>1 DEF NestedParts
<1>3. \A rule \in Items : \A part \in NestedParts[rule] : Nesting[part] < Nesting[rule]
  BY ItemsAssumption DEF NestedParts
<1>. QED
  BY <1>2, <1>3, ItemsAssumption DEF IsTree

\* The fields of a node after a change of one.
LEMMA NodeFields ==
  ASSUME NEW node \in Node
  PROVE  /\ \A p \in Nat :
               /\ [node EXCEPT !.parent = p] \in Node
               /\ [node EXCEPT !.parent = p].parent = p
               /\ [node EXCEPT !.parent = p].next = node.next
               /\ [node EXCEPT !.parent = p].type = node.type
               /\ [node EXCEPT !.parent = p].data = node.data
               /\ [node EXCEPT !.parent = p].children = node.children
         /\ \A m \in Nat :
               /\ [node EXCEPT !.next = m] \in Node
               /\ [node EXCEPT !.next = m].parent = node.parent
               /\ [node EXCEPT !.next = m].next = m
               /\ [node EXCEPT !.next = m].type = node.type
               /\ [node EXCEPT !.next = m].data = node.data
               /\ [node EXCEPT !.next = m].children = node.children
         /\ \A c \in [key : Key, child : Nat] :
               /\ [node EXCEPT !.children = Append(@, c)] \in Node
               /\ [node EXCEPT !.children = Append(@, c)].parent = node.parent
               /\ [node EXCEPT !.children = Append(@, c)].next = node.next
               /\ [node EXCEPT !.children = Append(@, c)].type = node.type
               /\ [node EXCEPT !.children = Append(@, c)].data = node.data
               /\ [node EXCEPT !.children = Append(@, c)].children = Append(node.children, c)
<1>. DEFINE C == [key : Key, child : Nat]
<1>1. \A c \in C : Append(node.children, c) \in Seq(C)
  <2>1. node.children \in Seq(C)
    BY DEF Node
  <2>. HIDE DEF C
  <2>. QED
    BY <2>1, AppendProperties
<1>. QED
  BY <1>1 DEF Node

\* Nodes of two calls.
LEMMA BothIs ==
  ASSUME NEW f \in NodeMap, NEW g \in NodeMap
  PROVE  /\ DOMAIN Both(f, g) = DOMAIN f \cup DOMAIN g
         /\ \A n \in DOMAIN f : Both(f, g)[n] = f[n]
         /\ \A n \in DOMAIN g \ DOMAIN f : Both(f, g)[n] = g[n]
         /\ \A n \in DOMAIN Both(f, g) : n \in Nat /\ Both(f, g)[n] \in Node
<1>1. /\ DOMAIN f \subseteq Nat /\ \A n \in DOMAIN f : f[n] \in Node
      /\ DOMAIN g \subseteq Nat /\ \A n \in DOMAIN g : g[n] \in Node
  BY NodeMapElements
<1>. QED
  BY <1>1 DEF Both

\* What r says of the nodes of b and made once the node id is linked.
IsLinked(r, b, made, parent) ==
    LET id == b.last + 1
        nodes == Both(b.nodes, made.nodes)
    IN  /\ r \in Body /\ r.last = made.last /\ r.outcome = made.outcome /\ r.prev = id
        /\ r.first = IF b.first = Null THEN id ELSE b.first
        /\ DOMAIN r.nodes = DOMAIN nodes
        /\ \A n \in DOMAIN nodes :
              /\ n # id /\ n # b.prev => r.nodes[n] = nodes[n]
              /\ r.nodes[n].type = nodes[n].type /\ r.nodes[n].data = nodes[n].data
              /\ r.nodes[n].children = nodes[n].children
              /\ r.nodes[n].parent = IF n = id THEN parent ELSE nodes[n].parent
              /\ r.nodes[n].next = IF n # id /\ n = b.prev THEN id ELSE nodes[n].next

LEMMA LinkDoes ==
  ASSUME NEW b \in Body, NEW made \in Call, NEW parent \in Nat
  PROVE  IsLinked(Link(b, made, parent), b, made, parent)
<1>. DEFINE id == b.last + 1
            nodes == Both(b.nodes, made.nodes)
            new(n) == IF n = id THEN [nodes[n] EXCEPT !.parent = parent]
                      ELSE IF n = b.prev THEN [nodes[n] EXCEPT !.next = id] ELSE nodes[n]
            linked == [n \in DOMAIN nodes |-> new(n)]
            start == IF b.first = Null THEN id ELSE b.first
<1>1. /\ b.nodes \in NodeMap /\ b.last \in Nat /\ b.first \in Nat /\ b.prev \in Nat
      /\ made.nodes \in NodeMap /\ made.last \in Nat /\ made.outcome \in Outcome
  BY DEF Body, Call
<1>2. id \in Nat /\ start \in Nat
  BY <1>1 DEF Null
<1>3. \A n \in DOMAIN nodes : n \in Nat /\ nodes[n] \in Node
  BY <1>1, BothIs
<1>. HIDE DEF nodes
<1>4. ASSUME NEW n \in DOMAIN nodes
      PROVE  /\ new(n) \in Node
             /\ n # id /\ n # b.prev => new(n) = nodes[n]
             /\ new(n).type = nodes[n].type /\ new(n).data = nodes[n].data
             /\ new(n).children = nodes[n].children
             /\ new(n).parent = IF n = id THEN parent ELSE nodes[n].parent
             /\ new(n).next = IF n # id /\ n = b.prev THEN id ELSE nodes[n].next
  <2>. DEFINE node == nodes[n]
              a == [node EXCEPT !.parent = parent]
              c == [node EXCEPT !.next = id]
  <2>1. node \in Node
    BY <1>3
  <2>2. /\ a \in Node /\ a.parent = parent /\ a.next = node.next
        /\ a.type = node.type /\ a.data = node.data /\ a.children = node.children
        /\ c \in Node /\ c.parent = node.parent /\ c.next = id
        /\ c.type = node.type /\ c.data = node.data /\ c.children = node.children
    BY <1>2, <2>1, NodeFields
  <2>3. new(n) = IF n = id THEN a ELSE IF n = b.prev THEN c ELSE node
    OBVIOUS
  <2>. HIDE DEF new, a, c, id
  <2>. QED
    BY <2>1, <2>2, <2>3
<1>5. linked \in NodeMap
  <2>1. DOMAIN nodes \in SUBSET Nat /\ linked \in [DOMAIN nodes -> Node]
    <3>. HIDE DEF new
    <3>. QED
      BY <1>3, <1>4
  <2>. HIDE DEF linked
  <2>. QED
    BY <2>1 DEF NodeMap
<1>6. Link(b, made, parent) = [nodes |-> linked, last |-> made.last, outcome |-> made.outcome,
                               first |-> start, prev |-> id]
  BY DEF Link, LinkBehind, nodes
<1>7. DOMAIN linked = DOMAIN nodes /\ \A n \in DOMAIN nodes : linked[n] = new(n)
  OBVIOUS
<1>. HIDE DEF linked, new, start
<1>8. Link(b, made, parent) \in Body
  BY <1>1, <1>2, <1>5, <1>6 DEF Body
<1>. DEFINE r == Link(b, made, parent)
<1>9. r.nodes = linked /\ r.last = made.last /\ r.outcome = made.outcome /\ r.first = start /\ r.prev = id
  BY <1>6
<1>10. start = IF b.first = Null THEN id ELSE b.first
  BY DEF start
<1>. HIDE DEF r, id
<1>11. r \in Body
  BY <1>8 DEF r
<1>12. IsLinked(r, b, made, parent)
  BY <1>4, <1>7, <1>9, <1>10, <1>11 DEF IsLinked, nodes, id
<1>. QED
  BY <1>12 DEF r

NoNodes(at) == [nodes |-> <<>>, last |-> at, outcome |-> "ok", first |-> Null, prev |-> Null]

LEMMA NoNodesType ==
  ASSUME NEW at \in Nat
  PROVE  NoNodes(at) \in Body /\ <<>> \in NodeMap /\ DOMAIN <<>> = {}
<1>1. <<>> \in [{} -> Node] /\ {} \in SUBSET Nat
  OBVIOUS
<1>2. <<>> \in NodeMap
  BY <1>1 DEF NodeMap
<1>. QED
  BY <1>2 DEF NoNodes, Body, Outcome, Null

LEMMA AddItemType ==
  ASSUME NEW b \in Body, NEW item \in Items, NEW parent \in Nat, NEW parser \in Parser
  PROVE  AddItem(b, item, parent, parser) \in Body
<1>1. parser[item][b.last] \in Call
  BY DEF Body, Parser
<1>. QED
  BY <1>1, LinkDoes DEF AddItem, IsLinked

\* The body after each of its children.
AreBodies(body, items, at, parent, parser) ==
    /\ body \in [0..Len(items) -> Body] /\ body[0] = NoNodes(at)
    /\ \A n \in 1..Len(items) : body[n] = AddItem(body[n - 1], items[n], parent, parser)
    /\ ParseControlBody(items, at, parent, parser) = body[Len(items)]

LEMMA ParseControlBodyDoes ==
  ASSUME NEW items \in Seq(Items), NEW at \in Nat, NEW parent \in Nat, NEW parser \in Parser
  PROVE  \E body : AreBodies(body, items, at, parent, parser)
<1>. DEFINE N == Len(items)
            step == [x \in (1..N) \X Body |-> AddItem(x[2], items[x[1]], parent, parser)]
            Is(f) == f = [n \in 0..N |-> IF n = 0 THEN NoNodes(at)
                                         ELSE AddItem(f[n - 1], items[n], parent, parser)]
<1>0. NoNodes(at) \in Body
  BY NoNodesType
<1>1. N \in Nat /\ \A n \in 1..N : items[n] \in Items
  BY LenProperties, ElementOfSeq
<1>2. \A n \in 1..N, b \in Body : step[<<n, b>>] = AddItem(b, items[n], parent, parser)
  OBVIOUS
<1>3. step \in [(1..N) \X Body -> Body]
  BY <1>1, AddItemType
<1>. HIDE DEF step, N
<1>4. PICK f : AreStepsFrom(f, NoNodes(at), N, Body, step)
  BY <1>0, <1>1, <1>3, StepsExist DEF Makes
<1>5. ASSUME NEW n \in 0..N
      PROVE  f[n] = IF n = 0 THEN NoNodes(at) ELSE AddItem(f[n - 1], items[n], parent, parser)
  <2>1. n # 0 => n \in 1..N /\ f[n - 1] \in Body
    BY <1>1, <1>4 DEF AreStepsFrom
  <2>2. f[0] = NoNodes(at) /\ (n # 0 => f[n] = step[<<n, f[n - 1]>>])
    BY <1>4, <2>1 DEF AreStepsFrom
  <2>3. n # 0 => step[<<n, f[n - 1]>>] = AddItem(f[n - 1], items[n], parent, parser)
    BY <1>2, <2>1
  <2>. QED
    BY <2>2, <2>3
<1>6. f = [n \in 0..N |-> IF n = 0 THEN NoNodes(at) ELSE AddItem(f[n - 1], items[n], parent, parser)]
  <2>1. f = [n \in 0..N |-> f[n]]
    BY <1>4 DEF AreStepsFrom
  <2>. QED
    BY <1>5, <2>1
<1>7. Is(f)
  BY <1>6
<1>. DEFINE body == CHOOSE g : Is(g)
<1>8. Is(body)
  <2>. HIDE DEF Is
  <2>. QED
    BY <1>7
<1>9. ParseControlBody(items, at, parent, parser) = body[N]
  BY DEF ParseControlBody, NoNodes, N
<1>. HIDE DEF body
<1>10. /\ body[0] = NoNodes(at)
       /\ \A n \in 1..N : body[n] = AddItem(body[n - 1], items[n], parent, parser)
       /\ body = [n \in 0..N |-> body[n]]
  <2>1. body = [n \in 0..N |-> IF n = 0 THEN NoNodes(at) ELSE AddItem(body[n - 1], items[n], parent, parser)]
    BY <1>8
  <2>2. \A n \in 1..N : n \in 0..N /\ n # 0
    OBVIOUS
  <2>3. 0 \in 0..N
    BY <1>1
  <2>. QED
    BY <2>1, <2>2, <2>3
<1>. DEFINE Good == {n \in 0..N : body[n] \in Body}
<1>11. 0..N \subseteq Good
  <2>1. 0 \in Good
    BY <1>0, <1>1, <1>10
  <2>2. ASSUME NEW n \in 1..N, n - 1 \in Good PROVE n \in Good
    <3>1. body[n] = AddItem(body[n - 1], items[n], parent, parser)
      BY <1>10
    <3>2. body[n - 1] \in Body /\ items[n] \in Items
      BY <1>1, <2>2
    <3>3. body[n] \in Body
      BY <3>1, <3>2, AddItemType
    <3>. QED
      BY <1>1, <3>3
  <2>. HIDE DEF Good
  <2>. QED
    BY <1>1, <2>1, <2>2, Induction
<1>12. body \in [0..N -> Body]
  BY <1>10, <1>11
<1>. QED
  BY <1>9, <1>10, <1>12 DEF AreBodies, N

\* What r says of the nodes of made and body once body is hung under id.
IsHung(r, made, id, key, body) ==
    LET nodes == Both(made.nodes, body.nodes)
    IN  /\ r \in Call /\ r.last = body.last /\ r.outcome = body.outcome
        /\ DOMAIN r.nodes = DOMAIN nodes
        /\ \A n \in DOMAIN nodes :
              /\ n # id => r.nodes[n] = nodes[n]
              /\ r.nodes[n].type = nodes[n].type /\ r.nodes[n].data = nodes[n].data
              /\ r.nodes[n].parent = nodes[n].parent /\ r.nodes[n].next = nodes[n].next
              /\ r.nodes[n].children = IF n = id
                                       THEN Append(nodes[n].children, [key |-> key, child |-> body.first])
                                       ELSE nodes[n].children

LEMMA SetChildrenDoes ==
  ASSUME NEW made \in Call, NEW id \in Nat, NEW key \in Key, NEW body \in Body
  PROVE  IsHung(SetChildren(made, id, key, body), made, id, key, body)
<1>. DEFINE nodes == Both(made.nodes, body.nodes)
            child == [key |-> key, child |-> body.first]
            new(n) == IF n = id THEN [nodes[n] EXCEPT !.children = Append(@, child)] ELSE nodes[n]
            hung == [n \in DOMAIN nodes |-> new(n)]
<1>1. /\ made.nodes \in NodeMap /\ body.nodes \in NodeMap
      /\ body.last \in Nat /\ body.outcome \in Outcome /\ body.first \in Nat
  BY DEF Body, Call
<1>2. child \in [key : Key, child : Nat]
  BY <1>1
<1>3. \A n \in DOMAIN nodes : n \in Nat /\ nodes[n] \in Node
  BY <1>1, BothIs
<1>. HIDE DEF nodes, child
<1>4. ASSUME NEW n \in DOMAIN nodes
      PROVE  /\ new(n) \in Node
             /\ n # id => new(n) = nodes[n]
             /\ new(n).type = nodes[n].type /\ new(n).data = nodes[n].data
             /\ new(n).parent = nodes[n].parent /\ new(n).next = nodes[n].next
             /\ new(n).children = IF n = id THEN Append(nodes[n].children, child) ELSE nodes[n].children
  <2>. DEFINE node == nodes[n]
              a == [node EXCEPT !.children = Append(@, child)]
  <2>1. node \in Node
    BY <1>3
  <2>2. /\ a \in Node /\ a.parent = node.parent /\ a.next = node.next
        /\ a.type = node.type /\ a.data = node.data /\ a.children = Append(node.children, child)
    BY <1>2, <2>1, NodeFields
  <2>3. new(n) = IF n = id THEN a ELSE node
    OBVIOUS
  <2>. HIDE DEF new, a
  <2>. QED
    BY <2>1, <2>2, <2>3
<1>5. hung \in NodeMap
  <2>1. DOMAIN nodes \in SUBSET Nat /\ hung \in [DOMAIN nodes -> Node]
    <3>. HIDE DEF new
    <3>. QED
      BY <1>3, <1>4
  <2>. HIDE DEF hung
  <2>. QED
    BY <2>1 DEF NodeMap
<1>. DEFINE r == SetChildren(made, id, key, body)
<1>6. r = [nodes |-> hung, last |-> body.last, outcome |-> body.outcome]
  BY DEF SetChildren, nodes, child
<1>7. DOMAIN hung = DOMAIN nodes /\ \A n \in DOMAIN nodes : hung[n] = new(n)
  OBVIOUS
<1>. HIDE DEF hung, new, r
<1>8. r \in Call
  BY <1>1, <1>5, <1>6 DEF Call
<1>9. r.nodes = hung /\ r.last = body.last /\ r.outcome = body.outcome
  BY <1>6
<1>10. IsHung(r, made, id, key, body)
  BY <1>4, <1>7, <1>8, <1>9 DEF IsHung, nodes, child
<1>. QED
  BY <1>10 DEF r

LEMMA ParseControlBodyType ==
  ASSUME NEW items \in Seq(Items), NEW at \in Nat, NEW parent \in Nat, NEW parser \in Parser
  PROVE  ParseControlBody(items, at, parent, parser) \in Body
<1>1. PICK body : AreBodies(body, items, at, parent, parser)
  BY ParseControlBodyDoes
<1>2. Len(items) \in 0..Len(items)
  BY LenProperties
<1>. QED
  BY <1>1, <1>2 DEF AreBodies

\* A body is parsed alike by parsers that agree on what is in it.
LEMMA ParseControlBodyDepends ==
  ASSUME NEW items \in Seq(Items), NEW at, NEW parent, NEW parser, NEW other,
         \A item \in Range(items) : parser[item] = other[item]
  PROVE  ParseControlBody(items, at, parent, parser) = ParseControlBody(items, at, parent, other)
<1>. DEFINE N == Len(items)
            bodies(f, p) == [n \in 0..N |-> IF n = 0 THEN NoNodes(at)
                                            ELSE AddItem(f[n - 1], items[n], parent, p)]
            Is(f) == f = bodies(f, parser)
            IsToo(f) == f = bodies(f, other)
<1>1. N \in Nat /\ DOMAIN items = 1..N
  BY LenProperties
<1>2. ASSUME NEW n \in 1..N PROVE parser[items[n]] = other[items[n]]
  <2>1. items[n] \in Range(items)
    BY <1>1 DEF Range
  <2>. QED
    BY <2>1
<1>3. ASSUME NEW f PROVE bodies(f, parser) = bodies(f, other)
  <2>1. ASSUME NEW n \in 0..N, n # 0
        PROVE  AddItem(f[n - 1], items[n], parent, parser) = AddItem(f[n - 1], items[n], parent, other)
    <3>1. n \in 1..N
      BY <2>1
    <3>2. parser[items[n]] = other[items[n]]
      BY <1>2, <3>1
    <3>. QED
      BY <3>2 DEF AddItem
  <2>. QED
    BY <2>1
<1>4. ParseControlBody(items, at, parent, parser) = (CHOOSE f : Is(f))[N]
  BY DEF ParseControlBody, NoNodes
<1>5. ParseControlBody(items, at, parent, other) = (CHOOSE f : IsToo(f))[N]
  BY DEF ParseControlBody, NoNodes
<1>6. \A f : Is(f) <=> IsToo(f)
  BY <1>3
<1>. HIDE DEF Is, IsToo, N
<1>7. (CHOOSE f : Is(f)) = (CHOOSE f : IsToo(f))
  BY <1>6
<1>. QED
  BY <1>4, <1>5, <1>7

-----------------------------------------------------------------------------

LEMMA AddBodyType ==
  ASSUME NEW made \in Call, NEW id \in Nat, NEW rule \in Items, NEW k \in DOMAIN BodiesOf(rule),
         NEW parser \in Parser
  PROVE  AddBody(made, id, BodiesOf(rule)[k], parser) \in Call
<1>. DEFINE b == BodiesOf(rule)[k]
<1>1. b.body \in Seq(Items) /\ b.key \in Key
  BY BodiesOfItems
<1>2. made.last \in Nat
  BY DEF Call
<1>. HIDE DEF b
<1>3. ParseControlBody(b.body, made.last, id, parser) \in Body
  BY <1>1, <1>2, ParseControlBodyType
<1>4. SetChildren(made, id, b.key, ParseControlBody(b.body, made.last, id, parser)) \in Call
  BY <1>1, <1>3, SetChildrenDoes DEF IsHung
<1>. QED
  BY <1>4 DEF AddBody, b

\* The nodes of a rule after each of its bodies.
AreMade(made, node, id, rule, parser) ==
    /\ made \in [0..Len(BodiesOf(rule)) -> Call] /\ made[0] = node
    /\ \A k \in 1..Len(BodiesOf(rule)) :
          made[k] = AddBody(made[k - 1], id, BodiesOf(rule)[k], parser)
    /\ ParseBodies(node, id, BodiesOf(rule), parser) = made[Len(BodiesOf(rule))]

LEMMA ParseBodiesDoes ==
  ASSUME NEW node \in Call, NEW id \in Nat, NEW rule \in Items, NEW parser \in Parser
  PROVE  \E made : AreMade(made, node, id, rule, parser)
<1>. DEFINE bodies == BodiesOf(rule)
            N == Len(bodies)
            step == [x \in (1..N) \X Call |-> AddBody(x[2], id, bodies[x[1]], parser)]
            Is(f) == f = [k \in 0..N |-> IF k = 0 THEN node ELSE AddBody(f[k - 1], id, bodies[k], parser)]
<1>1. N \in Nat /\ DOMAIN bodies = 1..N
  BY BodiesOfItems
<1>2. \A k \in 1..N, c \in Call : step[<<k, c>>] = AddBody(c, id, bodies[k], parser)
  OBVIOUS
<1>3. step \in [(1..N) \X Call -> Call]
  BY <1>1, AddBodyType
<1>. HIDE DEF step, N
<1>4. PICK f : AreStepsFrom(f, node, N, Call, step)
  BY <1>1, <1>3, StepsExist DEF Makes
<1>5. ASSUME NEW k \in 0..N
      PROVE  f[k] = IF k = 0 THEN node ELSE AddBody(f[k - 1], id, bodies[k], parser)
  <2>1. k # 0 => k \in 1..N /\ f[k - 1] \in Call
    BY <1>1, <1>4 DEF AreStepsFrom
  <2>2. f[0] = node /\ (k # 0 => f[k] = step[<<k, f[k - 1]>>])
    BY <1>4, <2>1 DEF AreStepsFrom
  <2>3. k # 0 => step[<<k, f[k - 1]>>] = AddBody(f[k - 1], id, bodies[k], parser)
    BY <1>2, <2>1
  <2>. QED
    BY <2>2, <2>3
<1>6. f = [k \in 0..N |-> IF k = 0 THEN node ELSE AddBody(f[k - 1], id, bodies[k], parser)]
  <2>1. f = [k \in 0..N |-> f[k]]
    BY <1>4 DEF AreStepsFrom
  <2>. QED
    BY <1>5, <2>1
<1>7. Is(f)
  BY <1>6
<1>. DEFINE made == CHOOSE g : Is(g)
<1>8. Is(made)
  <2>. HIDE DEF Is
  <2>. QED
    BY <1>7
<1>9. ParseBodies(node, id, bodies, parser) = made[N]
  BY DEF ParseBodies, N
<1>. HIDE DEF made
<1>10. /\ made[0] = node
       /\ \A k \in 1..N : made[k] = AddBody(made[k - 1], id, bodies[k], parser)
       /\ made = [k \in 0..N |-> made[k]]
  <2>1. made = [k \in 0..N |-> IF k = 0 THEN node ELSE AddBody(made[k - 1], id, bodies[k], parser)]
    BY <1>8
  <2>2. \A k \in 1..N : k \in 0..N /\ k # 0
    OBVIOUS
  <2>3. 0 \in 0..N
    BY <1>1
  <2>. QED
    BY <2>1, <2>2, <2>3
<1>. DEFINE Good == {k \in 0..N : made[k] \in Call}
<1>11. 0..N \subseteq Good
  <2>1. 0 \in Good
    BY <1>1, <1>10
  <2>2. ASSUME NEW k \in 1..N, k - 1 \in Good PROVE k \in Good
    <3>1. made[k] = AddBody(made[k - 1], id, bodies[k], parser)
      BY <1>10
    <3>2. made[k - 1] \in Call /\ k \in DOMAIN bodies
      BY <1>1, <2>2
    <3>3. made[k] \in Call
      BY <3>1, <3>2, AddBodyType
    <3>. QED
      BY <1>1, <3>3
  <2>. HIDE DEF Good
  <2>. QED
    BY <1>1, <2>1, <2>2, Induction
<1>12. made \in [0..N -> Call]
  BY <1>10, <1>11
<1>. QED
  BY <1>9, <1>10, <1>12 DEF AreMade, N

\* The bodies of a rule are parsed alike by parsers that agree on what is in them.
LEMMA ParseBodiesDepends ==
  ASSUME NEW node, NEW id, NEW rule \in Items, NEW parser, NEW other,
         \A item \in Nested(rule) : parser[item] = other[item]
  PROVE  ParseBodies(node, id, BodiesOf(rule), parser) = ParseBodies(node, id, BodiesOf(rule), other)
<1>. DEFINE bodies == BodiesOf(rule)
            N == Len(bodies)
            calls(f, p) == [k \in 0..N |-> IF k = 0 THEN node ELSE AddBody(f[k - 1], id, bodies[k], p)]
            Is(f) == f = calls(f, parser)
            IsToo(f) == f = calls(f, other)
<1>1. /\ N \in Nat /\ DOMAIN bodies = 1..N
      /\ \A k \in 1..N : bodies[k].body \in Seq(Items) /\ Range(bodies[k].body) \subseteq Nested(rule)
  BY BodiesOfItems
<1>2. ASSUME NEW f PROVE calls(f, parser) = calls(f, other)
  <2>1. ASSUME NEW k \in 0..N, k # 0
        PROVE  AddBody(f[k - 1], id, bodies[k], parser) = AddBody(f[k - 1], id, bodies[k], other)
    <3>1. bodies[k].body \in Seq(Items) /\ \A item \in Range(bodies[k].body) : parser[item] = other[item]
      <4>1. k \in 1..N
        BY <2>1
      <4>. QED
        BY <1>1, <4>1
    <3>. DEFINE b == bodies[k]
                made == f[k - 1]
    <3>. HIDE DEF b, made
    <3>2. ParseControlBody(b.body, made.last, id, parser) = ParseControlBody(b.body, made.last, id, other)
      BY <3>1, ParseControlBodyDepends DEF b
    <3>3. AddBody(made, id, b, parser) = AddBody(made, id, b, other)
      BY <3>2 DEF AddBody
    <3>. QED
      BY <3>3 DEF b, made
  <2>. HIDE DEF bodies
  <2>. QED
    BY <2>1
<1>3. ParseBodies(node, id, BodiesOf(rule), parser) = (CHOOSE f : Is(f))[N]
  BY DEF ParseBodies
<1>4. ParseBodies(node, id, BodiesOf(rule), other) = (CHOOSE f : IsToo(f))[N]
  BY DEF ParseBodies
<1>5. \A f : Is(f) <=> IsToo(f)
  BY <1>2
<1>. HIDE DEF Is, IsToo, N
<1>6. (CHOOSE f : Is(f)) = (CHOOSE f : IsToo(f))
  BY <1>5
<1>. QED
  BY <1>3, <1>4, <1>6

-----------------------------------------------------------------------------

LEMMA NewNodeType ==
  ASSUME NEW id \in Nat, NEW type \in RuleType, NEW data \in RuleData
  PROVE  /\ NewNode(id, type, data) \in Call
         /\ NewNode(id, type, data).last = id /\ NewNode(id, type, data).outcome = "ok"
         /\ DOMAIN NewNode(id, type, data).nodes = {id}
         /\ NewNode(id, type, data).nodes[id].type = type /\ NewNode(id, type, data).nodes[id].data = data
         /\ NewNode(id, type, data).nodes[id].next = Null
         /\ NewNode(id, type, data).nodes[id].children = <<>>
<1>. DEFINE C == [key : Key, child : Nat]
            node == [type |-> type, data |-> data, next |-> Null, parent |-> Null, children |-> <<>>]
            nodes == [n \in {id} |-> node]
            r == NewNode(id, type, data)
<1>1. <<>> \in Seq(C) /\ Null \in Nat
  BY EmptySeq DEF Null
<1>2. node \in Node
  <2>. HIDE DEF C
  <2>1. node \in [type : RuleType, data : RuleData, next : Nat, parent : Nat, children : Seq(C)]
    BY <1>1
  <2>. QED
    BY <2>1 DEF Node, C
<1>3. node.type = type /\ node.data = data /\ node.next = Null /\ node.children = <<>>
  OBVIOUS
<1>. HIDE DEF node
<1>4. nodes \in [{id} -> Node] /\ {id} \in SUBSET Nat
  BY <1>2
<1>5. nodes[id] = node /\ DOMAIN nodes = {id}
  OBVIOUS
<1>6. r = [nodes |-> nodes, last |-> id, outcome |-> "ok"]
  BY DEF NewNode, node
<1>. HIDE DEF nodes
<1>7. nodes \in NodeMap
  BY <1>4 DEF NodeMap
<1>8. r \in Call
  BY <1>6, <1>7 DEF Call, Outcome
<1>9. r.last = id /\ r.outcome = "ok" /\ r.nodes = nodes
  BY <1>6
<1>. HIDE DEF r
<1>10. /\ r.last = id /\ r.outcome = "ok" /\ DOMAIN r.nodes = {id} /\ r.nodes[id].type = type
       /\ r.nodes[id].data = data /\ r.nodes[id].next = Null /\ r.nodes[id].children = <<>>
  BY <1>3, <1>5, <1>9
<1>. QED
  BY <1>8, <1>10 DEF r

LEMMA FailedType ==
  ASSUME NEW outcome \in Outcome, NEW at \in Nat
  PROVE  Failed(outcome, at) \in Call
BY NoNodesType DEF Failed, Call

LEMMA ParseRuleAtType ==
  ASSUME NEW rule \in Items, NEW at \in Nat, NEW parser \in Parser
  PROVE  ParseRuleAt(rule, at, parser) \in Call
<1>1. rule.type \in RuleType /\ at + 1 \in Nat
  BY DEF RuleType
<1>2. rule.type \in ControlRules => ControlData(rule) \in RuleData
  <2>1. Data(rule) \in RuleData
    BY DEF RuleData
  <2>. QED
    BY <2>1 DEF Data
<1>3. rule.type \notin ControlRules => TaskData(rule) \in RuleData
  <2>1. Data(rule) \in RuleData
    BY DEF RuleData
  <2>. QED
    BY <2>1 DEF Data
<1>4. CASE rule.type \in ControlRules /\ rule.type # "ERROR"
  <2>. DEFINE node == NewNode(at + 1, rule.type, ControlData(rule))
  <2>1. node \in Call
    BY <1>1, <1>2, <1>4, NewNodeType
  <2>. HIDE DEF node
  <2>2. PICK made : AreMade(made, node, at + 1, rule, parser)
    BY <1>1, <2>1, ParseBodiesDoes
  <2>3. Len(BodiesOf(rule)) \in 0..Len(BodiesOf(rule))
    BY BodiesOfItems
  <2>4. ParseBodies(node, at + 1, BodiesOf(rule), parser) \in Call
    BY <2>2, <2>3 DEF AreMade
  <2>. QED
    BY <1>4, <2>4 DEF ParseRuleAt, node
<1>5. CASE rule.type \notin ControlRules
  <2>1. NewNode(at + 1, rule.type, TaskData(rule)) \in Call
    BY <1>1, <1>3, <1>5, NewNodeType
  <2>2. Failed("throws", at) \in Call /\ Failed("undefined", at) \in Call
    BY FailedType DEF Outcome
  <2>. QED
    BY <1>5, <2>1, <2>2 DEF ParseRuleAt
<1>6. rule.type = "ERROR" => rule.type \notin ControlRules
  BY DEF ControlRules, LoopRules
<1>. QED
  BY <1>4, <1>5, <1>6

LEMMA ParseRuleAtDepends ==
  ASSUME NEW rule \in Items, NEW at, NEW parser, NEW other,
         \A item \in Nested(rule) : parser[item] = other[item]
  PROVE  ParseRuleAt(rule, at, parser) = ParseRuleAt(rule, at, other)
BY ParseBodiesDepends DEF ParseRuleAt

\* So parseRule does what it says for every rule.
LEMMA ParseRuleDoes ==
  /\ ParseRule \in Parser
  /\ \A rule \in Items, at \in Nat : ParseRule[rule][at] = ParseRuleAt(rule, at, ParseRule)
<1>. DEFINE V == [Nat -> Call]
            calls(rule, f) == [at \in Nat |-> ParseRuleAt(rule, at, f)]
            step == [x \in Items \X [Items -> V] |-> calls(x[1], x[2])]
<1>1. \A rule \in Items, f \in [Items -> V] : step[<<rule, f>>] = calls(rule, f)
  OBVIOUS
<1>2. ASSUME NEW rule \in Items, NEW f \in [Items -> V]
      PROVE  /\ calls(rule, f) \in V
             /\ \A at \in Nat : calls(rule, f)[at] = ParseRuleAt(rule, at, f)
  <2>1. \A at \in Nat : ParseRuleAt(rule, at, f) \in Call
    BY ParseRuleAtType DEF Parser
  <2>. QED
    BY <2>1
<1>3. IsStep(Items, NestedParts, V, step)
  <2>1. step \in [Items \X [Items -> V] -> V]
    <3>. HIDE DEF V, calls
    <3>. QED
      BY <1>2
  <2>2. ASSUME NEW rule \in Items, NEW f \in [Items -> V], NEW g \in [Items -> V],
               \A p \in NestedParts[rule] : f[p] = g[p]
        PROVE  step[<<rule, f>>] = step[<<rule, g>>]
    <3>1. \A item \in Nested(rule) : f[item] = g[item]
      BY <2>2 DEF NestedParts
    <3>2. \A at \in Nat : ParseRuleAt(rule, at, f) = ParseRuleAt(rule, at, g)
      BY <3>1, ParseRuleAtDepends DEF Parser
    <3>3. calls(rule, f) = calls(rule, g)
      BY <3>2
    <3>. QED
      BY <1>1, <3>3
  <2>. HIDE DEF step, V
  <2>. QED
    BY <2>1, <2>2 DEF IsStep
<1>4. \E v : v \in V
  <2>1. Failed("ok", 0) \in Call
    BY FailedType DEF Outcome
  <2>2. [at \in Nat |-> Failed("ok", 0)] \in V
    BY <2>1
  <2>. QED
    BY <2>2
<1>. HIDE DEF step, V, calls
<1>5. PICK f \in [Items -> V] : f = [rule \in Items |-> step[<<rule, f>>]]
  <2>1. PICK v : v \in V
    BY <1>4
  <2>. QED
    BY <1>3, <2>1, NestedTree, Recursion
<1>6. f = [rule \in Items |-> calls(rule, f)]
  BY <1>1, <1>5
<1>. DEFINE Is(g) == g = [rule \in Items |-> [at \in Nat |-> ParseRuleAt(rule, at, g)]]
<1>7. ParseRule = CHOOSE g : Is(g)
  BY DEF ParseRule
<1>8. Is(f)
  BY <1>6 DEF calls
<1>. DEFINE P == CHOOSE g : Is(g)
<1>9. Is(P)
  <2>. HIDE DEF Is
  <2>. QED
    BY <1>8
<1>. HIDE DEF P
<1>10. P = [rule \in Items |-> [at \in Nat |-> ParseRuleAt(rule, at, P)]]
  BY <1>9
<1>11. P = [rule \in Items |-> P[rule]]
       /\ \A rule \in Items : P[rule] = [at \in Nat |-> ParseRuleAt(rule, at, P)]
  BY <1>10
<1>12. \A rule \in Items, at \in Nat : P[rule][at] = ParseRuleAt(rule, at, P)
  BY <1>11
<1>13. f \in Parser
  BY DEF Parser, V
<1>14. Items \subseteq {rule \in Items : P[rule] \in V}
  <2>. DEFINE S == {rule \in Items : P[rule] \in V}
  <2>1. ASSUME NEW rule \in Items, NestedParts[rule] \subseteq S PROVE rule \in S
    <3>. DEFINE mixed == [item \in Items |-> IF item \in Nested(rule) THEN P[item] ELSE f[item]]
    <3>1. mixed \in Parser /\ \A item \in Nested(rule) : P[item] = mixed[item]
      <4>1. \A item \in Nested(rule) : item \in Items /\ P[item] \in V
        BY <2>1 DEF NestedParts
      <4>2. mixed \in [Items -> V]
        BY <4>1
      <4>3. mixed \in Parser
        <5>. HIDE DEF mixed
        <5>. QED
          BY <4>2 DEF Parser, V
      <4>. QED
        BY <4>1, <4>3
    <3>. HIDE DEF mixed
    <3>2. \A at \in Nat : ParseRuleAt(rule, at, P) \in Call
      BY <3>1, ParseRuleAtDepends, ParseRuleAtType
    <3>3. [at \in Nat |-> ParseRuleAt(rule, at, P)] \in [Nat -> Call]
      BY <3>2
    <3>4. P[rule] \in V
      BY <1>11, <3>3 DEF V
    <3>. QED
      BY <3>4
  <2>. HIDE DEF S
  <2>2. Items \subseteq S
    BY <2>1, NestedTree, TreeInduction
  <2>. QED
    BY <2>2 DEF S
<1>15. P \in Parser
  <2>1. P \in [Items -> V]
    BY <1>11, <1>14
  <2>. QED
    BY <2>1 DEF Parser, V
<1>. QED
  BY <1>7, <1>12, <1>15 DEF P

\* The nodes that follow each other along the children of a body.
IsChain(id, nodes, items, start) ==
    id = [n \in 0..Len(items) |-> IF n = 0 THEN start ELSE After(nodes, items[n], id[n - 1])]

LEMMA ChainExists ==
  ASSUME NEW nodes, NEW items \in Seq(Items), NEW start
  PROVE  \E id : IsChain(id, nodes, items, start)
<1>. DEFINE N == Len(items)
            chain(f, k) == f = [n \in 0..k |-> IF n = 0 THEN start ELSE After(nodes, items[n], f[n - 1])]
            Good == {k \in 0..N : \E f : chain(f, k)}
<1>0. N \in Nat
  BY LenProperties
<1>1. 0 \in Good
  <2>1. \A n \in 0..0 : n = 0
    OBVIOUS
  <2>2. chain([n \in 0..0 |-> start], 0)
    BY <2>1
  <2>. HIDE DEF chain
  <2>. QED
    BY <1>0, <2>2
<1>2. ASSUME NEW k \in 1..N, k - 1 \in Good PROVE k \in Good
  <2>1. PICK f : chain(f, k - 1)
    BY <1>2
  <2>. DEFINE g == [n \in 0..k |-> IF n < k THEN f[n] ELSE After(nodes, items[k], f[k - 1])]
  <2>2. ASSUME NEW n \in 0..k PROVE g[n] = IF n = 0 THEN start ELSE After(nodes, items[n], g[n - 1])
    <3>1. CASE n < k
      <4>1. n \in 0..(k - 1) /\ (n # 0 => n - 1 \in 0..k /\ n - 1 < k)
        BY <3>1
      <4>2. f[n] = IF n = 0 THEN start ELSE After(nodes, items[n], f[n - 1])
        BY <2>1, <4>1
      <4>. QED
        BY <3>1, <4>1, <4>2
    <3>2. CASE n = k
      <4>1. n # 0 /\ n - 1 \in 0..k /\ n - 1 < k
        BY <3>2
      <4>. QED
        BY <3>2, <4>1
    <3>. QED
      BY <3>1, <3>2
  <2>3. g = [n \in 0..k |-> g[n]]
    OBVIOUS
  <2>. HIDE DEF g
  <2>4. chain(g, k)
    BY <2>2, <2>3
  <2>. HIDE DEF chain
  <2>. QED
    BY <1>0, <2>4
<1>. HIDE DEF Good, N
<1>a. 0..N \subseteq Good
  BY <1>0, <1>1, <1>2, Induction
<1>3. N \in Good
  BY <1>0, <1>a
<1>4. \E f : chain(f, N)
  BY <1>3 DEF Good
<1>. QED
  BY <1>4 DEF IsChain, N

\* A body is a chain that ends, of nodes that stand for its rules.
LEMMA IsBodyMeans ==
  ASSUME NEW nodes, NEW items \in Seq(Items), NEW start
  PROVE  \E id :
           /\ IsChain(id, nodes, items, start)
           /\ \A standing : IsBody(nodes, items, start, standing)
                            <=> /\ id[Len(items)] = Null
                                /\ \A n \in DOMAIN items :
                                      items[n].type # "comment" => id[n - 1] \in standing[items[n]]
<1>. DEFINE Is(id) == id = [n \in 0..Len(items) |->
                              IF n = 0 THEN start ELSE After(nodes, items[n], id[n - 1])]
            chain == CHOOSE id : Is(id)
<1>1. \E id : Is(id)
  <2>1. PICK id : IsChain(id, nodes, items, start)
    BY ChainExists
  <2>2. Is(id)
    BY <2>1 DEF IsChain
  <2>. HIDE DEF Is
  <2>. QED
    BY <2>2
<1>2. Is(chain)
  <2>. HIDE DEF Is
  <2>. QED
    BY <1>1
<1>3. \A standing : IsBody(nodes, items, start, standing)
                    <=> /\ chain[Len(items)] = Null
                        /\ \A n \in DOMAIN items :
                              items[n].type # "comment" => chain[n - 1] \in standing[items[n]]
  BY DEF IsBody
<1>4. IsChain(chain, nodes, items, start)
  BY <1>2 DEF IsChain
<1>. HIDE DEF chain
<1>. QED
  BY <1>3, <1>4

LEMMA ChainSteps ==
  ASSUME NEW nodes, NEW items \in Seq(Items), NEW start, NEW id, IsChain(id, nodes, items, start)
  PROVE  /\ id[0] = start
         /\ \A n \in 1..Len(items) : id[n] = After(nodes, items[n], id[n - 1])
<1>1. Len(items) \in Nat
  BY LenProperties
<1>2. 0 \in 0..Len(items) /\ \A n \in 1..Len(items) : n \in 0..Len(items) /\ n # 0
  BY <1>1
<1>. QED
  BY <1>2 DEF IsChain

-----------------------------------------------------------------------------
(* The nodes that stand for rules                                          *)

\* What stands for a rule depends on what stands for those in its bodies.
LEMMA StandsDepends ==
  ASSUME NEW nodes, NEW id, NEW rule \in Items, NEW standing, NEW other,
         \A item \in Nested(rule) : standing[item] = other[item]
  PROVE  Stands(nodes, id, rule, standing) <=> Stands(nodes, id, rule, other)
<1>. DEFINE bodies == BodiesOf(rule)
<1>1. \A k \in DOMAIN bodies : bodies[k].body \in Seq(Items) /\ Range(bodies[k].body) \subseteq Nested(rule)
  BY BodiesOfItems
<1>. HIDE DEF bodies
<1>2. ASSUME NEW k \in DOMAIN bodies, NEW start
      PROVE  IsBody(nodes, bodies[k].body, start, standing) <=> IsBody(nodes, bodies[k].body, start, other)
  <2>. DEFINE items == bodies[k].body
  <2>1. items \in Seq(Items) /\ Range(items) \subseteq Nested(rule)
    BY <1>1
  <2>. HIDE DEF items
  <2>2. PICK chain :
           \A s : IsBody(nodes, items, start, s)
                  <=> /\ chain[Len(items)] = Null
                      /\ \A n \in DOMAIN items :
                            items[n].type # "comment" => chain[n - 1] \in s[items[n]]
    BY <2>1, IsBodyMeans
  <2>3. \A n \in DOMAIN items : standing[items[n]] = other[items[n]]
    BY <2>1 DEF Range
  <2>4. IsBody(nodes, items, start, standing) <=> IsBody(nodes, items, start, other)
    BY <2>2, <2>3
  <2>. QED
    BY <2>4 DEF items
<1>. QED
  BY <1>2 DEF Stands, bodies

LEMMA StandingDoes ==
  ASSUME NEW nodes, NEW rule \in Items
  PROVE  Standing(nodes)[rule] = {id \in DOMAIN nodes : Stands(nodes, id, rule, Standing(nodes))}
<1>. DEFINE V == SUBSET DOMAIN nodes
            which(r, f) == {n \in DOMAIN nodes : Stands(nodes, n, r, f)}
            step == [x \in Items \X [Items -> V] |-> which(x[1], x[2])]
            Is(f) == f = [r \in Items |-> which(r, f)]
<1>1. \A r \in Items, f \in [Items -> V] : step[<<r, f>>] = which(r, f)
  OBVIOUS
<1>2. IsStep(Items, NestedParts, V, step)
  <2>1. step \in [Items \X [Items -> V] -> V]
    <3>1. \A r, f : which(r, f) \in V
      OBVIOUS
    <3>. HIDE DEF which, V
    <3>. QED
      BY <3>1
  <2>2. ASSUME NEW r \in Items, NEW f \in [Items -> V], NEW g \in [Items -> V],
               \A p \in NestedParts[r] : f[p] = g[p]
        PROVE  step[<<r, f>>] = step[<<r, g>>]
    <3>1. \A item \in Nested(r) : f[item] = g[item]
      BY <2>2 DEF NestedParts
    <3>2. \A n : Stands(nodes, n, r, f) <=> Stands(nodes, n, r, g)
      BY <3>1, StandsDepends
    <3>3. which(r, f) = which(r, g)
      BY <3>2
    <3>. QED
      BY <1>1, <3>3
  <2>. HIDE DEF step, V
  <2>. QED
    BY <2>1, <2>2 DEF IsStep
<1>3. {} \in V
  OBVIOUS
<1>. HIDE DEF step, V
<1>4. PICK f \in [Items -> V] : f = [r \in Items |-> step[<<r, f>>]]
  BY <1>2, <1>3, NestedTree, Recursion
<1>5. Is(f)
  BY <1>1, <1>4
<1>6. Standing(nodes) = CHOOSE f_1 : Is(f_1)
  BY DEF Standing
<1>7. Is(Standing(nodes))
  <2>. HIDE DEF Is
  <2>. QED
    BY <1>5, <1>6
<1>. DEFINE S == Standing(nodes)
<1>8. S = [r \in Items |-> which(r, S)]
  BY <1>7
<1>. HIDE DEF S
<1>9. S[rule] = which(rule, S)
  BY <1>8
<1>. QED
  BY <1>9 DEF S

\* The links of a node lead to later nodes up to the last, along with its
\* parent or back to itself.
LinksForward(nodes, n, last) ==
    /\ nodes[n].next # Null => /\ nodes[n].next \in (n + 1)..last
                               /\ nodes[nodes[n].next].parent = nodes[n].parent
    /\ \A k \in DOMAIN nodes[n].children :
          nodes[n].children[k].child # Null =>
             /\ nodes[n].children[k].child \in (n + 1)..last
             /\ nodes[nodes[n].children[k].child].parent = n

\* The nodes made from one number to another, linked among themselves.
Closed(nodes, at, last) ==
    DOMAIN nodes = (at + 1)..last /\ \A n \in DOMAIN nodes : LinksForward(nodes, n, last)

\* A node says the same of a rule as another.
Like(node, other) ==
    node.type = other.type /\ node.data = other.data /\ node.children = other.children

\* Nodes go on from others: at root something may follow.
Extends(all, nodes, root) ==
    \A n \in DOMAIN nodes :
       n \in DOMAIN all /\ Like(all[n], nodes[n]) /\ (n # root => all[n].next = nodes[n].next)

\* A body under way: its nodes, from the first to the latest.
UnderWay(b, at, parent) ==
    /\ at <= b.last /\ Closed(b.nodes, at, b.last)
    /\ b.prev = Null <=> b.first = Null
    /\ b.prev # Null => /\ b.first \in (at + 1)..b.last /\ b.prev \in (at + 1)..b.last
                        /\ b.nodes[b.first].parent = parent /\ b.nodes[b.prev].parent = parent
                        /\ b.nodes[b.prev].next = Null

\* What is in r, of the nodes before and of those made.
LEMMA LinkedNodes ==
  ASSUME NEW b \in Body, NEW made \in Call, NEW parent \in Nat, NEW at \in Nat, NEW r,
         IsLinked(r, b, made, parent), UnderWay(b, at, parent),
         b.last < made.last, Closed(made.nodes, b.last, made.last)
  PROVE  /\ b.last \in Nat /\ made.last \in Nat /\ b.prev \in Nat /\ b.first \in Nat
         /\ b.prev < b.last + 1
         /\ DOMAIN r.nodes = (at + 1)..made.last
         /\ \A n \in (at + 1)..b.last :
               /\ Like(r.nodes[n], b.nodes[n]) /\ r.nodes[n].parent = b.nodes[n].parent
               /\ r.nodes[n].next = IF n = b.prev THEN b.last + 1 ELSE b.nodes[n].next
         /\ \A n \in (b.last + 1)..made.last :
               /\ Like(r.nodes[n], made.nodes[n]) /\ r.nodes[n].next = made.nodes[n].next
               /\ r.nodes[n].parent = IF n = b.last + 1 THEN parent ELSE made.nodes[n].parent
<1>. DEFINE nodes == Both(b.nodes, made.nodes)
            id == b.last + 1
<1>1. /\ b.last \in Nat /\ made.last \in Nat /\ b.prev \in Nat /\ b.first \in Nat
      /\ b.nodes \in NodeMap /\ made.nodes \in NodeMap
  BY DEF Body, Call
<1>2. b.prev < b.last + 1
  <2>1. b.prev # Null => b.prev \in (at + 1)..b.last
    BY DEF UnderWay
  <2>. QED
    BY <1>1, <2>1 DEF Null
<1>3. at <= b.last /\ DOMAIN b.nodes = (at + 1)..b.last /\ DOMAIN made.nodes = (b.last + 1)..made.last
  BY DEF UnderWay, Closed
<1>4. /\ DOMAIN nodes = DOMAIN b.nodes \cup DOMAIN made.nodes
      /\ \A n \in DOMAIN b.nodes : nodes[n] = b.nodes[n]
      /\ \A n \in DOMAIN made.nodes \ DOMAIN b.nodes : nodes[n] = made.nodes[n]
  BY <1>1, BothIs
<1>5. /\ DOMAIN r.nodes = DOMAIN nodes
      /\ \A n \in DOMAIN nodes :
            /\ Like(r.nodes[n], nodes[n])
            /\ r.nodes[n].parent = IF n = id THEN parent ELSE nodes[n].parent
            /\ r.nodes[n].next = IF n # id /\ n = b.prev THEN id ELSE nodes[n].next
  BY DEF IsLinked, Like
<1>. HIDE DEF nodes
<1>6. DOMAIN nodes = (at + 1)..made.last
  BY <1>1, <1>3, <1>4
<1>7. \A n \in (at + 1)..b.last : n \in DOMAIN nodes /\ nodes[n] = b.nodes[n] /\ n # id
  BY <1>1, <1>3, <1>4
<1>8. \A n \in (b.last + 1)..made.last : n \in DOMAIN nodes /\ nodes[n] = made.nodes[n] /\ n # b.prev
  <2>1. \A n \in (b.last + 1)..made.last : n \notin (at + 1)..b.last /\ n # b.prev
    BY <1>1, <1>2
  <2>2. \A n \in (b.last + 1)..made.last : n \in DOMAIN made.nodes \ DOMAIN b.nodes /\ n # b.prev
    BY <1>3, <2>1
  <2>. QED
    BY <1>4, <2>2
<1>9. \A n \in (at + 1)..b.last :
         /\ Like(r.nodes[n], b.nodes[n]) /\ r.nodes[n].parent = b.nodes[n].parent
         /\ r.nodes[n].next = IF n = b.prev THEN id ELSE b.nodes[n].next
  BY <1>5, <1>7
<1>10. \A n \in (b.last + 1)..made.last :
         /\ Like(r.nodes[n], made.nodes[n]) /\ r.nodes[n].next = made.nodes[n].next
         /\ r.nodes[n].parent = IF n = id THEN parent ELSE made.nodes[n].parent
  BY <1>5, <1>8
<1>. QED
  BY <1>1, <1>2, <1>5, <1>6, <1>9, <1>10

\* A node linked to a body leaves its links in order.
LEMMA LinkKeeps ==
  ASSUME NEW b \in Body, NEW made \in Call, NEW parent \in Nat, NEW at \in Nat, NEW r,
         IsLinked(r, b, made, parent), UnderWay(b, at, parent),
         b.last < made.last, Closed(made.nodes, b.last, made.last),
         made.nodes[b.last + 1].next = Null
  PROVE  UnderWay(r, at, parent)
<1>. DEFINE id == b.last + 1
            last == made.last
<1>1. /\ b.last \in Nat /\ last \in Nat /\ b.prev \in Nat /\ b.first \in Nat /\ b.prev < id
      /\ DOMAIN r.nodes = (at + 1)..last
  BY LinkedNodes
<1>2. \A n \in (at + 1)..b.last :
         /\ Like(r.nodes[n], b.nodes[n]) /\ r.nodes[n].parent = b.nodes[n].parent
         /\ r.nodes[n].next = IF n = b.prev THEN id ELSE b.nodes[n].next
  BY LinkedNodes
<1>3. \A n \in id..last :
         /\ Like(r.nodes[n], made.nodes[n]) /\ r.nodes[n].next = made.nodes[n].next
         /\ r.nodes[n].parent = IF n = id THEN parent ELSE made.nodes[n].parent
  BY LinkedNodes
<1>4. /\ at <= b.last /\ b.last < last
      /\ \A n \in (at + 1)..b.last : LinksForward(b.nodes, n, b.last)
      /\ \A n \in id..last : LinksForward(made.nodes, n, last)
  BY DEF UnderWay, Closed
<1>5. /\ r.last = last /\ r.prev = id
      /\ r.first = IF b.first = Null THEN id ELSE b.first
  BY DEF IsLinked
<1>6. /\ b.prev = Null <=> b.first = Null
      /\ b.prev # Null => /\ b.first \in (at + 1)..b.last /\ b.prev \in (at + 1)..b.last
                          /\ b.nodes[b.first].parent = parent /\ b.nodes[b.prev].parent = parent
                          /\ b.nodes[b.prev].next = Null
  BY DEF UnderWay
<1>7. id \in id..last
  BY <1>1, <1>4
<1>8. ASSUME NEW n \in (at + 1)..b.last PROVE LinksForward(r.nodes, n, last)
  <2>1. LinksForward(b.nodes, n, b.last) /\ n \in Nat /\ n < id
    BY <1>1, <1>4
  <2>2. /\ r.nodes[n].children = b.nodes[n].children /\ r.nodes[n].parent = b.nodes[n].parent
        /\ r.nodes[n].next = IF n = b.prev THEN id ELSE b.nodes[n].next
    BY <1>2 DEF Like
  <2>3. \A m \in (n + 1)..b.last : m \in (n + 1)..last /\ r.nodes[m].parent = b.nodes[m].parent
    <3>1. \A m \in (n + 1)..b.last : m \in (at + 1)..b.last /\ m \in (n + 1)..last
      BY <1>1, <1>4, <2>1
    <3>. QED
      BY <1>2, <3>1
  <2>4. CASE n = b.prev
    <3>1. r.nodes[n].next = id /\ r.nodes[n].parent = parent
      BY <1>1, <1>6, <2>1, <2>2, <2>4 DEF Null
    <3>2. r.nodes[id].parent = parent /\ id \in (n + 1)..last
      BY <1>1, <1>3, <1>4, <1>7, <2>1
    <3>. QED
      BY <2>1, <2>2, <2>3, <3>1, <3>2 DEF LinksForward
  <2>5. CASE n # b.prev
    BY <2>1, <2>2, <2>3, <2>5 DEF LinksForward
  <2>. QED
    BY <2>4, <2>5
<1>9. ASSUME NEW n \in id..last PROVE LinksForward(r.nodes, n, last)
  <2>1. LinksForward(made.nodes, n, last) /\ n \in Nat
    BY <1>1, <1>4
  <2>2. /\ r.nodes[n].children = made.nodes[n].children /\ r.nodes[n].next = made.nodes[n].next
        /\ n # id => r.nodes[n].parent = made.nodes[n].parent
        /\ n = id => r.nodes[n].next = Null
    BY <1>3 DEF Like
  <2>3. \A m \in (n + 1)..last : r.nodes[m].parent = made.nodes[m].parent
    <3>1. \A m \in (n + 1)..last : m \in id..last /\ m # id
      BY <1>1, <2>1
    <3>. QED
      BY <1>3, <3>1
  <2>. QED
    BY <2>1, <2>2, <2>3 DEF LinksForward
<1>10. Closed(r.nodes, at, last)
  <2>1. \A n \in (at + 1)..last : n \in (at + 1)..b.last \/ n \in id..last
    BY <1>1, <1>4
  <2>2. \A n \in (at + 1)..last : LinksForward(r.nodes, n, last)
    BY <1>8, <1>9, <2>1
  <2>. QED
    BY <1>1, <2>2 DEF Closed
<1>11. r.nodes[id].parent = parent /\ r.nodes[id].next = Null /\ id \in (at + 1)..last /\ id # Null
  BY <1>1, <1>3, <1>4, <1>7, SMTT(20) DEF Null
<1>12. r.first \in (at + 1)..last /\ r.nodes[r.first].parent = parent /\ r.first # Null
  <2>1. CASE b.first = Null
    BY <1>5, <1>11, <2>1
  <2>2. CASE b.first # Null
    <3>1. b.first \in (at + 1)..b.last /\ b.nodes[b.first].parent = parent
      BY <1>6, <2>2
    <3>2. r.nodes[b.first].parent = parent /\ b.first \in (at + 1)..last
      BY <1>1, <1>2, <1>4, <3>1
    <3>. QED
      BY <1>5, <2>2, <3>2
  <2>. QED
    BY <2>1, <2>2
<1>13. at <= r.last
  BY <1>1, <1>4, <1>5
<1>. QED
  BY <1>5, <1>10, <1>11, <1>12, <1>13 DEF UnderWay

\* What a call for a rule returns: a node that will stand for the rule in
\* whatever the nodes become part of.
RuleStands(r, rule, at) ==
    /\ at < r.last /\ Closed(r.nodes, at, r.last)
    /\ r.nodes[at + 1].next = Null
    /\ \A all \in NodeMap : Extends(all, r.nodes, at + 1) => at + 1 \in Standing(all)[rule]

RuleIsParsed(rule) ==
    \A at \in Nat : ParseRule[rule][at].outcome = "ok" => RuleStands(ParseRule[rule][at], rule, at)

\* A chain goes through the nodes of a body under way, after n of its items.
FollowsTo(b, items, n) ==
    \A all \in NodeMap, start \in Nat : \A id :
       /\ Extends(all, b.nodes, b.prev)
       /\ b.first # Null => start = b.first
       /\ IsChain(id, all, items, start)
       => /\ id[n] = IF b.prev = Null THEN start ELSE all[b.prev].next
          /\ \A m \in 1..n : items[m].type # "comment" => id[m - 1] \in Standing(all)[items[m]]

\* What a call for a body returns.
BodyStands(b, items, at, parent) ==
    /\ at <= b.last /\ Closed(b.nodes, at, b.last)
    /\ b.first # Null => b.first \in (at + 1)..b.last /\ b.nodes[b.first].parent = parent
    /\ \A all \in NodeMap :
          Extends(all, b.nodes, Null) => IsBody(all, items, b.first, Standing(all))

\* What extends the nodes after a link extends those before it and those made.
LEMMA ExtendsBoth ==
  ASSUME NEW b \in Body, NEW made \in Call, NEW parent \in Nat, NEW at \in Nat, NEW r,
         IsLinked(r, b, made, parent), UnderWay(b, at, parent),
         b.last < made.last, Closed(made.nodes, b.last, made.last),
         NEW all, Extends(all, r.nodes, r.prev)
  PROVE  /\ Extends(all, b.nodes, b.prev) /\ Extends(all, made.nodes, b.last + 1)
         /\ b.prev # Null => all[b.prev].next = b.last + 1
<1>. DEFINE id == b.last + 1
            last == made.last
<1>1. /\ b.last \in Nat /\ last \in Nat /\ b.prev \in Nat /\ b.prev < id
      /\ DOMAIN r.nodes = (at + 1)..last
  BY LinkedNodes
<1>2. \A n \in (at + 1)..b.last :
         /\ Like(r.nodes[n], b.nodes[n])
         /\ r.nodes[n].next = IF n = b.prev THEN id ELSE b.nodes[n].next
  BY LinkedNodes
<1>3. \A n \in id..last : Like(r.nodes[n], made.nodes[n]) /\ r.nodes[n].next = made.nodes[n].next
  BY LinkedNodes, SMTT(20)
<1>4. /\ at <= b.last /\ b.last < last
      /\ DOMAIN b.nodes = (at + 1)..b.last /\ DOMAIN made.nodes = id..last
  BY DEF UnderWay, Closed
<1>5. r.prev = id
  BY DEF IsLinked
<1>6. \A n \in (at + 1)..last :
         /\ n \in DOMAIN all /\ Like(all[n], r.nodes[n])
         /\ n # id => all[n].next = r.nodes[n].next
  BY <1>1, <1>5 DEF Extends
<1>7. ASSUME NEW n \in (at + 1)..b.last
      PROVE  /\ n \in DOMAIN all /\ Like(all[n], b.nodes[n])
             /\ all[n].next = IF n = b.prev THEN id ELSE b.nodes[n].next
  <2>1. n \in (at + 1)..last /\ n # id
    BY <1>1, <1>4
  <2>. QED
    BY <1>2, <1>6, <2>1 DEF Like
<1>8. Extends(all, b.nodes, b.prev)
  BY <1>4, <1>7 DEF Extends
<1>9. Extends(all, made.nodes, id)
  <2>1. ASSUME NEW n \in id..last
        PROVE  n \in DOMAIN all /\ Like(all[n], made.nodes[n]) /\ (n # id => all[n].next = made.nodes[n].next)
    <3>1. n \in (at + 1)..last
      BY <1>1, <1>4
    <3>. QED
      BY <1>3, <1>6, <3>1 DEF Like
  <2>. QED
    BY <1>4, <2>1 DEF Extends
<1>10. b.prev # Null => all[b.prev].next = id
  <2>1. b.prev # Null => b.prev \in (at + 1)..b.last
    BY DEF UnderWay
  <2>. QED
    BY <1>7, <2>1
<1>. QED
  BY <1>8, <1>9, <1>10

\* A child of a body is added to it.
LEMMA ItemAdded ==
  ASSUME NEW items \in Seq(Items), NEW n \in 1..Len(items), NEW b \in Body,
         NEW at \in Nat, NEW parent \in Nat, UnderWay(b, at, parent), FollowsTo(b, items, n - 1),
         RuleIsParsed(items[n]), b.outcome = "ok",
         AddItem(b, items[n], parent, ParseRule).outcome = "ok"
  PROVE  /\ UnderWay(AddItem(b, items[n], parent, ParseRule), at, parent)
         /\ FollowsTo(AddItem(b, items[n], parent, ParseRule), items, n)
<1>. DEFINE item == items[n]
            r == AddItem(b, item, parent, ParseRule)
<1>1. item \in Items /\ b.last \in Nat /\ n \in Nat
  BY LenProperties, ElementOfSeq DEF Body
<1>2. CASE item.type = "comment"
  <2>1. r = b
    BY <1>2 DEF AddItem
  <2>2. FollowsTo(b, items, n)
    <3>1. ASSUME NEW all \in NodeMap, NEW start \in Nat, NEW id,
                 Extends(all, b.nodes, b.prev), b.first # Null => start = b.first,
                 IsChain(id, all, items, start)
          PROVE  /\ id[n] = IF b.prev = Null THEN start ELSE all[b.prev].next
                 /\ \A m \in 1..n : items[m].type # "comment" => id[m - 1] \in Standing(all)[items[m]]
      <4>1. /\ id[n - 1] = IF b.prev = Null THEN start ELSE all[b.prev].next
            /\ \A m \in 1..(n - 1) : items[m].type # "comment" => id[m - 1] \in Standing(all)[items[m]]
        BY <3>1 DEF FollowsTo
      <4>2. id[n] = id[n - 1]
        <5>1. id[n] = After(all, item, id[n - 1])
          BY <3>1, ChainSteps
        <5>. QED
          BY <1>2, <5>1 DEF After
      <4>3. \A m \in 1..n : m \in 1..(n - 1) \/ m = n
        BY <1>1
      <4>. HIDE DEF r
      <4>. QED
        BY <1>2, <4>1, <4>2, <4>3
    <3>. QED
      BY <3>1 DEF FollowsTo
  <2>. QED
    BY <2>1, <2>2
<1>3. CASE item.type # "comment"
  <2>. DEFINE made == ParseRule[item][b.last]
              new == b.last + 1
  <2>1. r = Link(b, made, parent)
    BY <1>3 DEF AddItem
  <2>2. made \in Call
    BY <1>1, ParseRuleDoes DEF Parser
  <2>3. IsLinked(r, b, made, parent)
    BY <2>1, <2>2, LinkDoes
  <2>4. made.outcome = "ok"
    BY <2>3 DEF IsLinked
  <2>5. RuleStands(made, item, b.last)
    BY <1>1, <2>4 DEF RuleIsParsed
  <2>. HIDE DEF made, r
  <2>6. b.last < made.last /\ Closed(made.nodes, b.last, made.last) /\ made.nodes[new].next = Null
    BY <2>5 DEF RuleStands
  <2>7. UnderWay(r, at, parent)
    BY <2>2, <2>3, <2>6, LinkKeeps
  <2>8. r.prev = new /\ r.first = (IF b.first = Null THEN new ELSE b.first) /\ new # Null
        /\ (b.prev = Null <=> b.first = Null)
    BY <1>1, <2>3 DEF IsLinked, Null, UnderWay
  <2>9. FollowsTo(r, items, n)
    <3>1. ASSUME NEW all \in NodeMap, NEW start \in Nat, NEW id,
                 Extends(all, r.nodes, r.prev), r.first # Null => start = r.first,
                 IsChain(id, all, items, start)
          PROVE  /\ id[n] = IF r.prev = Null THEN start ELSE all[r.prev].next
                 /\ \A m \in 1..n : items[m].type # "comment" => id[m - 1] \in Standing(all)[items[m]]
      <4>1. /\ Extends(all, b.nodes, b.prev) /\ Extends(all, made.nodes, new)
            /\ b.prev # Null => all[b.prev].next = new
        BY <2>2, <2>3, <2>6, <3>1, ExtendsBoth
      <4>2. b.first # Null => start = b.first
        BY <2>8, <3>1
      <4>3. /\ id[n - 1] = IF b.prev = Null THEN start ELSE all[b.prev].next
            /\ \A m \in 1..(n - 1) : items[m].type # "comment" => id[m - 1] \in Standing(all)[items[m]]
        BY <3>1, <4>1, <4>2 DEF FollowsTo
      <4>4. id[n - 1] = new
        BY <2>8, <3>1, <4>1, <4>3
      <4>5. new \in Standing(all)[item]
        BY <2>5, <4>1 DEF RuleStands
      <4>6. id[n] = all[new].next
        <5>1. id[n] = After(all, item, id[n - 1])
          BY <3>1, ChainSteps
        <5>. QED
          BY <1>3, <2>8, <4>4, <5>1 DEF After
      <4>7. \A m \in 1..n : m \in 1..(n - 1) \/ m = n
        BY <1>1
      <4>8. ASSUME NEW m \in 1..n, items[m].type # "comment" PROVE id[m - 1] \in Standing(all)[items[m]]
        <5>1. CASE m = n
          BY <4>4, <4>5, <5>1
        <5>2. CASE m # n
          BY <4>3, <4>7, <4>8, <5>2
        <5>. QED
          BY <5>1, <5>2
      <4>. QED
        BY <2>8, <4>6, <4>8
    <3>. QED
      BY <3>1 DEF FollowsTo
  <2>. QED
    BY <2>7, <2>9 DEF r
<1>. QED
  BY <1>2, <1>3

\* A body is parsed if what is in it is.
LEMMA BodyIsParsed ==
  ASSUME NEW items \in Seq(Items), NEW at \in Nat, NEW parent \in Nat,
         \A item \in Range(items) : RuleIsParsed(item),
         ParseControlBody(items, at, parent, ParseRule).outcome = "ok"
  PROVE  BodyStands(ParseControlBody(items, at, parent, ParseRule), items, at, parent)
<1>. DEFINE N == Len(items)
<1>1. N \in Nat /\ DOMAIN items = 1..N /\ \A n \in 1..N : items[n] \in Range(items)
  BY LenProperties DEF Range
<1>2. PICK body : AreBodies(body, items, at, parent, ParseRule)
  BY ParseRuleDoes, ParseControlBodyDoes
<1>. DEFINE Good == {n \in 0..N : body[n].outcome = "ok" =>
                                     UnderWay(body[n], at, parent) /\ FollowsTo(body[n], items, n)}
<1>3. 0 \in Good
  <2>. DEFINE b == NoNodes(at)
  <2>1. b.nodes = <<>> /\ b.last = at /\ b.first = Null /\ b.prev = Null
    BY DEF NoNodes
  <2>. HIDE DEF b
  <2>2. DOMAIN b.nodes = {} /\ (at + 1)..at = {}
    BY <2>1, NoNodesType
  <2>3. Closed(b.nodes, at, b.last)
    BY <2>1, <2>2 DEF Closed
  <2>4. UnderWay(b, at, parent)
    BY <2>1, <2>3 DEF UnderWay
  <2>5. FollowsTo(b, items, 0)
    <3>1. ASSUME NEW all, NEW start, NEW id, IsChain(id, all, items, start) PROVE id[0] = start
      BY <3>1, ChainSteps
    <3>2. \A m \in 1..0 : FALSE
      OBVIOUS
    <3>. QED
      BY <2>1, <3>1, <3>2 DEF FollowsTo
  <2>6. body[0] = b
    BY <1>2 DEF AreBodies, b
  <2>. QED
    BY <1>1, <2>4, <2>5, <2>6
<1>4. ASSUME NEW n \in 1..N, n - 1 \in Good PROVE n \in Good
  <2>. SUFFICES ASSUME body[n].outcome = "ok"
                PROVE  UnderWay(body[n], at, parent) /\ FollowsTo(body[n], items, n)
    BY <1>1
  <2>. DEFINE b == body[n - 1]
  <2>1. b \in Body /\ body[n] = AddItem(b, items[n], parent, ParseRule)
    BY <1>1, <1>2 DEF AreBodies
  <2>2. b.outcome = "ok"
    BY <2>1 DEF AddItem
  <2>3. UnderWay(b, at, parent) /\ FollowsTo(b, items, n - 1)
    BY <1>4, <2>2
  <2>4. RuleIsParsed(items[n])
    BY <1>1
  <2>. HIDE DEF b
  <2>. QED
    BY <2>1, <2>2, <2>3, <2>4, ItemAdded
<1>. DEFINE b == ParseControlBody(items, at, parent, ParseRule)
<1>5. b = body[N] /\ b \in Body
  BY <1>1, <1>2 DEF AreBodies
<1>6. UnderWay(b, at, parent) /\ FollowsTo(b, items, N)
  <2>. HIDE DEF Good, N
  <2>1. 0..N \subseteq Good
    BY <1>1, <1>3, <1>4, Induction
  <2>2. N \in Good
    BY <1>1, <2>1
  <2>. QED
    BY <1>5, <2>2 DEF Good
<1>. HIDE DEF b, Good
<1>7. /\ at <= b.last /\ Closed(b.nodes, at, b.last)
      /\ b.first # Null => b.first \in (at + 1)..b.last /\ b.nodes[b.first].parent = parent
  BY <1>6 DEF UnderWay
<1>8. ASSUME NEW all \in NodeMap, Extends(all, b.nodes, Null)
      PROVE  IsBody(all, items, b.first, Standing(all))
  <2>1. PICK id :
          /\ IsChain(id, all, items, b.first)
          /\ IsBody(all, items, b.first, Standing(all))
             <=> /\ id[N] = Null
                 /\ \A n \in DOMAIN items :
                       items[n].type # "comment" => id[n - 1] \in Standing(all)[items[n]]
    BY IsBodyMeans
  <2>2. Extends(all, b.nodes, b.prev)
    <3>1. \A n \in DOMAIN b.nodes : n # Null
      BY <1>7 DEF Closed, Null
    <3>. QED
      BY <1>8, <3>1 DEF Extends
  <2>3. b.first \in Nat
    BY <1>5 DEF Body
  <2>4. /\ id[N] = IF b.prev = Null THEN b.first ELSE all[b.prev].next
        /\ \A m \in 1..N : items[m].type # "comment" => id[m - 1] \in Standing(all)[items[m]]
    BY <1>6, <2>1, <2>2, <2>3 DEF FollowsTo
  <2>5. id[N] = Null
    <3>1. CASE b.prev = Null
      BY <1>6, <2>4, <3>1 DEF UnderWay
    <3>2. CASE b.prev # Null
      <4>1. b.prev \in DOMAIN b.nodes /\ b.nodes[b.prev].next = Null
        BY <1>6, <3>2 DEF UnderWay, Closed
      <4>2. all[b.prev].next = Null
        BY <1>8, <3>2, <4>1 DEF Extends
      <4>. QED
        BY <2>4, <3>2, <4>2
    <3>. QED
      BY <3>1, <3>2
  <2>. QED
    BY <1>1, <2>1, <2>4, <2>5
<1>9. BodyStands(b, items, at, parent)
  BY <1>7, <1>8 DEF BodyStands
<1>. QED
  BY <1>9 DEF b

\* Nodes go on from others, but for one of them.
ExtendsBut(all, nodes, id) ==
    \A n \in DOMAIN nodes \ {id} :
       n \in DOMAIN all /\ Like(all[n], nodes[n]) /\ all[n].next = nodes[n].next

\* The nodes of a rule once it has its first k bodies.
HasBodies(c, rule, k, at) ==
    LET node == c.nodes[at + 1]
    IN  /\ at < c.last /\ Closed(c.nodes, at, c.last)
        /\ node.type = rule.type /\ node.data = Data(rule) /\ node.next = Null
        /\ Len(node.children) = k
        /\ \A j \in 1..k : node.children[j].key = BodiesOf(rule)[j].key
        /\ \A all \in NodeMap : ExtendsBut(all, c.nodes, at + 1) =>
              \A j \in 1..k :
                 IsBody(all, BodiesOf(rule)[j].body, node.children[j].child, Standing(all))

\* What is in r, of the nodes before and of those of the body.
HasHung(r, c, at, key, b) ==
    /\ c.last \in Nat /\ b.last \in Nat /\ b.first \in Nat
    /\ DOMAIN r.nodes = (at + 1)..b.last
    /\ \A n \in (at + 2)..c.last : r.nodes[n] = c.nodes[n]
    /\ \A n \in (c.last + 1)..b.last : r.nodes[n] = b.nodes[n]
    /\ r.nodes[at + 1].type = c.nodes[at + 1].type /\ r.nodes[at + 1].data = c.nodes[at + 1].data
    /\ r.nodes[at + 1].next = c.nodes[at + 1].next
    /\ r.nodes[at + 1].children = Append(c.nodes[at + 1].children, [key |-> key, child |-> b.first])

LEMMA HungNodes ==
  ASSUME NEW c \in Call, NEW at \in Nat, NEW key \in Key, NEW b \in Body, NEW r,
         IsHung(r, c, at + 1, key, b), at < c.last, Closed(c.nodes, at, c.last),
         c.last <= b.last, Closed(b.nodes, c.last, b.last)
  PROVE  HasHung(r, c, at, key, b)
<1>. DEFINE nodes == Both(c.nodes, b.nodes)
            id == at + 1
            child == [key |-> key, child |-> b.first]
<1>1. /\ c.last \in Nat /\ b.last \in Nat /\ b.first \in Nat
      /\ c.nodes \in NodeMap /\ b.nodes \in NodeMap
  BY DEF Body, Call
<1>2. DOMAIN c.nodes = (at + 1)..c.last /\ DOMAIN b.nodes = (c.last + 1)..b.last
  BY DEF Closed
<1>3. /\ DOMAIN nodes = DOMAIN c.nodes \cup DOMAIN b.nodes
      /\ \A n \in DOMAIN c.nodes : nodes[n] = c.nodes[n]
      /\ \A n \in DOMAIN b.nodes \ DOMAIN c.nodes : nodes[n] = b.nodes[n]
  BY <1>1, BothIs
<1>4. /\ DOMAIN r.nodes = DOMAIN nodes
      /\ \A n \in DOMAIN nodes :
            /\ n # id => r.nodes[n] = nodes[n]
            /\ r.nodes[n].type = nodes[n].type /\ r.nodes[n].data = nodes[n].data
            /\ r.nodes[n].parent = nodes[n].parent /\ r.nodes[n].next = nodes[n].next
            /\ n = id => r.nodes[n].children = Append(nodes[n].children, child)
  BY DEF IsHung
<1>. HIDE DEF nodes, child
<1>5. DOMAIN nodes = (at + 1)..b.last
  BY <1>1, <1>2, <1>3
<1>6. \A n \in (at + 2)..c.last : n \in DOMAIN nodes /\ n # id /\ nodes[n] = c.nodes[n]
  BY <1>1, <1>2, <1>3
<1>7. \A n \in (c.last + 1)..b.last : n \in DOMAIN nodes /\ n # id /\ nodes[n] = b.nodes[n]
  BY <1>1, <1>2, <1>3
<1>8. id \in DOMAIN nodes /\ nodes[id] = c.nodes[id]
  BY <1>1, <1>2, <1>3
<1>9. /\ \A n \in (at + 2)..c.last : r.nodes[n] = c.nodes[n]
      /\ \A n \in (c.last + 1)..b.last : r.nodes[n] = b.nodes[n]
  BY <1>4, <1>6, <1>7
<1>10. /\ r.nodes[id].type = c.nodes[id].type /\ r.nodes[id].data = c.nodes[id].data
       /\ r.nodes[id].next = c.nodes[id].next
       /\ r.nodes[id].children = Append(c.nodes[id].children, child)
  BY <1>4, <1>8
<1>11. DOMAIN r.nodes = (at + 1)..b.last
  BY <1>4, <1>5
<1>. QED
  BY <1>1, <1>9, <1>10, <1>11, SMTT(20) DEF child, HasHung

\* A body is hung under its rule.
LEMMA BodyAdded ==
  ASSUME NEW c \in Call, NEW rule \in Items, NEW k \in 1..Len(BodiesOf(rule)), NEW at \in Nat,
         HasBodies(c, rule, k - 1, at), NEW b \in Body, NEW r,
         BodyStands(b, BodiesOf(rule)[k].body, c.last, at + 1),
         IsHung(r, c, at + 1, BodiesOf(rule)[k].key, b)
  PROVE  HasBodies(r, rule, k, at)
<1>. DEFINE id == at + 1
            bodies == BodiesOf(rule)
            child == [key |-> bodies[k].key, child |-> b.first]
            old == c.nodes[id].children
<1>0. k \in Nat /\ k # 0 /\ bodies[k].key \in Key
  BY BodiesOfItems
<1>1. /\ at < c.last /\ Closed(c.nodes, at, c.last) /\ c.last <= b.last
      /\ Closed(b.nodes, c.last, b.last)
  BY DEF HasBodies, BodyStands
<1>2. /\ c.last \in Nat /\ b.last \in Nat /\ b.first \in Nat
      /\ DOMAIN r.nodes = (at + 1)..b.last
      /\ \A n \in (at + 2)..c.last : r.nodes[n] = c.nodes[n]
      /\ \A n \in (c.last + 1)..b.last : r.nodes[n] = b.nodes[n]
      /\ r.nodes[id].type = c.nodes[id].type /\ r.nodes[id].data = c.nodes[id].data
      /\ r.nodes[id].next = c.nodes[id].next
      /\ r.nodes[id].children = Append(old, child)
  <2>. DEFINE key == bodies[k].key
  <2>1. IsHung(r, c, at + 1, key, b) /\ key \in Key
    BY <1>0
  <2>. HIDE DEF key
  <2>2. HasHung(r, c, at, key, b)
    BY <1>1, <2>1, HungNodes
  <2>. QED
    BY <2>2 DEF HasHung, key
<1>a. at < c.last /\ c.last <= b.last /\ c.last \in Nat /\ b.last \in Nat
  BY <1>1, <1>2
<1>3. r.last = b.last
  BY DEF IsHung
<1>4. /\ c.nodes[id].type = rule.type /\ c.nodes[id].data = Data(rule) /\ c.nodes[id].next = Null
      /\ Len(old) = k - 1 /\ \A j \in 1..(k - 1) : old[j].key = bodies[j].key
  BY DEF HasBodies
<1>5. /\ DOMAIN c.nodes = id..c.last /\ DOMAIN b.nodes = (c.last + 1)..b.last
      /\ \A n \in id..c.last : LinksForward(c.nodes, n, c.last)
      /\ \A n \in (c.last + 1)..b.last : LinksForward(b.nodes, n, b.last)
  BY <1>1 DEF Closed
<1>6. old \in Seq([key : Key, child : Nat])
  <2>1. c.nodes \in NodeMap /\ id \in DOMAIN c.nodes
    BY <1>1, <1>2, <1>5 DEF Call
  <2>2. c.nodes[id] \in Node
    BY <2>1, NodeMapElements
  <2>. QED
    BY <2>2 DEF Node
<1>7. child \in [key : Key, child : Nat] /\ child.key = bodies[k].key /\ child.child = b.first
  BY <1>0, <1>2
<1>. DEFINE new == r.nodes[id].children
<1>8. /\ Len(new) = k /\ DOMAIN new = 1..k /\ DOMAIN old = 1..(k - 1) /\ new[k] = child
      /\ \A j \in 1..(k - 1) : new[j] = old[j]
  <2>. DEFINE C == [key : Key, child : Nat]
  <2>. HIDE DEF C, child, old, new
  <2>1. old \in Seq(C) /\ child \in C /\ new = Append(old, child)
    BY <1>2, <1>6, <1>7 DEF C, new
  <2>2. Append(old, child) \in Seq(C) /\ Len(Append(old, child)) = Len(old) + 1
        /\ (\A j \in 1..Len(old) : Append(old, child)[j] = old[j])
        /\ Append(old, child)[Len(old) + 1] = child
    BY <2>1, AppendProperties
  <2>3. Len(old) = k - 1
    BY <1>4 DEF old
  <2>. QED
    BY <1>0, <2>1, <2>2, <2>3, LenProperties
<1>. HIDE DEF child, old, new, bodies
<1>9. \A j \in 1..k : j \in 1..(k - 1) \/ j = k
  BY <1>0
<1>10. \A j \in 1..k : new[j].key = bodies[j].key
  BY <1>4, <1>7, <1>8, <1>9
<1>11. b.first # Null => /\ b.first \in (c.last + 1)..b.last
                         /\ b.nodes[b.first].parent = id
  BY DEF BodyStands
<1>12. LinksForward(r.nodes, id, b.last)
  <2>1. r.nodes[id].next = Null
    BY <1>2, <1>4
  <2>2. ASSUME NEW j \in 1..k, new[j].child # Null
        PROVE  new[j].child \in (id + 1)..b.last /\ r.nodes[new[j].child].parent = id
    <3>1. CASE j = k
      <4>1. new[j].child = b.first /\ b.first # Null
        BY <1>7, <1>8, <2>2, <3>1
      <4>2. b.first \in (id + 1)..b.last
        BY <1>1, <1>2, <1>11, <4>1
      <4>3. r.nodes[b.first].parent = id
        BY <1>2, <1>11, <4>1
      <4>. QED
        BY <4>1, <4>2, <4>3
    <3>2. CASE j # k
      <4>1. j \in DOMAIN old /\ new[j] = old[j]
        BY <1>8, <1>9, <3>2
      <4>2. LinksForward(c.nodes, id, c.last)
        <5>1. id \in id..c.last
          BY <1>a
        <5>. QED
          BY <1>5, <5>1
      <4>3. old[j].child \in (id + 1)..c.last /\ c.nodes[old[j].child].parent = id
        BY <2>2, <4>1, <4>2 DEF LinksForward, old
      <4>4. (id + 1)..c.last = (at + 2)..c.last /\ (id + 1)..c.last \subseteq (id + 1)..b.last
        BY <1>1, <1>2
      <4>. QED
        BY <1>2, <4>1, <4>3, <4>4
    <3>. QED
      BY <3>1, <3>2
  <2>. QED
    BY <1>8, <2>1, <2>2 DEF LinksForward, new
<1>13. ASSUME NEW n \in (at + 2)..c.last PROVE LinksForward(r.nodes, n, b.last)
  <2>1. LinksForward(c.nodes, n, c.last)
    BY <1>2, <1>5
  <2>2. \A m \in (n + 1)..c.last : m \in (at + 2)..c.last /\ m \in (n + 1)..b.last
    BY <1>1, <1>2
  <2>3. r.nodes[n] = c.nodes[n] /\ \A m \in (n + 1)..c.last : r.nodes[m] = c.nodes[m]
    BY <1>2, <2>2
  <2>. QED
    BY <2>1, <2>2, <2>3 DEF LinksForward
<1>14. ASSUME NEW n \in (c.last + 1)..b.last PROVE LinksForward(r.nodes, n, b.last)
  <2>1. LinksForward(b.nodes, n, b.last)
    BY <1>2, <1>5
  <2>2. \A m \in (n + 1)..b.last : m \in (c.last + 1)..b.last
    BY <1>1, <1>2
  <2>3. r.nodes[n] = b.nodes[n] /\ \A m \in (n + 1)..b.last : r.nodes[m] = b.nodes[m]
    BY <1>2, <2>2
  <2>. QED
    BY <2>1, <2>3 DEF LinksForward
<1>15. Closed(r.nodes, at, b.last)
  <2>1. \A n \in id..b.last : n = id \/ n \in (at + 2)..c.last \/ n \in (c.last + 1)..b.last
    BY <1>1, <1>2
  <2>2. \A n \in id..b.last : LinksForward(r.nodes, n, b.last)
    BY <1>12, <1>13, <1>14, <2>1
  <2>. QED
    BY <1>2, <2>2 DEF Closed
<1>16. ASSUME NEW all \in NodeMap, ExtendsBut(all, r.nodes, id), NEW j \in 1..k
       PROVE  IsBody(all, bodies[j].body, new[j].child, Standing(all))
  <2>1. \A n \in (id + 1)..b.last : n \in DOMAIN all /\ Like(all[n], r.nodes[n]) /\ all[n].next = r.nodes[n].next
    <3>1. \A n \in (id + 1)..b.last : n \in DOMAIN r.nodes \ {id}
      BY <1>2
    <3>. QED
      BY <1>16, <3>1 DEF ExtendsBut
  <2>2. CASE j = k
    <3>1. \A n \in DOMAIN b.nodes : n \in (id + 1)..b.last /\ r.nodes[n] = b.nodes[n]
      BY <1>1, <1>2, <1>5
    <3>2. Extends(all, b.nodes, Null)
      BY <2>1, <3>1 DEF Extends
    <3>3. IsBody(all, bodies[k].body, b.first, Standing(all))
      BY <3>2 DEF BodyStands, bodies
    <3>. QED
      BY <1>7, <1>8, <2>2, <3>3
  <2>3. CASE j # k
    <3>1. \A n \in DOMAIN c.nodes \ {id} : n \in (id + 1)..b.last /\ r.nodes[n] = c.nodes[n]
      <4>1. \A n \in id..c.last : n # id => n \in (at + 2)..c.last /\ n \in (id + 1)..b.last
        BY <1>a
      <4>. QED
        BY <1>2, <1>5, <4>1
    <3>2. ExtendsBut(all, c.nodes, id)
      BY <2>1, <3>1 DEF ExtendsBut
    <3>3. j \in 1..(k - 1) /\ new[j] = old[j]
      BY <1>8, <1>9, <2>3
    <3>4. IsBody(all, bodies[j].body, old[j].child, Standing(all))
      BY <3>2, <3>3 DEF HasBodies, bodies, old
    <3>. QED
      BY <3>3, <3>4
  <2>. QED
    BY <2>2, <2>3
<1>17. at < r.last
  BY <1>a, <1>3
<1>. QED
  BY <1>2, <1>3, <1>4, <1>8, <1>10, <1>15, <1>16, <1>17 DEF HasBodies, new, bodies

-----------------------------------------------------------------------------

\* A node with all its bodies stands for its rule.
LEMMA RuleWithBodies ==
  ASSUME NEW rule \in Items, NEW at \in Nat, NEW r \in Call,
         HasBodies(r, rule, Len(BodiesOf(rule)), at)
  PROVE  RuleStands(r, rule, at)
<1>. DEFINE id == at + 1
            bodies == BodiesOf(rule)
            node == r.nodes[id]
<1>1. /\ at < r.last /\ Closed(r.nodes, at, r.last) /\ node.next = Null
      /\ node.type = rule.type /\ node.data = Data(rule) /\ Len(node.children) = Len(bodies)
      /\ \A j \in 1..Len(bodies) : node.children[j].key = bodies[j].key
  BY DEF HasBodies
<1>2. id \in DOMAIN r.nodes
  <2>1. r.last \in Nat
    BY DEF Call
  <2>. QED
    BY <1>1, <2>1 DEF Closed
<1>3. DOMAIN bodies = 1..Len(bodies)
  BY BodiesOfItems
<1>4. ASSUME NEW all \in NodeMap, Extends(all, r.nodes, id)
      PROVE  id \in Standing(all)[rule]
  <2>1. ExtendsBut(all, r.nodes, id)
    BY <1>4 DEF Extends, ExtendsBut
  <2>2. \A j \in 1..Len(bodies) : IsBody(all, bodies[j].body, node.children[j].child, Standing(all))
    BY <2>1 DEF HasBodies
  <2>3. id \in DOMAIN all /\ Like(all[id], node)
    BY <1>2, <1>4 DEF Extends
  <2>. HIDE DEF bodies, node
  <2>4. Stands(all, id, rule, Standing(all))
    BY <1>1, <1>3, <2>2, <2>3 DEF Stands, Like, bodies
  <2>. QED
    BY <2>3, <2>4, StandingDoes
<1>. QED
  BY <1>1, <1>4 DEF RuleStands

\* A node just made has no bodies yet.
LEMMA NoBodiesYet ==
  ASSUME NEW rule \in Items, NEW at \in Nat
  PROVE  HasBodies(NewNode(at + 1, rule.type, Data(rule)), rule, 0, at)
<1>. DEFINE c == NewNode(at + 1, rule.type, Data(rule))
<1>1. rule.type \in RuleType /\ Data(rule) \in RuleData /\ at + 1 \in Nat
  BY DEF RuleType, RuleData
<1>2. /\ c.last = at + 1 /\ DOMAIN c.nodes = {at + 1}
      /\ c.nodes[at + 1].type = rule.type /\ c.nodes[at + 1].data = Data(rule)
      /\ c.nodes[at + 1].next = Null /\ c.nodes[at + 1].children = <<>>
  BY <1>1, NewNodeType
<1>. HIDE DEF c
<1>3. {at + 1} = (at + 1)..(at + 1) /\ at < at + 1
  OBVIOUS
<1>4. Len(<<>>) = 0 /\ DOMAIN <<>> = {} /\ 1..0 = {}
  OBVIOUS
<1>5. LinksForward(c.nodes, at + 1, at + 1)
  BY <1>2, <1>4 DEF LinksForward
<1>6. Closed(c.nodes, at, at + 1)
  BY <1>2, <1>3, <1>5 DEF Closed
<1>7. HasBodies(c, rule, 0, at)
  BY <1>2, <1>3, <1>4, <1>6 DEF HasBodies
<1>. QED
  BY <1>7 DEF c

\* A rule is parsed if what is in its bodies is.
LEMMA RuleFromBodies ==
  ASSUME NEW rule \in Items, \A item \in Nested(rule) : RuleIsParsed(item)
  PROVE  RuleIsParsed(rule)
<1>. SUFFICES ASSUME NEW at \in Nat, ParseRule[rule][at].outcome = "ok"
              PROVE  RuleStands(ParseRule[rule][at], rule, at)
  BY DEF RuleIsParsed
<1>. DEFINE id == at + 1
            node == NewNode(id, rule.type, Data(rule))
            bodies == BodiesOf(rule)
            N == Len(bodies)
            r == ParseRule[rule][at]
<1>1. r = ParseRuleAt(rule, at, ParseRule) /\ r \in Call
  BY ParseRuleDoes DEF Parser
<1>2. HasBodies(node, rule, 0, at) /\ node \in Call
  <2>1. rule.type \in RuleType /\ Data(rule) \in RuleData /\ id \in Nat
    BY DEF RuleType, RuleData
  <2>. QED
    BY <2>1, NoBodiesYet, NewNodeType
<1>3. N \in Nat /\ DOMAIN bodies = 1..N
      /\ \A k \in 1..N : bodies[k].body \in Seq(Items) /\ Range(bodies[k].body) \subseteq Nested(rule)
                         /\ bodies[k].key \in Key
  BY BodiesOfItems
<1>4. CASE rule.type \notin ControlRules
  <2>1. Failed("throws", at).outcome = "throws" /\ Failed("undefined", at).outcome = "undefined"
    BY DEF Failed
  <2>2. r = NewNode(id, rule.type, TaskData(rule))
    BY <1>1, <1>4, <2>1 DEF ParseRuleAt
  <2>3. r = node
    BY <1>4, <2>2 DEF Data
  <2>4. bodies = <<>>
    BY <1>4 DEF BodiesOf, ControlRules
  <2>5. N = 0
    BY <2>4
  <2>. HIDE DEF r, node, N
  <2>6. HasBodies(r, rule, N, at)
    BY <1>2, <2>3, <2>5
  <2>. QED
    BY <1>1, <2>6, RuleWithBodies DEF r, N
<1>5. CASE rule.type \in ControlRules
  <2>1. rule.type # "ERROR"
    BY <1>5 DEF ControlRules, LoopRules
  <2>2. r = ParseBodies(node, id, bodies, ParseRule)
    BY <1>1, <1>5, <2>1 DEF ParseRuleAt, Data
  <2>3. PICK made : AreMade(made, node, id, rule, ParseRule)
    BY <1>2, ParseRuleDoes, ParseBodiesDoes
  <2>. DEFINE Good == {k \in 0..N : made[k].outcome = "ok" => HasBodies(made[k], rule, k, at)}
  <2>4. 0 \in Good
    BY <1>2, <1>3, <2>3 DEF AreMade
  <2>5. ASSUME NEW k \in 1..N, k - 1 \in Good PROVE k \in Good
    <3>. SUFFICES ASSUME made[k].outcome = "ok" PROVE HasBodies(made[k], rule, k, at)
      BY <1>3
    <3>. DEFINE c == made[k - 1]
                b == ParseControlBody(bodies[k].body, c.last, id, ParseRule)
    <3>1. c \in Call /\ made[k] = AddBody(c, id, bodies[k], ParseRule)
      BY <1>3, <2>3 DEF AreMade
    <3>2. c.outcome = "ok"
      BY <3>1 DEF AddBody
    <3>3. HasBodies(c, rule, k - 1, at)
      BY <2>5, <3>2
    <3>4. made[k] = SetChildren(c, id, bodies[k].key, b)
      BY <3>1, <3>2 DEF AddBody
    <3>5. c.last \in Nat /\ bodies[k].body \in Seq(Items) /\ bodies[k].key \in Key
      BY <1>3, <3>1 DEF Call
    <3>6. b \in Body
      BY <3>5, ParseRuleDoes, ParseControlBodyType
    <3>7. IsHung(made[k], c, id, bodies[k].key, b)
      <4>. HIDE DEF b, c, bodies
      <4>. QED
        BY <3>1, <3>4, <3>5, <3>6, SetChildrenDoes
    <3>8. b.outcome = "ok"
      BY <3>7 DEF IsHung
    <3>9. \A item \in Range(bodies[k].body) : RuleIsParsed(item)
      BY <1>3
    <3>10. BodyStands(b, bodies[k].body, c.last, id)
      <4>. HIDE DEF bodies, c
      <4>. QED
        BY <3>5, <3>8, <3>9, BodyIsParsed
    <3>. HIDE DEF b, c
    <3>. QED
      BY <3>1, <3>3, <3>6, <3>7, <3>10, BodyAdded
  <2>6. N \in Good
    <3>. HIDE DEF Good, N
    <3>1. 0..N \subseteq Good
      BY <1>3, <2>4, <2>5, Induction
    <3>. QED
      BY <1>3, <3>1
  <2>7. r = made[N]
    BY <2>2, <2>3 DEF AreMade
  <2>8. HasBodies(r, rule, N, at)
    BY <2>6, <2>7
  <2>. QED
    BY <1>1, <2>8, RuleWithBodies
<1>. QED
  BY <1>4, <1>5

LEMMA EveryRuleIsParsed == \A rule \in Items : RuleIsParsed(rule)
<1>. DEFINE S == {rule \in Items : RuleIsParsed(rule)}
<1>1. ASSUME NEW rule \in Items, NestedParts[rule] \subseteq S PROVE rule \in S
  BY <1>1, RuleFromBodies DEF NestedParts
<1>. HIDE DEF S
<1>2. Items \subseteq S
  BY <1>1, NestedTree, TreeInduction
<1>. QED
  BY <1>2 DEF S

\* What parseRules returns for the rules of a file.
LEMMA ParseRulesDoes ==
  ASSUME NEW items \in Seq(Items)
  PROVE  /\ ParseRules(items) \in Body
         /\ ParseRules(items).outcome = "ok" => BodyStands(ParseRules(items), items, 0, Null)
<1>1. Null \in Nat /\ \A item \in Range(items) : RuleIsParsed(item)
  BY EveryRuleIsParsed, LenProperties, ElementOfSeq DEF Null, Range
<1>. QED
  BY <1>1, ParseRuleDoes, ParseControlBodyType, BodyIsParsed DEF ParseRules

\* The tree that parseRules left.
TreeStands ==
    /\ tree.nodes \in NodeMap /\ first \in Nat
    /\ \E last \in Nat : Closed(tree.nodes, 0, last) /\ (first # Null => first \in 1..last)
    /\ first # Null => tree.nodes[first].parent = Null
    /\ IsBody(tree.nodes, file.rules, first, Standing(tree.nodes))

\* The file stays what it is, and the tree what parseRules made of it.
TreeOfFile == file \in Files /\ (tree.outcome = "ok" => TreeStands)

LEMMA ReadRulesStands ==
  ASSUME file \in Files, ReadRules
  PROVE  TreeOfFile'
<1>. DEFINE b == ParseRules(file.rules)
            new == [nodes |-> b.nodes, outcome |-> b.outcome]
<1>1. tree' = new /\ first' = b.first /\ file' = file
  BY DEF ReadRules
<1>2. file.rules \in Seq(Items)
  BY RulesAssumption
<1>3. /\ b \in Body
      /\ b.outcome = "ok" => BodyStands(b, file.rules, 0, Null)
  BY <1>2, ParseRulesDoes
<1>4. new.nodes = b.nodes /\ new.outcome = b.outcome
  OBVIOUS
<1>. HIDE DEF b, new
<1>5. b.nodes \in NodeMap /\ b.last \in Nat /\ b.first \in Nat
  BY <1>3 DEF Body
<1>6. ASSUME b.outcome = "ok" PROVE TreeStands'
  <2>1. /\ Closed(b.nodes, 0, b.last)
        /\ b.first # Null => b.first \in (0 + 1)..b.last /\ b.nodes[b.first].parent = Null
        /\ \A all \in NodeMap :
              Extends(all, b.nodes, Null) => IsBody(all, file.rules, b.first, Standing(all))
    BY <1>3, <1>6 DEF BodyStands
  <2>2. Extends(b.nodes, b.nodes, Null)
    BY DEF Extends, Like
  <2>3. IsBody(b.nodes, file.rules, b.first, Standing(b.nodes))
    BY <1>5, <2>1, <2>2
  <2>4. tree'.nodes = b.nodes /\ first' = b.first /\ file'.rules = file.rules
    BY <1>1, <1>4
  <2>5. \E last \in Nat : Closed(b.nodes, 0, last) /\ (b.first # Null => b.first \in 1..last)
    BY <1>5, <2>1
  <2>. QED
    BY <1>5, <2>1, <2>3, <2>4, <2>5 DEF TreeStands
<1>. QED
  BY <1>1, <1>4, <1>6 DEF TreeOfFile

\* Every step but ReadRules leaves the file and the tree as they are.
LEMMA FileSteps ==
  ASSUME [FileNext]_fileVars
  PROVE  ReadRules \/ UNCHANGED <<file, tree, first>>
BY DEF FileNext, ReadSettings, ParseSettings, PrintRules, EvaluateGuard, fileVars

LEMMA TreeStandsAlways == FileSpec => []TreeOfFile
<1>1. FileInit => TreeOfFile
  <2>. SUFFICES ASSUME FileInit PROVE TreeOfFile
    OBVIOUS
  <2>1. tree.outcome = "no" /\ file \in Files
    BY DEF FileInit, SettingsInit
  <2>. QED
    BY <2>1 DEF TreeOfFile
<1>2. TreeOfFile /\ [FileNext]_fileVars => TreeOfFile'
  <2>. SUFFICES ASSUME TreeOfFile, [FileNext]_fileVars PROVE TreeOfFile'
    OBVIOUS
  <2>1. CASE ReadRules
    BY <2>1, ReadRulesStands DEF TreeOfFile
  <2>2. CASE UNCHANGED <<file, tree, first>>
    BY <2>2 DEF TreeOfFile, TreeStands
  <2>. QED
    BY <2>1, <2>2, FileSteps
<1>. QED
  BY <1>1, <1>2, PTL DEF FileSpec

\* For any grammar and any file: following next pointers and children from the
\* first node gives the rules of the file in order, each under its own guard,
\* without the comments, and the parents lead back (parseControlBody,
\* setNextNode, setParentNode, setChildren).
THEOREM RulesCorrect == FileSpec => []RulesAsWritten
<1>1. TreeOfFile => RulesAsWritten
  <2>. SUFFICES ASSUME TreeOfFile, tree.outcome = "ok"
                PROVE  /\ IsBody(tree.nodes, file.rules, first, Standing(tree.nodes))
                       /\ ParentsEnclose
    BY DEF RulesAsWritten
  <2>1. TreeStands
    BY DEF TreeOfFile
  <2>2. PICK last \in Nat : Closed(tree.nodes, 0, last)
    BY <2>1 DEF TreeStands
  <2>3. \A n \in DOMAIN tree.nodes : LinksForward(tree.nodes, n, last)
    BY <2>2 DEF Closed
  <2>4. ParentsEnclose
    BY <2>1, <2>3 DEF ParentsEnclose, LinksForward, TreeStands
  <2>. QED
    BY <2>1, <2>4 DEF TreeStands
<1>. QED
  BY <1>1, TreeStandsAlways, PTL

-----------------------------------------------------------------------------
(* What is listed of rules                                                 *)

PrintedLine == [depth : Nat, type : RuleType, data : RuleData] \cup {Crash}

\* What is listed of the children of a body from the n-th on.
IsListing(f, items, depth, listing) ==
    f = [n \in 1..(Len(items) + 1) |->
            IF n > Len(items) THEN <<>>
            ELSE IF items[n].type = "comment" THEN f[n + 1]
            ELSE listing[items[n]][depth] \o f[n + 1]]

LEMMA ListingOfBodyExists ==
  ASSUME NEW items \in Seq(Items), NEW depth, NEW listing
  PROVE  \E f : IsListing(f, items, depth, listing)
<1>. DEFINE N == Len(items)
            line(n, rest) == IF items[n].type = "comment" THEN rest ELSE listing[items[n]][depth] \o rest
            from(f, k) == f = [n \in (N + 1 - k)..(N + 1) |-> IF n > N THEN <<>> ELSE line(n, f[n + 1])]
            Good == {k \in 0..N : \E f : from(f, k)}
<1>0. N \in Nat
  BY LenProperties
<1>. HIDE DEF N, line
<1>1. 0 \in Good
  <2>1. \A n \in (N + 1 - 0)..(N + 1) : n > N
    BY <1>0
  <2>2. from([n \in (N + 1 - 0)..(N + 1) |-> <<>>], 0)
    BY <2>1
  <2>. HIDE DEF from
  <2>. QED
    BY <1>0, <2>2
<1>2. ASSUME NEW k \in 1..N, k - 1 \in Good PROVE k \in Good
  <2>1. PICK f : from(f, k - 1)
    BY <1>2
  <2>. DEFINE low == N + 1 - k
              g == [n \in low..(N + 1) |-> IF n > low THEN f[n] ELSE line(n, f[n + 1])]
  <2>2. low \in 1..N /\ N + 1 - (k - 1) = low + 1 /\ ~ (low > N)
    BY <1>0
  <2>. HIDE DEF low
  <2>3. \A n \in low..(N + 1) : n > low => n \in (low + 1)..(N + 1)
    BY <1>0, <2>2
  <2>4. \A n \in low..(N + 1) : ~ (n > N) => n + 1 \in low..(N + 1) /\ n + 1 > low
    BY <1>0, <2>2
  <2>5. ASSUME NEW n \in low..(N + 1) PROVE g[n] = IF n > N THEN <<>> ELSE line(n, g[n + 1])
    <3>1. CASE n > low
      <4>1. f[n] = IF n > N THEN <<>> ELSE line(n, f[n + 1])
        BY <2>1, <2>2, <2>3, <3>1
      <4>2. g[n] = f[n] /\ (~ (n > N) => g[n + 1] = f[n + 1])
        BY <2>4, <3>1
      <4>. QED
        BY <4>1, <4>2
    <3>2. CASE ~ (n > low)
      <4>1. n = low /\ ~ (n > N)
        BY <1>0, <2>2, <3>2
      <4>2. g[n] = line(n, f[n + 1]) /\ g[n + 1] = f[n + 1]
        BY <2>4, <3>2, <4>1
      <4>. QED
        BY <4>1, <4>2
    <3>. QED
      BY <3>1, <3>2
  <2>6. g = [n \in low..(N + 1) |-> g[n]]
    OBVIOUS
  <2>. HIDE DEF g
  <2>7. from(g, k)
    BY <2>5, <2>6 DEF low
  <2>. HIDE DEF from
  <2>. QED
    BY <1>0, <2>7
<1>. HIDE DEF Good
<1>3. 0..N \subseteq Good
  BY <1>0, <1>1, <1>2, Induction
<1>4. N \in Good
  BY <1>0, <1>3
<1>5. \E f : from(f, N)
  BY <1>4 DEF Good
<1>6. N + 1 - N = 1
  BY <1>0
<1>. QED
  BY <1>5, <1>6 DEF IsListing, line, N

LEMMA BodyListingMeans ==
  ASSUME NEW items \in Seq(Items), NEW depth, NEW listing
  PROVE  \E from :
           /\ IsListing(from, items, depth, listing)
           /\ BodyListing(items, depth, listing)
              = IF \A n \in DOMAIN items : items[n].type = "comment" THEN <<Crash>> ELSE from[1]
<1>. DEFINE Is(f) == f = [n \in 1..(Len(items) + 1) |->
                            IF n > Len(items) THEN <<>>
                            ELSE IF items[n].type = "comment" THEN f[n + 1]
                            ELSE listing[items[n]][depth] \o f[n + 1]]
            from == CHOOSE f : Is(f)
<1>1. \E f : Is(f)
  <2>1. PICK f : IsListing(f, items, depth, listing)
    BY ListingOfBodyExists
  <2>2. Is(f)
    BY <2>1 DEF IsListing
  <2>. HIDE DEF Is
  <2>. QED
    BY <2>2
<1>2. Is(from)
  <2>. HIDE DEF Is
  <2>. QED
    BY <1>1
<1>3. BodyListing(items, depth, listing)
      = IF \A n \in DOMAIN items : items[n].type = "comment" THEN <<Crash>> ELSE from[1]
  BY DEF BodyListing
<1>4. IsListing(from, items, depth, listing)
  BY <1>2 DEF IsListing
<1>. HIDE DEF from
<1>. QED
  BY <1>3, <1>4

\* The lines from the n-th child on.
LEMMA ListingSteps ==
  ASSUME NEW items \in Seq(Items), NEW depth, NEW listing, NEW f, IsListing(f, items, depth, listing)
  PROVE  /\ f[Len(items) + 1] = <<>>
         /\ \A n \in 1..Len(items) :
               f[n] = IF items[n].type = "comment" THEN f[n + 1]
                      ELSE listing[items[n]][depth] \o f[n + 1]
<1>1. Len(items) \in Nat
  BY LenProperties
<1>2. /\ Len(items) + 1 \in 1..(Len(items) + 1) /\ Len(items) + 1 > Len(items)
      /\ \A n \in 1..Len(items) : n \in 1..(Len(items) + 1) /\ ~ (n > Len(items))
  BY <1>1
<1>. QED
  BY <1>2 DEF IsListing

LEMMA BodyListingType ==
  ASSUME NEW items \in Seq(Items), NEW depth \in Nat, NEW listing,
         \A item \in Range(items) : listing[item][depth] \in Seq(PrintedLine)
  PROVE  BodyListing(items, depth, listing) \in Seq(PrintedLine)
<1>. DEFINE N == Len(items)
<1>1. N \in Nat /\ DOMAIN items = 1..N /\ \A n \in 1..N : items[n] \in Range(items)
  BY LenProperties DEF Range
<1>2. PICK from :
        /\ IsListing(from, items, depth, listing)
        /\ BodyListing(items, depth, listing)
           = IF \A n \in DOMAIN items : items[n].type = "comment" THEN <<Crash>> ELSE from[1]
  BY BodyListingMeans
<1>3. /\ from[N + 1] = <<>>
      /\ \A n \in 1..N : from[n] = IF items[n].type = "comment" THEN from[n + 1]
                                   ELSE listing[items[n]][depth] \o from[n + 1]
  BY <1>2, ListingSteps
<1>. DEFINE Good == {k \in 0..N : from[N + 1 - k] \in Seq(PrintedLine)}
<1>. HIDE DEF N
<1>4. 0 \in Good
  <2>1. N + 1 - 0 = N + 1 /\ <<>> \in Seq(PrintedLine)
    BY <1>1, EmptySeq
  <2>2. from[N + 1 - 0] = <<>>
    BY <1>3, <2>1
  <2>3. from[N + 1 - 0] \in Seq(PrintedLine)
    BY <2>1, <2>2
  <2>. QED
    BY <1>1, <2>3
<1>5. ASSUME NEW k \in 1..N, k - 1 \in Good PROVE k \in Good
  <2>. DEFINE n == N + 1 - k
  <2>1. n \in 1..N /\ N + 1 - (k - 1) = n + 1
    BY <1>1
  <2>2. from[n + 1] \in Seq(PrintedLine)
    BY <1>5, <2>1
  <2>. HIDE DEF n
  <2>3. listing[items[n]][depth] \in Seq(PrintedLine)
    BY <1>1, <2>1
  <2>4. listing[items[n]][depth] \o from[n + 1] \in Seq(PrintedLine)
    BY <2>2, <2>3, ConcatProperties
  <2>5. from[n] \in Seq(PrintedLine)
    BY <1>3, <2>1, <2>2, <2>4
  <2>. QED
    BY <1>1, <2>5 DEF n
<1>. HIDE DEF Good
<1>6. 0..N \subseteq Good
  BY <1>1, <1>4, <1>5, Induction
<1>7. from[1] \in Seq(PrintedLine)
  <2>1. N \in Good /\ N + 1 - N = 1
    BY <1>1, <1>6
  <2>. QED
    BY <2>1 DEF Good
<1>8. <<Crash>> \in Seq(PrintedLine)
  BY DEF PrintedLine
<1>. QED
  BY <1>2, <1>7, <1>8

LEMMA BodyListingDepends ==
  ASSUME NEW items \in Seq(Items), NEW depth, NEW listing, NEW other,
         \A item \in Range(items) : listing[item] = other[item]
  PROVE  BodyListing(items, depth, listing) = BodyListing(items, depth, other)
<1>. DEFINE N == Len(items)
            from(f, l) == [n \in 1..(N + 1) |-> IF n > N THEN <<>>
                                                ELSE IF items[n].type = "comment" THEN f[n + 1]
                                                ELSE l[items[n]][depth] \o f[n + 1]]
            Is(f) == f = from(f, listing)
            IsToo(f) == f = from(f, other)
            none == \A n \in DOMAIN items : items[n].type = "comment"
<1>1. N \in Nat /\ DOMAIN items = 1..N
  BY LenProperties
<1>2. ASSUME NEW n \in 1..(N + 1), ~ (n > N) PROVE listing[items[n]] = other[items[n]]
  <2>1. n \in DOMAIN items
    BY <1>1, <1>2
  <2>2. items[n] \in Range(items)
    BY <2>1 DEF Range
  <2>. QED
    BY <2>2
<1>3. ASSUME NEW f PROVE from(f, listing) = from(f, other)
  <2>. HIDE DEF N
  <2>. QED
    BY <1>2
<1>. DEFINE one == CHOOSE f : Is(f)
            two == CHOOSE f : IsToo(f)
<1>4. BodyListing(items, depth, listing) = IF none THEN <<Crash>> ELSE one[1]
  BY DEF BodyListing
<1>5. BodyListing(items, depth, other) = IF none THEN <<Crash>> ELSE two[1]
  BY DEF BodyListing
<1>6. one = two
  <2>1. \A f : Is(f) <=> IsToo(f)
    BY <1>3
  <2>. HIDE DEF Is, IsToo
  <2>. QED
    BY <2>1
<1>. HIDE DEF one, two, none
<1>. QED
  BY <1>4, <1>5, <1>6

\* Sequences of lines, one after the other.
LEMMA FlattenLines ==
  ASSUME NEW n \in Nat, NEW seqs, DOMAIN seqs = 1..n, seqs = [k \in DOMAIN seqs |-> seqs[k]],
         \A k \in 1..n : seqs[k] \in Seq(PrintedLine)
  PROVE  FlattenSeq(seqs) \in Seq(PrintedLine)
<1>1. seqs \in [1..n -> Seq(PrintedLine)]
  BY SMT
<1>2. seqs \in Seq(Seq(PrintedLine))
  BY <1>1, SeqDef
<1>. QED
  BY <1>2, FlattenType

\* The lines of a rule, given those of the rules in its bodies.
RuleListing(rule, depth, listing) ==
    <<Line(rule.type, Data(rule), depth)>>
    \o FlattenSeq([k \in DOMAIN BodiesOf(rule) |->
                      BodyListing(BodiesOf(rule)[k].body, depth + 1, listing)])

LEMMA RuleListingType ==
  ASSUME NEW rule \in Items, NEW depth \in Nat, NEW listing \in [Items -> [Nat -> Seq(PrintedLine)]]
  PROVE  RuleListing(rule, depth, listing) \in Seq(PrintedLine)
<1>. DEFINE bodies == BodiesOf(rule)
            seqs == [k \in DOMAIN bodies |-> BodyListing(bodies[k].body, depth + 1, listing)]
            line == Line(rule.type, Data(rule), depth)
<1>1. /\ Len(bodies) \in Nat /\ DOMAIN bodies = 1..Len(bodies) /\ depth + 1 \in Nat
      /\ \A k \in DOMAIN bodies : bodies[k].body \in Seq(Items)
  BY BodiesOfItems
<1>. HIDE DEF bodies
<1>2. ASSUME NEW k \in DOMAIN bodies
      PROVE  BodyListing(bodies[k].body, depth + 1, listing) \in Seq(PrintedLine)
  <2>. DEFINE items == bodies[k].body
  <2>1. items \in Seq(Items)
    BY <1>1
  <2>. HIDE DEF items
  <2>2. \A item \in Range(items) : item \in Items
    BY <2>1, LenProperties, ElementOfSeq DEF Range
  <2>3. \A item \in Range(items) : listing[item][depth + 1] \in Seq(PrintedLine)
    BY <1>1, <2>2
  <2>4. BodyListing(items, depth + 1, listing) \in Seq(PrintedLine)
    BY <1>1, <2>1, <2>3, BodyListingType
  <2>. QED
    BY <2>4 DEF items
<1>3. DOMAIN seqs = 1..Len(bodies) /\ seqs = [k \in DOMAIN seqs |-> seqs[k]]
  BY <1>1
<1>4. \A k \in 1..Len(bodies) : seqs[k] \in Seq(PrintedLine)
  BY <1>1, <1>2
<1>. HIDE DEF seqs
<1>5. FlattenSeq(seqs) \in Seq(PrintedLine)
  BY <1>1, <1>3, <1>4, FlattenLines
<1>6. line \in PrintedLine
  <2>1. rule.type \in RuleType /\ Data(rule) \in RuleData
    BY DEF RuleType, RuleData
  <2>. QED
    BY <2>1 DEF Line, PrintedLine
<1>. HIDE DEF line
<1>7. <<line>> \in Seq(PrintedLine)
  BY <1>6
<1>8. <<line>> \o FlattenSeq(seqs) \in Seq(PrintedLine)
  BY <1>5, <1>7, ConcatProperties
<1>. QED
  BY <1>8 DEF RuleListing, line, seqs, bodies

LEMMA RuleListingDepends ==
  ASSUME NEW rule \in Items, NEW depth, NEW listing, NEW other,
         \A item \in Nested(rule) : listing[item] = other[item]
  PROVE  RuleListing(rule, depth, listing) = RuleListing(rule, depth, other)
<1>. DEFINE bodies == BodiesOf(rule)
<1>1. \A k \in DOMAIN bodies : bodies[k].body \in Seq(Items) /\ Range(bodies[k].body) \subseteq Nested(rule)
  BY BodiesOfItems
<1>. HIDE DEF bodies
<1>2. ASSUME NEW k \in DOMAIN bodies
      PROVE  BodyListing(bodies[k].body, depth + 1, listing) = BodyListing(bodies[k].body, depth + 1, other)
  <2>. DEFINE items == bodies[k].body
  <2>1. items \in Seq(Items) /\ \A item \in Range(items) : listing[item] = other[item]
    BY <1>1
  <2>. HIDE DEF items
  <2>2. BodyListing(items, depth + 1, listing) = BodyListing(items, depth + 1, other)
    BY <2>1, BodyListingDepends
  <2>. QED
    BY <2>2 DEF items
<1>3. [k \in DOMAIN bodies |-> BodyListing(bodies[k].body, depth + 1, listing)]
      = [k \in DOMAIN bodies |-> BodyListing(bodies[k].body, depth + 1, other)]
  BY <1>2
<1>. QED
  BY <1>3 DEF RuleListing, bodies

\* So Listing is what it says.
LEMMA ListingDoes ==
  ASSUME NEW rule \in Items, NEW depth \in Nat
  PROVE  Listing[rule][depth] = RuleListing(rule, depth, Listing)
<1>. DEFINE V == [Nat -> Seq(PrintedLine)]
            lines(r, f) == [d \in Nat |-> RuleListing(r, d, f)]
            step == [x \in Items \X [Items -> V] |-> lines(x[1], x[2])]
<1>1. \A r \in Items, f \in [Items -> V] : step[<<r, f>>] = lines(r, f)
  OBVIOUS
<1>2. ASSUME NEW r \in Items, NEW f \in [Items -> V] PROVE lines(r, f) \in V
  <2>1. \A d \in Nat : RuleListing(r, d, f) \in Seq(PrintedLine)
    BY RuleListingType
  <2>. QED
    BY <2>1
<1>3. IsStep(Items, NestedParts, V, step)
  <2>1. step \in [Items \X [Items -> V] -> V]
    <3>. HIDE DEF V, lines
    <3>. QED
      BY <1>2
  <2>2. ASSUME NEW r \in Items, NEW f \in [Items -> V], NEW g \in [Items -> V],
               \A p \in NestedParts[r] : f[p] = g[p]
        PROVE  step[<<r, f>>] = step[<<r, g>>]
    <3>1. \A item \in Nested(r) : f[item] = g[item]
      BY <2>2 DEF NestedParts
    <3>2. ASSUME NEW d \in Nat PROVE RuleListing(r, d, f) = RuleListing(r, d, g)
      <4>. HIDE DEF V, lines, step
      <4>. QED
        BY <3>1, RuleListingDepends
    <3>3. lines(r, f) = lines(r, g)
      BY <3>2
    <3>. QED
      BY <1>1, <3>3
  <2>. HIDE DEF step, V
  <2>. QED
    BY <2>1, <2>2 DEF IsStep
<1>4. \E v : v \in V
  <2>1. [d \in Nat |-> <<>>] \in V
    BY EmptySeq
  <2>. QED
    BY <2>1
<1>. HIDE DEF step, V, lines
<1>5. PICK f \in [Items -> V] : f = [r \in Items |-> step[<<r, f>>]]
  <2>1. PICK v : v \in V
    BY <1>4
  <2>. QED
    BY <1>3, <2>1, NestedTree, Recursion
<1>6. f = [r \in Items |-> lines(r, f)]
  BY <1>1, <1>5
<1>. DEFINE Is(g) == g = [r \in Items |-> [d \in Nat |-> RuleListing(r, d, g)]]
<1>7. Listing = CHOOSE g : Is(g)
  BY DEF Listing, RuleListing
<1>8. Is(f)
  BY <1>6 DEF lines
<1>. DEFINE L == CHOOSE g : Is(g)
<1>9. Is(L)
  <2>. HIDE DEF Is
  <2>. QED
    BY <1>8
<1>. HIDE DEF L
<1>10. L = [r \in Items |-> [d \in Nat |-> RuleListing(r, d, L)]]
  BY <1>9
<1>11. L[rule] = [d \in Nat |-> RuleListing(rule, d, L)]
  BY <1>10
<1>12. L[rule][depth] = RuleListing(rule, depth, L)
  BY <1>11
<1>. QED
  BY <1>7, <1>12 DEF L

-----------------------------------------------------------------------------
(* What is printed of nodes                                                *)

\* Nodes by how many follow; Null, which ends every chain, comes last.
Following(last) == [id \in 0..last |-> IF id = 0 THEN 0 ELSE last + 1 - id]
Later(last) == [id \in 0..last |-> IF id = 0 THEN {} ELSE {0} \cup (id + 1)..last]

LEMMA NodeTree ==
  ASSUME NEW last \in Nat
  PROVE  IsTree(0..last, Following(last), Later(last))
<1>1. Following(last) \in [0..last -> Nat] /\ Later(last) \in [0..last -> SUBSET (0..last)]
  BY DEF Following, Later
<1>2. ASSUME NEW id \in 0..last, NEW p \in Later(last)[id]
      PROVE  Following(last)[p] < Following(last)[id]
  <2>1. id # 0 /\ (p = 0 \/ p \in (id + 1)..last)
    BY <1>2 DEF Later
  <2>2. p \in 0..last
    BY <2>1
  <2>3. Following(last)[id] = last + 1 - id
    BY <2>1 DEF Following
  <2>4. Following(last)[p] = IF p = 0 THEN 0 ELSE last + 1 - p
    BY <2>2 DEF Following
  <2>. QED
    BY <2>1, <2>2, <2>3, <2>4
<1>. QED
  BY <1>1, <1>2 DEF IsTree

\* The links of a node.
LEMMA LinksLater ==
  ASSUME NEW nodes \in NodeMap, NEW last \in Nat, Closed(nodes, 0, last), NEW id \in 1..last
  PROVE  /\ nodes[id].next \in Later(last)[id]
         /\ nodes[id].type \in RuleType /\ nodes[id].data \in RuleData
         /\ Len(nodes[id].children) \in Nat /\ DOMAIN nodes[id].children = 1..Len(nodes[id].children)
         /\ \A k \in DOMAIN nodes[id].children : nodes[id].children[k].child \in Later(last)[id]
<1>. DEFINE C == [key : Key, child : Nat]
            children == nodes[id].children
<1>1. id \in DOMAIN nodes /\ LinksForward(nodes, id, last) /\ id \in 0..last /\ id # 0
  BY DEF Closed
<1>2. nodes[id] \in Node
  BY <1>1, NodeMapElements
<1>3. nodes[id].type \in RuleType /\ nodes[id].data \in RuleData /\ children \in Seq(C)
  BY <1>2 DEF Node
<1>4. Later(last)[id] = {0} \cup (id + 1)..last
  BY <1>1 DEF Later
<1>. HIDE DEF C, children
<1>5. Len(children) \in Nat /\ DOMAIN children = 1..Len(children)
  BY <1>3, LenProperties
<1>6. nodes[id].next \in Later(last)[id]
  BY <1>1, <1>4 DEF LinksForward, Null
<1>7. \A k \in DOMAIN children : children[k].child \in Later(last)[id]
  BY <1>1, <1>4 DEF LinksForward, Null, children
<1>. QED
  BY <1>3, <1>5, <1>6, <1>7 DEF children

LEMMA PrintFromType ==
  ASSUME NEW nodes \in NodeMap, NEW last \in Nat, Closed(nodes, 0, last), NEW id \in 0..last,
         NEW depth \in Nat, NEW print \in [0..last -> [Nat -> Seq(PrintedLine)]]
  PROVE  PrintFrom(nodes, id, depth, print) \in Seq(PrintedLine)
<1>1. CASE id = Null
  BY <1>1 DEF PrintFrom, PrintedLine
<1>2. CASE id # Null
  <2>. DEFINE children == nodes[id].children
              seqs == [k \in DOMAIN children |-> print[children[k].child][depth + 1]]
              line == Line(nodes[id].type, nodes[id].data, depth)
  <2>1. id \in 1..last /\ Later(last)[id] \subseteq 0..last
    <3>1. Later(last) \in [0..last -> SUBSET (0..last)]
      BY NodeTree DEF IsTree
    <3>. DEFINE later == Later(last)[id]
    <3>2. later \subseteq 0..last
      BY <3>1
    <3>. HIDE DEF later
    <3>3. id \in 1..last
      BY <1>2 DEF Null
    <3>. QED
      BY <3>2, <3>3 DEF later
  <2>2. /\ nodes[id].next \in Later(last)[id]
        /\ nodes[id].type \in RuleType /\ nodes[id].data \in RuleData
        /\ Len(children) \in Nat /\ DOMAIN children = 1..Len(children)
        /\ \A k \in DOMAIN children : children[k].child \in Later(last)[id]
    BY <2>1, LinksLater
  <2>3. \A k \in 1..Len(children) : children[k].child \in 0..last
    BY <2>1, <2>2
  <2>4. line \in PrintedLine
    BY <2>2 DEF Line, PrintedLine
  <2>. HIDE DEF line, children
  <2>5. <<line>> \in Seq(PrintedLine)
    BY <2>4
  <2>6. ASSUME NEW k \in 1..Len(children) PROVE seqs[k] \in Seq(PrintedLine)
    <3>. DEFINE child == children[k].child
    <3>a. child \in 0..last /\ k \in DOMAIN children
      BY <2>2, <2>3
    <3>b. depth + 1 \in Nat
      OBVIOUS
    <3>1. child \in 0..last /\ depth + 1 \in Nat /\ k \in DOMAIN children
      BY <3>a, <3>b
    <3>2. seqs[k] = print[child][depth + 1]
      BY <3>1
    <3>. HIDE DEF child, seqs
    <3>3. print[child] \in [Nat -> Seq(PrintedLine)]
      BY <3>1
    <3>4. print[child][depth + 1] \in Seq(PrintedLine)
      BY <3>1, <3>3
    <3>. QED
      BY <3>2, <3>4
  <2>7. DOMAIN seqs = 1..Len(children) /\ seqs = [k \in DOMAIN seqs |-> seqs[k]]
    BY <2>2
  <2>. HIDE DEF seqs
  <2>8. FlattenSeq(seqs) \in Seq(PrintedLine)
    BY <2>2, <2>6, <2>7, FlattenLines
  <2>9. PrintNext(nodes, id, depth, print) \in Seq(PrintedLine)
    <3>1. nodes[id].next \in 0..last
      BY <2>1, <2>2
    <3>2. print[nodes[id].next][depth] \in Seq(PrintedLine)
      BY <3>1
    <3>. QED
      BY <3>2, EmptySeq DEF PrintNext
  <2>10. PrintNode(nodes, id, depth) = <<line>> /\ PrintChildren(nodes, id, depth, print) = FlattenSeq(seqs)
    BY DEF PrintNode, PrintChildren, line, seqs, children
  <2>11. <<line>> \o FlattenSeq(seqs) \in Seq(PrintedLine)
    BY <2>5, <2>8, ConcatProperties
  <2>12. (<<line>> \o FlattenSeq(seqs)) \o PrintNext(nodes, id, depth, print) \in Seq(PrintedLine)
    BY <2>9, <2>11, ConcatProperties
  <2>. QED
    BY <1>2, <2>10, <2>12 DEF PrintFrom
<1>. QED
  BY <1>1, <1>2

LEMMA PrintFromDepends ==
  ASSUME NEW nodes \in NodeMap, NEW last \in Nat, Closed(nodes, 0, last), NEW id \in 0..last,
         NEW depth, NEW print, NEW other, \A p \in Later(last)[id] : print[p] = other[p]
  PROVE  PrintFrom(nodes, id, depth, print) = PrintFrom(nodes, id, depth, other)
<1>1. CASE id = Null
  BY <1>1 DEF PrintFrom
<1>2. CASE id # Null
  <2>. DEFINE children == nodes[id].children
  <2>1. id \in 1..last
    BY <1>2 DEF Null
  <2>2. /\ nodes[id].next \in Later(last)[id]
        /\ \A k \in DOMAIN children : children[k].child \in Later(last)[id]
    BY <2>1, LinksLater
  <2>3. print[nodes[id].next] = other[nodes[id].next]
        /\ \A k \in DOMAIN children : print[children[k].child] = other[children[k].child]
    BY <2>2
  <2>4. PrintNext(nodes, id, depth, print) = PrintNext(nodes, id, depth, other)
    BY <2>3 DEF PrintNext
  <2>5. PrintChildren(nodes, id, depth, print) = PrintChildren(nodes, id, depth, other)
    BY <2>3 DEF PrintChildren
  <2>. QED
    BY <2>4, <2>5 DEF PrintFrom
<1>. QED
  BY <1>1, <1>2

\* The lines from every node on, which the call for the first one prints.
IsPrint(print, nodes, last) ==
    /\ \A id \in 0..last, depth \in Nat : print[id][depth] = PrintFrom(nodes, id, depth, print)
    /\ \A start : PrintRuleTree(nodes, start) = print[start][0]

LEMMA PrintExists ==
  ASSUME NEW nodes \in NodeMap, NEW last \in Nat, Closed(nodes, 0, last)
  PROVE  \E print : IsPrint(print, nodes, last)
<1>. DEFINE T == 0..last
            V == [Nat -> Seq(PrintedLine)]
            lines(id, f) == [depth \in Nat |-> PrintFrom(nodes, id, depth, f)]
            step == [x \in T \X [T -> V] |-> lines(x[1], x[2])]
<1>0. {Null} \cup DOMAIN nodes = T
  BY DEF Closed, Null
<1>1. \A id \in T, f \in [T -> V] : step[<<id, f>>] = lines(id, f)
  OBVIOUS
<1>2. ASSUME NEW id \in T, NEW f \in [T -> V] PROVE lines(id, f) \in V
  <2>1. \A depth \in Nat : PrintFrom(nodes, id, depth, f) \in Seq(PrintedLine)
    BY PrintFromType
  <2>. QED
    BY <2>1
<1>3. IsStep(T, Later(last), V, step)
  <2>1. step \in [T \X [T -> V] -> V]
    <3>. HIDE DEF T, V, lines
    <3>. QED
      BY <1>2
  <2>2. ASSUME NEW id \in T, NEW f \in [T -> V], NEW g \in [T -> V],
               \A p \in Later(last)[id] : f[p] = g[p]
        PROVE  step[<<id, f>>] = step[<<id, g>>]
    <3>0. id \in 0..last
      OBVIOUS
    <3>1. ASSUME NEW depth \in Nat PROVE PrintFrom(nodes, id, depth, f) = PrintFrom(nodes, id, depth, g)
      <4>. HIDE DEF T, V
      <4>. QED
        BY <2>2, <3>0, PrintFromDepends
    <3>2. lines(id, f) = lines(id, g)
      BY <3>1
    <3>. QED
      BY <1>1, <3>2
  <2>. HIDE DEF T, step, V
  <2>. QED
    BY <2>1, <2>2 DEF IsStep
<1>4. \E v : v \in V
  <2>1. [d \in Nat |-> <<>>] \in V
    BY EmptySeq
  <2>. QED
    BY <2>1
<1>5. IsTree(T, Following(last), Later(last))
  BY NodeTree
<1>. HIDE DEF T, step, V, lines
<1>6. PICK f \in [T -> V] : f = [id \in T |-> step[<<id, f>>]]
  <2>1. PICK v : v \in V
    BY <1>4
  <2>. QED
    BY <1>3, <1>5, <2>1, Recursion
<1>7. f = [id \in T |-> lines(id, f)]
  BY <1>1, <1>6
<1>. DEFINE Is(g) == g = [id \in {Null} \cup DOMAIN nodes |->
                            [depth \in Nat |-> PrintFrom(nodes, id, depth, g)]]
            print == CHOOSE g : Is(g)
<1>8. Is(f)
  BY <1>0, <1>7 DEF lines
<1>9. Is(print)
  <2>. HIDE DEF Is
  <2>. QED
    BY <1>8
<1>10. \A start : PrintRuleTree(nodes, start) = print[start][0]
  BY DEF PrintRuleTree
<1>. HIDE DEF print
<1>11. print = [id \in T |-> [depth \in Nat |-> PrintFrom(nodes, id, depth, print)]]
  BY <1>0, <1>9
<1>12. \A id \in T : print[id] = [depth \in Nat |-> PrintFrom(nodes, id, depth, print)]
  BY <1>11
<1>13. \A id \in T, depth \in Nat : print[id][depth] = PrintFrom(nodes, id, depth, print)
  BY <1>12
<1>14. IsPrint(print, nodes, last)
  BY <1>10, <1>13 DEF IsPrint, T
<1>. QED
  BY <1>14

\* Of the nodes that stand for a rule, and of what is below them, the rule's
\* lines are printed.
RulePrints(nodes, print, rule) ==
    \A id \in Standing(nodes)[rule], depth \in Nat :
        PrintNode(nodes, id, depth) \o PrintChildren(nodes, id, depth, print) = Listing[rule][depth]

LEMMA StandingNodes ==
  ASSUME NEW nodes, NEW last, Closed(nodes, 0, last), NEW rule \in Items,
         NEW id \in Standing(nodes)[rule]
  PROVE  id \in 1..last /\ Stands(nodes, id, rule, Standing(nodes))
<1>1. id \in DOMAIN nodes /\ Stands(nodes, id, rule, Standing(nodes))
  BY StandingDoes
<1>2. DOMAIN nodes = (0 + 1)..last
  BY DEF Closed
<1>. QED
  BY <1>1, <1>2

\* Lines that begin with those of a rule.
Continued(lines, rule, depth, rest) == lines = Listing[rule][depth] \o rest

\* One node of a chain: its rule's lines, and those of the node after it.
LEMMA NodePrinted ==
  ASSUME NEW nodes, NEW last \in Nat, Closed(nodes, 0, last), NEW print, IsPrint(print, nodes, last),
         NEW rule \in Items, RulePrints(nodes, print, rule), NEW id \in Standing(nodes)[rule],
         NEW depth \in Nat, NEW rest,
         nodes[id].next = Null => rest = <<>>,
         nodes[id].next # Null => rest = print[nodes[id].next][depth]
  PROVE  Continued(print[id][depth], rule, depth, rest)
<1>1. id \in 0..last /\ id # Null
  BY StandingNodes DEF Null
<1>2. print[id][depth] = PrintFrom(nodes, id, depth, print)
  BY <1>1 DEF IsPrint
<1>. DEFINE mine == PrintNode(nodes, id, depth) \o PrintChildren(nodes, id, depth, print)
<1>3. PrintFrom(nodes, id, depth, print) = mine \o PrintNext(nodes, id, depth, print)
  BY <1>1 DEF PrintFrom
<1>4. mine = Listing[rule][depth]
  BY DEF RulePrints
<1>5. PrintNext(nodes, id, depth, print) = rest
  BY DEF PrintNext
<1>. HIDE DEF mine
<1>. QED
  BY <1>2, <1>3, <1>4, <1>5 DEF Continued

\* From the first node of a body on, the body's lines are printed, if the lines
\* of each of its rules are.
LEMMA BodyPrinted ==
  ASSUME NEW nodes, NEW last \in Nat, Closed(nodes, 0, last), NEW print, IsPrint(print, nodes, last),
         NEW items \in Seq(Items), NEW start, IsBody(nodes, items, start, Standing(nodes)),
         \A item \in Range(items) : RulePrints(nodes, print, item),
         NEW depth \in Nat
  PROVE  print[start][depth] = BodyListing(items, depth, Listing)
<1>. DEFINE N == Len(items)
<1>1. N \in Nat /\ DOMAIN items = 1..N /\ \A n \in 1..N : items[n] \in Range(items) /\ items[n] \in Items
  BY LenProperties, ElementOfSeq DEF Range
<1>2. PICK from :
        /\ IsListing(from, items, depth, Listing)
        /\ BodyListing(items, depth, Listing)
           = IF \A n \in DOMAIN items : items[n].type = "comment" THEN <<Crash>> ELSE from[1]
  BY BodyListingMeans
<1>3. /\ from[N + 1] = <<>>
      /\ \A n \in 1..N : from[n] = IF items[n].type = "comment" THEN from[n + 1]
                                   ELSE Listing[items[n]][depth] \o from[n + 1]
  BY <1>2, ListingSteps
<1>4. PICK id :
        /\ IsChain(id, nodes, items, start)
        /\ id[N] = Null
        /\ \A n \in DOMAIN items :
              items[n].type # "comment" => id[n - 1] \in Standing(nodes)[items[n]]
  BY IsBodyMeans
<1>5. id[0] = start /\ \A n \in 1..N : id[n] = After(nodes, items[n], id[n - 1])
  BY <1>4, ChainSteps
<1>. DEFINE onlyComments(m) == \A j \in (m + 1)..N : items[j].type = "comment"
            isPrinted(m) == /\ id[m] = Null <=> onlyComments(m)
                            /\ id[m] = Null => from[m + 1] = <<>>
                            /\ id[m] # Null => print[id[m]][depth] = from[m + 1]
            Good == {k \in 0..N : isPrinted(N - k)}
<1>. HIDE DEF N
<1>6. 0 \in Good
  <2>1. N - 0 = N /\ onlyComments(N)
    BY <1>1
  <2>. HIDE DEF onlyComments
  <2>2. isPrinted(N - 0)
    BY <1>3, <1>4, <2>1
  <2>. HIDE DEF isPrinted
  <2>. QED
    BY <1>1, <2>2
<1>7. ASSUME NEW k \in 1..N, k - 1 \in Good PROVE k \in Good
  <2>. DEFINE n == N - k + 1
  <2>1. n \in 1..N /\ N - (k - 1) = n /\ N - k = n - 1 /\ n - 1 + 1 = n
    BY <1>1
  <2>2. isPrinted(n)
    BY <1>7, <2>1
  <2>. HIDE DEF n
  <2>3. (n - 1 + 1)..N = {n} \cup (n + 1)..N
    BY <1>1, <2>1
  <2>4. onlyComments(n - 1) <=> items[n].type = "comment" /\ onlyComments(n)
    BY <2>3
  <2>. HIDE DEF onlyComments
  <2>5. CASE items[n].type = "comment"
    <3>1. id[n] = id[n - 1]
      BY <1>5, <2>1, <2>5 DEF After
    <3>2. from[n] = from[n + 1]
      BY <1>3, <2>1, <2>5
    <3>3. isPrinted(n - 1)
      BY <2>1, <2>2, <2>4, <2>5, <3>1, <3>2
    <3>. QED
      BY <1>1, <2>1, <3>3
  <2>6. CASE items[n].type # "comment"
    <3>. DEFINE node == id[n - 1]
                rest == from[n + 1]
    <3>1. node \in Standing(nodes)[items[n]] /\ items[n] \in Items
      BY <1>1, <1>4, <2>1, <2>6
    <3>2. node # Null
      BY <3>1, StandingNodes DEF Null
    <3>3. id[n] = nodes[node].next
      BY <1>5, <2>1, <2>6, <3>2 DEF After
    <3>4. from[n] = Listing[items[n]][depth] \o rest
      BY <1>3, <2>1, <2>6
    <3>a. id[n] = Null => rest = <<>>
      BY <2>2
    <3>b. id[n] # Null => rest = print[id[n]][depth]
      BY <2>2
    <3>. HIDE DEF node, rest, isPrinted
    <3>5. /\ nodes[node].next = Null => rest = <<>>
          /\ nodes[node].next # Null => rest = print[nodes[node].next][depth]
      BY <3>3, <3>a, <3>b
    <3>6. RulePrints(nodes, print, items[n])
      BY <1>1, <2>1
    <3>. DEFINE rule == items[n]
    <3>c. rule \in Items /\ node \in Standing(nodes)[rule] /\ RulePrints(nodes, print, rule)
      BY <3>1, <3>6
    <3>. HIDE DEF rule
    <3>d. Continued(print[node][depth], rule, depth, rest)
      BY <3>c, <3>5, NodePrinted
    <3>7. print[node][depth] = Listing[items[n]][depth] \o rest
      BY <3>d DEF rule, Continued
    <3>8. print[node][depth] = from[n]
      BY <3>4, <3>7
    <3>9. ~ onlyComments(n - 1)
      BY <2>4, <2>6
    <3>10. isPrinted(n - 1)
      BY <2>1, <3>2, <3>8, <3>9 DEF node, isPrinted
    <3>. HIDE DEF isPrinted
    <3>. QED
      BY <1>1, <2>1, <3>10
  <2>. QED
    BY <2>5, <2>6
<1>. HIDE DEF Good, isPrinted
<1>8. 0..N \subseteq Good
  BY <1>1, <1>6, <1>7, Induction
<1>9. N \in Good /\ N - N = 0 /\ 0 + 1 = 1
  BY <1>1, <1>8
<1>a. isPrinted(0)
  BY <1>9 DEF Good
<1>10. /\ id[0] = Null <=> onlyComments(0)
       /\ id[0] = Null => from[1] = <<>>
       /\ id[0] # Null => print[id[0]][depth] = from[1]
  <2>. HIDE DEF onlyComments
  <2>. QED
    BY <1>9, <1>a DEF isPrinted
<1>11. onlyComments(0) <=> \A n \in DOMAIN items : items[n].type = "comment"
  BY <1>1
<1>. HIDE DEF onlyComments
<1>12. CASE start = Null
  <2>1. Null \in 0..last
    BY DEF Null
  <2>2. print[Null][depth] = PrintFrom(nodes, Null, depth, print)
    BY <2>1 DEF IsPrint
  <2>3. PrintFrom(nodes, Null, depth, print) = <<Crash>>
    BY DEF PrintFrom
  <2>. QED
    BY <1>2, <1>5, <1>10, <1>11, <1>12, <2>2, <2>3
<1>13. CASE start # Null
  BY <1>2, <1>5, <1>10, <1>11, <1>13
<1>. QED
  BY <1>12, <1>13

\* The lines of a rule are printed if those of the rules in its bodies are.
LEMMA RulePrinted ==
  ASSUME NEW nodes \in NodeMap, NEW last \in Nat, Closed(nodes, 0, last), NEW print,
         IsPrint(print, nodes, last), NEW rule \in Items,
         \A item \in Nested(rule) : RulePrints(nodes, print, item)
  PROVE  RulePrints(nodes, print, rule)
<1>. SUFFICES ASSUME NEW id \in Standing(nodes)[rule], NEW depth \in Nat
              PROVE  PrintNode(nodes, id, depth) \o PrintChildren(nodes, id, depth, print)
                     = Listing[rule][depth]
  BY DEF RulePrints
<1>. DEFINE bodies == BodiesOf(rule)
            children == nodes[id].children
            printedOf == [k \in DOMAIN children |-> print[children[k].child][depth + 1]]
            listed == [k \in DOMAIN bodies |-> BodyListing(bodies[k].body, depth + 1, Listing)]
<1>1. id \in 1..last /\ Stands(nodes, id, rule, Standing(nodes))
  BY StandingNodes
<1>2. /\ nodes[id].type = rule.type /\ nodes[id].data = Data(rule) /\ Len(children) = Len(bodies)
      /\ \A k \in DOMAIN bodies :
            IsBody(nodes, bodies[k].body, children[k].child, Standing(nodes))
  BY <1>1 DEF Stands
<1>3. DOMAIN children = 1..Len(children)
  BY <1>1, LinksLater
<1>4. /\ DOMAIN bodies = 1..Len(bodies)
      /\ \A k \in DOMAIN bodies : bodies[k].body \in Seq(Items) /\ Range(bodies[k].body) \subseteq Nested(rule)
  BY BodiesOfItems
<1>. HIDE DEF bodies, children
<1>5. ASSUME NEW k \in DOMAIN bodies
      PROVE  print[children[k].child][depth + 1] = BodyListing(bodies[k].body, depth + 1, Listing)
  <2>. DEFINE items == bodies[k].body
              start == children[k].child
              next == depth + 1
  <2>1. items \in Seq(Items) /\ IsBody(nodes, items, start, Standing(nodes)) /\ next \in Nat
    BY <1>2, <1>4
  <2>2. \A item \in Range(items) : RulePrints(nodes, print, item)
    BY <1>4
  <2>. HIDE DEF items, start, next
  <2>3. print[start][next] = BodyListing(items, next, Listing)
    BY <2>1, <2>2, BodyPrinted
  <2>. QED
    BY <2>3 DEF items, start, next
<1>6. printedOf = listed
  BY <1>2, <1>3, <1>4, <1>5
<1>7. PrintChildren(nodes, id, depth, print) = FlattenSeq(printedOf)
  BY DEF PrintChildren, children
<1>8. PrintNode(nodes, id, depth) = <<Line(rule.type, Data(rule), depth)>>
  BY <1>2 DEF PrintNode
<1>9. RuleListing(rule, depth, Listing)
      = <<Line(rule.type, Data(rule), depth)>> \o FlattenSeq(listed)
  BY DEF RuleListing, bodies
<1>. HIDE DEF printedOf, listed
<1>10. PrintNode(nodes, id, depth) \o PrintChildren(nodes, id, depth, print)
       = RuleListing(rule, depth, Listing)
  BY <1>6, <1>7, <1>8, <1>9
<1>. QED
  BY <1>10, ListingDoes

LEMMA EveryRulePrinted ==
  ASSUME NEW nodes \in NodeMap, NEW last \in Nat, Closed(nodes, 0, last), NEW print,
         IsPrint(print, nodes, last)
  PROVE  \A rule \in Items : RulePrints(nodes, print, rule)
<1>. DEFINE S == {rule \in Items : RulePrints(nodes, print, rule)}
<1>1. ASSUME NEW rule \in Items, NestedParts[rule] \subseteq S PROVE rule \in S
  <2>1. \A item \in Nested(rule) : RulePrints(nodes, print, item)
    BY <1>1 DEF NestedParts
  <2>. QED
    BY <2>1, RulePrinted
<1>. HIDE DEF S
<1>2. Items \subseteq S
  BY <1>1, NestedTree, TreeInduction
<1>. QED
  BY <1>2 DEF S

\* What is printed of the rules of a file.
LEMMA FilePrinted ==
  ASSUME NEW nodes \in NodeMap, NEW last \in Nat, Closed(nodes, 0, last), NEW items \in Seq(Items),
         NEW start, IsBody(nodes, items, start, Standing(nodes))
  PROVE  PrintRuleTree(nodes, start) = BodyListing(items, 0, Listing)
<1>1. PICK print : IsPrint(print, nodes, last)
  BY PrintExists
<1>2. \A item \in Range(items) : RulePrints(nodes, print, item)
  <2>1. \A item \in Range(items) : item \in Items
    BY LenProperties, ElementOfSeq DEF Range
  <2>. QED
    BY <1>1, <2>1, EveryRulePrinted
<1>3. 0 \in Nat
  OBVIOUS
<1>4. print[start][0] = BodyListing(items, 0, Listing)
  BY <1>1, <1>2, <1>3, BodyPrinted
<1>. QED
  BY <1>1, <1>4 DEF IsPrint

\* Lines are printed of the tree that is there, once it is complete.
PrintedOfTree ==
    /\ TreeOfFile
    /\ printed # <<>> => tree.outcome = "ok" /\ printed = Printed(PrintRuleTree(tree.nodes, first))

LEMMA PrintSteps ==
  ASSUME [FileNext]_fileVars
  PROVE  ReadRules \/ PrintRules \/ UNCHANGED <<tree, first, printed>>
BY DEF FileNext, ReadSettings, ParseSettings, EvaluateGuard, fileVars

\* For any grammar and any file: printRuleTreeRecursively prints every rule of
\* the file once, with its data, a body one level below its rule and before
\* what follows the rule, up to the first body that has no rules.
THEOREM PrintsCorrect == FileSpec => []PrintsEveryRule
<1>1. FileInit => printed = <<>>
  BY DEF FileInit
<1>2. TreeOfFile /\ PrintedOfTree /\ [FileNext]_fileVars /\ TreeOfFile' => PrintedOfTree'
  <2>. SUFFICES ASSUME PrintedOfTree, [FileNext]_fileVars, TreeOfFile' PROVE PrintedOfTree'
    OBVIOUS
  <2>1. CASE ReadRules
    <3>1. printed = <<>> /\ printed' = printed
      BY <2>1 DEF ReadRules, PrintedOfTree
    <3>. QED
      BY <3>1 DEF PrintedOfTree
  <2>2. CASE PrintRules
    <3>1. /\ tree.outcome = "ok" /\ printed' = Printed(PrintRuleTree(tree.nodes, first))
          /\ tree' = tree /\ first' = first
      BY <2>2 DEF PrintRules
    <3>. QED
      BY <3>1 DEF PrintedOfTree
  <2>3. CASE UNCHANGED <<tree, first, printed>>
    BY <2>3 DEF PrintedOfTree
  <2>. QED
    BY <2>1, <2>2, <2>3, PrintSteps
<1>3. TreeOfFile /\ printed = <<>> => PrintedOfTree
  BY DEF PrintedOfTree
<1>4. PrintedOfTree => PrintsEveryRule
  <2>. SUFFICES ASSUME PrintedOfTree, printed # <<>>
                PROVE  printed = Printed(BodyListing(file.rules, 0, Listing))
    BY DEF PrintsEveryRule
  <2>1. TreeStands /\ file.rules \in Seq(Items)
    BY RulesAssumption DEF PrintedOfTree, TreeOfFile
  <2>2. /\ tree.nodes \in NodeMap /\ IsBody(tree.nodes, file.rules, first, Standing(tree.nodes))
        /\ \E last \in Nat : Closed(tree.nodes, 0, last)
    BY <2>1 DEF TreeStands
  <2>3. PrintRuleTree(tree.nodes, first) = BodyListing(file.rules, 0, Listing)
    BY <2>1, <2>2, FilePrinted
  <2>. QED
    BY <2>3 DEF PrintedOfTree
<1>. QED
  BY <1>1, <1>2, <1>3, <1>4, TreeStandsAlways, PTL DEF FileSpec

-----------------------------------------------------------------------------
(* A game file and its parts                                               *)

OwnGuards(rule) ==
    IF rule.type = "match" THEN {rule.entries[k].guard : k \in DOMAIN rule.entries} ELSE {}

\* The guards of rules are expressions.
LEMMA GuardsAreTerms ==
  ASSUME NEW rule \in Items
  PROVE  Guards[rule] \subseteq Terms
<1>. DEFINE V == SUBSET Terms
            guards(r, f) == OwnGuards(r) \cup UNION {f[item] : item \in Nested(r)}
            step == [x \in Items \X [Items -> V] |-> guards(x[1], x[2])]
            Is(f) == f = [r \in Items |-> guards(r, f)]
<1>1. \A r \in Items, f \in [Items -> V] : step[<<r, f>>] = guards(r, f)
  OBVIOUS
<1>2. ASSUME NEW r \in Items, NEW f \in [Items -> V] PROVE guards(r, f) \in V
  <2>1. OwnGuards(r) \subseteq Terms
    BY MatchEntries DEF OwnGuards
  <2>2. Nested(r) \subseteq Items
    BY NestedTree DEF IsTree, NestedParts
  <2>. QED
    BY <2>1, <2>2
<1>3. IsStep(Items, NestedParts, V, step)
  <2>1. step \in [Items \X [Items -> V] -> V]
    <3>. HIDE DEF guards, V
    <3>. QED
      BY <1>2
  <2>2. ASSUME NEW r \in Items, NEW f \in [Items -> V], NEW g \in [Items -> V],
               \A p \in NestedParts[r] : f[p] = g[p]
        PROVE  step[<<r, f>>] = step[<<r, g>>]
    <3>1. \A item \in Nested(r) : f[item] = g[item]
      BY <2>2 DEF NestedParts
    <3>2. guards(r, f) = guards(r, g)
      BY <3>1
    <3>. QED
      BY <1>1, <3>2
  <2>. HIDE DEF step, V
  <2>. QED
    BY <2>1, <2>2 DEF IsStep
<1>4. {} \in V
  OBVIOUS
<1>. HIDE DEF step, V
<1>5. PICK f \in [Items -> V] : f = [r \in Items |-> step[<<r, f>>]]
  BY <1>3, <1>4, NestedTree, Recursion
<1>6. Is(f)
  BY <1>1, <1>5
<1>7. Guards = CHOOSE g : Is(g)
  BY DEF Guards, OwnGuards
<1>8. Is(Guards)
  <2>. HIDE DEF Is
  <2>. QED
    BY <1>6, <1>7
<1>. DEFINE G == Guards
            S == {r \in Items : G[r] \subseteq Terms}
<1>9. G = [r \in Items |-> guards(r, G)]
  BY <1>8
<1>. HIDE DEF G
<1>10. ASSUME NEW r \in Items, NestedParts[r] \subseteq S PROVE r \in S
  <2>1. OwnGuards(r) \subseteq Terms
    BY MatchEntries DEF OwnGuards
  <2>2. \A item \in Nested(r) : G[item] \subseteq Terms
    BY <1>10 DEF NestedParts
  <2>3. G[r] = guards(r, G)
    BY <1>9
  <2>. QED
    BY <2>1, <2>2, <2>3
<1>. HIDE DEF S
<1>11. Items \subseteq S
  BY <1>10, NestedTree, TreeInduction
<1>. QED
  BY <1>11 DEF S, G

\* Whatever else the programs do with a game file, its settings are read as
\* GameSettings has it, and guards of its rules are evaluated as Expressions
\* has it: every step is a step of theirs or leaves their variables alone.
THEOREM FileImplementsParts == FileSpec => SettingsSpec /\ ExpressionsSpec
<1>. DEFINE FileKept == file \in Files
<1>1. FileInit => SettingsInit /\ answer = NoAnswer /\ FileKept
  BY DEF FileInit, SettingsInit
<1>2. [FileNext]_fileVars => [ParseSettings]_settingsVars
  BY DEF FileNext, ReadSettings, ReadRules, PrintRules, EvaluateGuard, fileVars, settingsVars
<1>3. FileKept /\ [FileNext]_fileVars => FileKept'
  BY DEF FileNext, ReadSettings, ParseSettings, ReadRules, PrintRules, EvaluateGuard, fileVars
<1>4. FileKept /\ [FileNext]_fileVars => [ExpressionsNext]_answer
  <2>. SUFFICES ASSUME FileKept, [FileNext]_fileVars PROVE [ExpressionsNext]_answer
    OBVIOUS
  <2>1. CASE UNCHANGED answer
    BY <2>1
  <2>2. CASE \E rule \in Range(file.rules), scopes \in Stacks :
                \E guard \in Guards[rule], depth \in DOMAIN scopes : EvaluateGuard(guard, scopes, depth)
    <3>1. PICK rule \in Range(file.rules), scopes \in Stacks :
                \E guard \in Guards[rule], depth \in DOMAIN scopes : EvaluateGuard(guard, scopes, depth)
      BY <2>2
    <3>2. PICK guard \in Guards[rule], depth \in DOMAIN scopes : EvaluateGuard(guard, scopes, depth)
      BY <3>1
    <3>3. rule \in Items
      <4>. DEFINE rules == file.rules
      <4>1. rules \in Seq(Items)
        BY RulesAssumption
      <4>. HIDE DEF rules
      <4>2. \A r \in Range(rules) : r \in Items
        BY <4>1, LenProperties, ElementOfSeq DEF Range
      <4>. QED
        BY <4>2 DEF rules
    <3>4. guard \in Terms
      BY <3>3, GuardsAreTerms
    <3>5. Evaluate(guard, scopes, depth)
      BY <3>2 DEF EvaluateGuard
    <3>6. ExpressionsNext
      BY <3>4, <3>5 DEF ExpressionsNext
    <3>. QED
      BY <3>6
  <2>. QED
    BY <2>1, <2>2 DEF FileNext, ReadSettings, ReadRules, PrintRules, fileVars
<1>. QED
  BY <1>1, <1>2, <1>3, <1>4, PTL DEF FileSpec, SettingsSpec, ExpressionsSpec

\* So a file's settings are read as they are written there, while its rules are
\* read, printed and evaluated.
THEOREM FileSettingsCorrect == FileSpec => []SettingsAsWritten
  BY FileImplementsParts, SettingsCorrect, PTL

\* And the guards in a file's rules evaluate to what they mean, and leave no
\* token that has to be taken.
THEOREM FileEvaluatesCorrect == FileSpec => []EvaluatesAsWritten
  BY FileImplementsParts, EvaluatesCorrect, PTL
=============================================================================
