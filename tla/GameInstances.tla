--------------------------- MODULE GameInstances ---------------------------
(***************************************************************************)
(* The games of the event loop and their players:                          *)
(* lib/gameInstanceManager/gameinstancemanager.cpp and                     *)
(* src/gameinstance.cpp.  A game is found by its id in waitingGameMap, and *)
(* activeGameQueue holds the ones to run; both share ownership of the game *)
(* with the caller that took it.                                           *)
(***************************************************************************)
EXTENDS Integers, Sequences, FiniteSets, SequencesExt

CONSTANTS
    Ids,             \* game instance ids, as the server hands them out
    Games,           \* GameInstance objects
    NoGame,          \* nullptr
    Players,
    numMaxPlayers,   \* 6 in the source
    MaxQueue,        \* bound: games in the queue
    MaxJoins         \* bound: players in a game

ASSUME GameAssumption == NoGame \notin Games
ASSUME BoundAssumption ==
    numMaxPlayers \in Nat /\ MaxQueue \in Nat /\ MaxJoins \in Nat

VARIABLES
    waiting,     \* waitingGameMap: id -> game
    queue,       \* activeGameQueue
    held,        \* games a caller took from the queue or the map
    idOf,        \* game -> its id; only of games that were built
    built,       \* games that were built and not destroyed
    players,     \* game -> the list variable "player" of its environment
    currPlayerCount,
    joined       \* history: id -> players assigned while a game had it

vars == <<waiting, queue, held, idOf, built, players, currPlayerCount, joined>>

Init ==
    /\ waiting = [d \in Ids |-> NoGame]
    /\ queue = <<>> /\ held = {} /\ built = {}
    /\ idOf \in [Games -> Ids] /\ \A g, h \in Games : idOf[g] = idOf[h]
    /\ players = [g \in Games |-> <<>>]
    /\ currPlayerCount = [g \in Games |-> 0]
    /\ joined = [d \in Ids |-> <<>>]

\* Plausible slip: insert_or_assign.
Assign(g, d) == [waiting EXCEPT ![d] = g]

\* putGameInstanceInMap: emplace leaves an entry alone.
Emplace(g, d) == IF waiting[d] = NoGame THEN [waiting EXCEPT ![d] = g] ELSE waiting

\* createGameInstance: a game whose id is taken is destroyed at once.
CreateGameInstance(d) ==
    /\ \E g \in Games \ built :
         /\ waiting' = Emplace(g, d)
         /\ built' = IF waiting'[d] = g THEN built \cup {g} ELSE built
         /\ idOf' = [idOf EXCEPT ![g] = d]
    /\ UNCHANGED <<queue, held, players, currPlayerCount, joined>>

GetGameInstanceFromQueue ==
    /\ queue # <<>>
    /\ held' = held \cup {Head(queue)}
    /\ queue' = Tail(queue)
    /\ UNCHANGED <<waiting, idOf, built, players, currPlayerCount, joined>>

PutGameInstanceInQueue(g) ==
    /\ g \in held /\ Len(queue) < MaxQueue
    /\ queue' = Append(queue, g)
    /\ held' = held \ {g}
    /\ UNCHANGED <<waiting, idOf, built, players, currPlayerCount, joined>>

\* Plausible slip: the find not checked against end().
FoundAlways(d) == TRUE
Found(d) == waiting[d] # NoGame

\* getGameInstanceFromMap does not take the game off the map.
GetGameInstanceFromMap(d) ==
    /\ Found(d)
    /\ held' = held \cup {waiting[d]}
    /\ UNCHANGED <<waiting, queue, idOf, built, players, currPlayerCount, joined>>

PutGameInstanceInMap(g) ==
    /\ g \in held
    /\ waiting' = Emplace(g, idOf[g])
    /\ held' = held \ {g}
    /\ UNCHANGED <<queue, idOf, built, players, currPlayerCount, joined>>

\* Plausible slip: a player put in front of the list.
AddInFront(s, p) == <<p>> \o s
AddPlayer(s, p) == Append(s, p)

\* assignPlayerToGame and addPlayerToGame: nothing ever counts the players.
AssignPlayerToGame(d, p) ==
    /\ waiting[d] # NoGame
    /\ LET g == waiting[d]
       IN  /\ currPlayerCount[g] < numMaxPlayers
           /\ Len(players[g]) < MaxJoins
           /\ players' = [players EXCEPT ![g] = AddPlayer(@, p)]
    /\ joined' = [joined EXCEPT ![d] = Append(@, p)]
    /\ UNCHANGED <<waiting, queue, held, idOf, built, currPlayerCount>>

Next ==
    \/ \E d \in Ids : CreateGameInstance(d) \/ GetGameInstanceFromMap(d)
    \/ \E g \in Games : PutGameInstanceInQueue(g) \/ PutGameInstanceInMap(g)
    \/ GetGameInstanceFromQueue
    \/ \E d \in Ids, p \in Players : AssignPlayerToGame(d, p)

Spec == Init /\ [][Next]_vars

-----------------------------------------------------------------------------
(* Properties *)

Reachable ==
    held \cup Range(queue) \cup {waiting[d] : d \in {e \in Ids : waiting[e] # NoGame}}

\* Type invariant.
TypeOK ==
    /\ waiting \in [Ids -> Games \cup {NoGame}]
    /\ queue \in Seq(Games) /\ Len(queue) <= MaxQueue
    /\ held \subseteq built /\ built \subseteq Games
    /\ idOf \in [Games -> Ids]
    /\ players \in [Games -> Seq(Players)]
    /\ currPlayerCount \in [Games -> Nat]
    /\ joined \in [Ids -> Seq(Players)]

\* Wherever a game is, on the queue, with a caller or on the map, no other
\* game has its id and the map finds it: creating a game again under an id
\* that is taken does not split the players from the game being run.  Those
\* who were assigned to an id are the players of its game, in the order they
\* joined, however often the game was moved or created again in between.
OneGamePerId ==
    /\ \A g \in Reachable : waiting[idOf[g]] = g
    /\ \A d \in Ids : waiting[d] # NoGame => players[waiting[d]] = joined[d]
=============================================================================
