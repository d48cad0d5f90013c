---------------------------- MODULE GameSession ----------------------------
(***************************************************************************)
(* Who plays a character: the ProtocolGame objects of src/src/protocolgame *)
(* .cpp, one for each connection that logs the same character in, and the  *)
(* Player objects they make and share.  A Player is reference counted; the *)
(* protocol keeps a raw pointer to its player, the player a shared pointer *)
(* to its client.                                                          *)
(*                                                                         *)
(* A task of the dispatcher is one step.  The network thread only posts    *)
(* tasks; a connection is "closing" from close() until the last reference  *)
(* to the Connection object is dropped, and then "gone".  ALLOW_CLONES is  *)
(* off and the account manager is left out: with either, one character may *)
(* be in the game twice by intent.                                         *)
(***************************************************************************)
EXTENDS Naturals, Sequences, SequencesExt, FiniteSets

CONSTANTS Protocol,      \* the connections; the Player made by p is named p
          None,          \* no protocol, no player
          ReplaceKick    \* the values REPLACE_KICK_ON_LOGIN takes: \subseteq BOOLEAN

ASSUME GameSessionAssumption == None \notin Protocol /\ ReplaceKick \subseteq BOOLEAN

VARIABLES prot,          \* the ProtocolGame objects and their connections
          obj,           \* the Player objects
          tasks,         \* the dispatcher's list
          toRelease,     \* ToReleaseCreatures: how often a player is in it
          autosend,      \* OutputMessagePool::bufferedProtocols
          loops          \* sendAll events under way

gVars == <<prot, obj, tasks, toRelease, autosend, loops>>
sending == <<autosend, loops>>

Fresh == [conn     |-> "none",       \* none, open, closing, gone
          player   |-> None,
          waiting  |-> None,         \* whom the scheduled connect() is for
          accept   |-> FALSE,        \* acceptPackets
          released |-> FALSE]        \* release() has run

Unmade == [where      |-> "nowhere", \* nowhere, made, game, removed, deleted
           client     |-> None,
           refs       |-> 0,         \* referenceCounter
           connecting |-> FALSE,     \* isConnecting
           checks     |-> "none"]    \* none, on, off: in checkCreatureLists,
                                     \* with its creatureCheck on or off

GInit == /\ prot = [p \in Protocol |-> Fresh]
         /\ obj = [x \in Protocol |-> Unmade]
         /\ tasks = << >>
         /\ toRelease = [x \in Protocol |-> 0]
         /\ autosend = {}
         /\ loops = 0
-----------------------------------------------------------------------------
(* Pieces of the handlers.                                                 *)

InGame(x) == x # None /\ obj[x].where = "game"

\* Game::getPlayerByGUID.
Found == {x \in Protocol : obj[x].where = "game"}

\* The connections of the protocols in P are closed, in this state of prot;
\* close() does nothing to one that is closed already.
Closed(P, was) == [p \in Protocol |->
    IF p \in P /\ was[p].conn = "open" THEN [was[p] EXCEPT !.conn = "closing"] ELSE was[p]]

Releases(P, queue) ==
    queue \o SetToSeq({[do |-> "release", by |-> p] : p \in {q \in P : prot[q].conn = "open"}})

\* Game::removeCreature: out of the map, the map's reference is dropped
\* later, and that of the check lists after the next round of checks.
Removed(x, objects) ==
    IF objects[x].where = "game"
    THEN [objects EXCEPT ![x].where = "removed", ![x].checks = "off"]
    ELSE objects

ToRelease(x, objects) ==
    IF objects[x].where = "game" THEN [toRelease EXCEPT ![x] = @ + 1] ELSE toRelease

\* decrementReferenceCounter, n times: the last reference deletes the object.
Dropped(x, n, objects) ==
    [objects EXCEPT ![x].refs = @ - n,
                    ![x].where = IF n > 0 /\ objects[x].refs = n THEN "deleted" ELSE @]

NextTask(do) == tasks # << >> /\ Head(tasks).do = do
-----------------------------------------------------------------------------
(* The network thread and the scheduler.                                   *)

\* onRecvFirstMessage, when all its checks pass.
Arrive(p) == /\ prot[p].conn = "none"
             /\ prot' = [prot EXCEPT ![p].conn = "open"]
             /\ tasks' = Append(tasks, [do |-> "login", by |-> p])
             /\ UNCHANGED <<obj, toRelease, sending>>

\* The peer leaves, a timeout, a bad packet, 0x0F: Connection::close.
NetworkClose(p) == /\ prot[p].conn = "open"
                   /\ prot' = Closed({p}, prot)
                   /\ tasks' = Releases({p}, tasks)
                   /\ UNCHANGED <<obj, toRelease, sending>>

\* The last handler of the connection returns.
Gone(p) == /\ prot[p].conn = "closing"
           /\ prot' = [prot EXCEPT ![p].conn = "gone"]
           /\ UNCHANGED <<obj, tasks, toRelease, sending>>

\* parsePacket, byte 0x14; one at a time is enough.
AskLogout(p) == /\ prot[p].conn = "open" /\ prot[p].accept /\ prot[p].player # None
                /\ [do |-> "logout", by |-> p] \notin Range(tasks)
                /\ tasks' = Append(tasks, [do |-> "logout", by |-> p])
                /\ UNCHANGED <<prot, obj, toRelease, sending>>

\* The second after login() is over.
ConnectDue(p) == /\ prot[p].waiting # None
                 /\ [do |-> "connect", by |-> p] \notin Range(tasks)
                 /\ tasks' = Append(tasks, [do |-> "connect", by |-> p])
                 /\ UNCHANGED <<prot, obj, toRelease, sending>>
-----------------------------------------------------------------------------
(* ProtocolGame::connect, called by a task or straight from login().       *)

\* foundPlayer->client: somebody else has the player.
Taken_Never(x) == FALSE

Taken(x) == obj[x].client # None

Refused(p, x) == ~InGame(x) \/ Taken(x)

Attach(p, x) == /\ prot' = [prot EXCEPT ![p].player = x, ![p].waiting = None, ![p].accept = TRUE]
                /\ obj' = [obj EXCEPT ![x].client = p, ![x].connecting = FALSE,
                                      ![x].refs = @ + 1]

Connect(p, x, queue) ==
    \/ /\ Refused(p, x)
       /\ prot' = [Closed({p}, prot) EXCEPT ![p].waiting = None]
       /\ tasks' = Releases({p}, queue)
       /\ UNCHANGED obj
    \/ /\ ~Refused(p, x) /\ prot[p].conn = "gone"     \* isConnectionExpired()
       /\ prot' = [prot EXCEPT ![p].waiting = None]
       /\ tasks' = queue
       /\ UNCHANGED obj
    \/ /\ ~Refused(p, x) /\ prot[p].conn # "gone"
       /\ Attach(p, x)
       /\ tasks' = queue

RunConnect(p) == /\ NextTask("connect") /\ Head(tasks).by = p
                 /\ Connect(p, prot[p].waiting, Tail(tasks))
                 /\ UNCHANGED <<toRelease, sending>>
-----------------------------------------------------------------------------
(* ProtocolGame::login.                                                    *)

\* addProtocolToAutosend: the first in an empty list starts the events.
StartsLoop_Never == FALSE

StartsLoop == autosend = {}

Autosend(p) == /\ autosend' = autosend \cup {p}
               /\ loops' = IF StartsLoop THEN loops + 1 ELSE loops

\* The constructor makes p the client; login holds the first reference.
Made == [where |-> "made", client |-> None, refs |-> 1, connecting |-> FALSE,
         checks |-> "none"]

\* A ban, a name lock, the waiting list, a failed load, no place to stand.
\* The player object stays with the protocol until release().
LoginRefused(p) ==
    /\ Found = {}
    /\ obj' = [obj EXCEPT ![p] = [Made EXCEPT !.client = p]]
    /\ prot' = [Closed({p}, prot) EXCEPT ![p].player = p]
    /\ tasks' = Releases({p}, Tail(tasks))
    /\ UNCHANGED <<toRelease, sending>>

\* Game::placeCreature: the map takes a reference, and so do the check lists.
Placed(p) == [Made EXCEPT !.client = p, !.where = "game", !.refs = @ + 2, !.checks = "on"]

LoginPlaced(p) ==
    /\ Found = {}
    /\ obj' = [obj EXCEPT ![p] = Placed(p)]
    /\ prot' = [prot EXCEPT ![p].player = p, ![p].accept = TRUE]
    /\ tasks' = Tail(tasks)
    /\ Autosend(p)
    /\ UNCHANGED toRelease

\* A login script says no: onPlacedCreature kicks the player at once.
LoginKicked(p) ==
    /\ Found = {}
    /\ obj' = Removed(p, [obj EXCEPT ![p] = Placed(p)])
    /\ prot' = [Closed({p}, prot) EXCEPT ![p].player = p, ![p].accept = TRUE]
    /\ tasks' = Releases({p}, Tail(tasks))
    /\ toRelease' = [toRelease EXCEPT ![p] = @ + 1]
    /\ Autosend(p)

\* The character is in the game already.
LoginTaken(p) ==
    \E x \in Found, replace \in ReplaceKick :
      \/ /\ ~replace
         /\ prot' = Closed({p}, prot)
         /\ tasks' = Releases({p}, Tail(tasks))
         /\ UNCHANGED <<obj, toRelease, sending>>
      \/ /\ replace /\ obj[x].client # None
         /\ prot' = [Closed({obj[x].client}, prot) EXCEPT ![p].waiting = x]
         /\ tasks' = Releases({obj[x].client}, Tail(tasks))
         /\ obj' = [obj EXCEPT ![x].connecting = TRUE]
         /\ Autosend(p)
         /\ UNCHANGED toRelease
      \/ /\ replace /\ obj[x].client = None
         /\ Connect(p, x, Tail(tasks))
         /\ Autosend(p)
         /\ UNCHANGED toRelease

RunLogin(p) == /\ NextTask("login") /\ Head(tasks).by = p
               /\ LoginRefused(p) \/ LoginPlaced(p) \/ LoginKicked(p) \/ LoginTaken(p)
-----------------------------------------------------------------------------
(* ProtocolGame::release and logout, and what else takes a player out.     *)

\* The reference that release() gives back.
GivenBack_Kept(x, objects) == objects

GivenBack(x, objects) == Dropped(x, 1, objects)

\* The pointer is cleared with the reference.
Cleared_Not(x) == x

Cleared(x) == None

\* What is left in bufferedProtocols.
StillSending(p) == autosend \ {p}

RunRelease(p) ==
    /\ NextTask("release") /\ Head(tasks).by = p
    /\ tasks' = Tail(tasks)
    /\ LET x == prot[p].player IN
       IF x # None /\ obj[x].client = p
       THEN /\ obj' = GivenBack(x, [obj EXCEPT ![x].client = None])
            /\ prot' = [prot EXCEPT ![p].player = Cleared(x), ![p].released = TRUE]
       ELSE /\ prot' = [prot EXCEPT ![p].released = TRUE]
            /\ UNCHANGED obj
    /\ autosend' = StillSending(p)
    /\ UNCHANGED <<toRelease, loops>>

\* logout(): without a player it does nothing at all.
Logout(p, queue) ==
    LET x == prot[p].player IN
    IF x = None
    THEN /\ tasks' = queue
         /\ UNCHANGED <<prot, obj, toRelease>>
    ELSE /\ prot' = Closed({p}, prot)
         /\ tasks' = Releases({p}, queue)
         /\ obj' = Removed(x, obj)
         /\ toRelease' = ToRelease(x, obj)

\* The client asks: refused in a fight or by a script, but not when dead.
RunLogout(p) ==
    /\ NextTask("logout") /\ Head(tasks).by = p
    /\ \/ Logout(p, Tail(tasks))
       \/ /\ InGame(prot[p].player)
          /\ tasks' = Tail(tasks)
          /\ UNCHANGED <<prot, obj, toRelease>>
    /\ UNCHANGED sending

\* Player::kickPlayer, through the client if there is one.
TakeOut(x) ==
    IF obj[x].client # None
    THEN Logout(obj[x].client, tasks)
    ELSE /\ obj' = Removed(x, obj)
         /\ toRelease' = ToRelease(x, obj)
         /\ UNCHANGED <<prot, tasks>>

KickPlayer(x) == /\ InGame(x)
                 /\ TakeOut(x)
                 /\ UNCHANGED sending

\* Player::sendPing finds that no pong came for too long.  A player on a
\* tile that forbids logging out, or whose logout a script refuses, stays.
Pingable(x, noLogoutTile, scriptAllows) ==
    ~obj[x].connecting /\ ~noLogoutTile /\ scriptAllows

NoPong(x) == /\ InGame(x)
             /\ \E noLogoutTile, scriptAllows \in BOOLEAN :
                   Pingable(x, noLogoutTile, scriptAllows)
             /\ TakeOut(x)
             /\ UNCHANGED sending

\* A player who dies leaves the map; the client stays connected.
Die(x) == /\ InGame(x)
          /\ obj' = Removed(x, obj)
          /\ toRelease' = ToRelease(x, obj)
          /\ UNCHANGED <<prot, tasks, sending>>

\* What Game::cleanup leaves to release.
AfterCleanup_Same == toRelease

AfterCleanup == [x \in Protocol |-> 0]

\* Game::cleanup, given what is to be released by now.
CleanUp(list, objects) ==
    /\ obj' = [x \in Protocol |-> Dropped(x, list[x], objects)[x]]
    /\ toRelease' = AfterCleanup
    /\ UNCHANGED <<prot, tasks, sending>>

\* At the end of checkDecay and of checks of other creatures.
Cleanup == /\ \E x \in Protocol : toRelease[x] > 0
           /\ CleanUp(toRelease, obj)

\* checkCreatures comes to a player that was removed, and then cleans up.
CheckCreatures(x) ==
    /\ obj[x].checks = "off"
    /\ CleanUp([toRelease EXCEPT ![x] = @ + 1], [obj EXCEPT ![x].checks = "none"])

\* sendAll flushes the buffers and comes back, but for an empty list.
SendAll == /\ loops > 0 /\ autosend = {}
           /\ loops' = loops - 1
           /\ UNCHANGED <<prot, obj, tasks, toRelease, autosend>>
-----------------------------------------------------------------------------
Dispatch == \/ \E p \in Protocol : RunLogin(p) \/ RunConnect(p) \/ RunRelease(p) \/ RunLogout(p)

GNext == \/ Dispatch \/ Cleanup \/ SendAll
         \/ \E p \in Protocol : \/ Arrive(p) \/ NetworkClose(p) \/ Gone(p)
                                \/ AskLogout(p) \/ ConnectDue(p)
         \/ \E x \in Protocol : KickPlayer(x) \/ NoPong(x) \/ Die(x) \/ CheckCreatures(x)

GSpec == GInit /\ [][GNext]_gVars
-----------------------------------------------------------------------------
Someone == Protocol \cup {None}

GTypeOK ==
    /\ prot \in [Protocol -> [conn : {"none", "open", "closing", "gone"}, player : Someone,
                              waiting : Someone, accept : BOOLEAN, released : BOOLEAN]]
    /\ obj \in [Protocol -> [where : {"nowhere", "made", "game", "removed", "deleted"},
                             client : Someone, refs : 0..(Cardinality(Protocol) + 2),
                             connecting : BOOLEAN, checks : {"none", "on", "off"}]]
    /\ tasks \in Seq([do : {"login", "connect", "release", "logout"}, by : Protocol])
    /\ toRelease \in [Protocol -> 0..2]
    /\ autosend \in SUBSET Protocol
    /\ loops \in 0..Cardinality(Protocol)

\* A Player is counted once for every protocol that points to it, once for
\* the map, once for the check lists, which learn of its removal only in the
\* next round, and once for every time it is to be released: no count is
\* lost, so a protocol never uses a player that was deleted.
CountsAreReferences ==
    \A x \in Protocol :
        obj[x].refs = Cardinality({p \in Protocol : prot[p].player = x})
                      + (IF InGame(x) THEN 1 ELSE 0)
                      + (IF obj[x].checks # "none" THEN 1 ELSE 0)
                      + toRelease[x]

\* The two pointers agree.  Were the client of a player in the game a protocol
\* with no player, its logout() would return at once, and the loop with which
\* setGameState kicks everybody would never end.
ClientsAreMutual ==
    \A x, p \in Protocol : obj[x].client = p <=> prot[p].player = x

\* A character changes hands only after the old connection's release() has
\* run: its client is never replaced by another one in a single step.
NoDirectTakeover ==
    [][\A x \in Protocol : obj[x].client # None =>
            obj'[x].client \in {obj[x].client, None}]_gVars

\* The list of autosend runs empty and fills again while an event of its is
\* still pending, and login() and release() of one protocol may follow each
\* other closely: the list holds no protocol that was released, and while it
\* holds any, some event is there to flush the buffers.
AutosendServes == /\ \A p \in autosend : ~prot[p].released
                  /\ autosend # {} => loops > 0

\* connect() returns when the connection has expired, "to prevent leakage of
\* the Player": a protocol that was released holds no player.
NoLeakedPlayer == \A p \in Protocol : prot[p].released => prot[p].player = None
=============================================================================
