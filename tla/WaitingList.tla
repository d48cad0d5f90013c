---------------------------- MODULE WaitingList ----------------------------
(***************************************************************************)
(* The waiting list of src/src/protocolgame.cpp: clientLogin() lets a      *)
(* client in or puts it on one of two lists, premium players apart.  It    *)
(* runs on the dispatcher inside ProtocolGame::login, so one attempt with  *)
(* the placing of the player that follows it is one step.                  *)
(*                                                                         *)
(* Time is counted in units of five seconds, the wait a client on a short  *)
(* list is told; the lists of the instances stay shorter than five.        *)
(***************************************************************************)
EXTENDS Naturals, Sequences, SequencesExt, FiniteSets

CONSTANTS Player,        \* the ordinary players
          Premium,       \* those with a premium account
          Staff,         \* players who may always log in
          ATime,         \* what is left of a GUID that a time was stored over
          MaxPlayers,    \* MAX_PLAYERS, not 0
          MaxTime        \* bound: how long the clock runs

ASSUME WaitingListAssumption == /\ Premium \subseteq Player
                                /\ Staff \cap Player = {}
                                /\ ATime \notin Player
                                /\ MaxPlayers \in Nat \ {0} /\ MaxTime \in Nat

VARIABLES priority,      \* priorityWaitList
          waiting,       \* waitList
          online,        \* the players in the game
          told,          \* until when a client that waits is to try again
          now

wVars == <<priority, waiting, online, told, now>>

Retry == 1                        \* getWaitTime(slot) for slot < 5
Timeout == 1 + 3                  \* getTimeout(slot): 15 seconds longer

WInit == /\ priority = << >>
         /\ waiting = << >>
         /\ online = {}
         /\ told = [p \in Player |-> 0]
         /\ now = 0
-----------------------------------------------------------------------------
Holds(list, p) == \E i \in 1..Len(list) : list[i].guid = p

IndexOf(list, p) == CHOOSE i \in 1..Len(list) :
                        list[i].guid = p /\ \A j \in 1..(i - 1) : list[j].guid # p

\* cleanupList.
Clean(list) == SelectSeq(list, LAMBDA e : e.until > now)

\* findClient: std::distance(it, list.end()) + 1, that is from the end: the
\* first in line has the largest slot.
SlotInList(list, p) == Len(list) - IndexOf(list, p) + 2

Slot(p) == IF Holds(Clean(priority), p)
           THEN SlotInList(Clean(priority), p)
           ELSE Len(Clean(priority)) + SlotInList(Clean(waiting), p)

\* "let them wait a bit longer" stores the new time in ->second, the GUID.
WaitLonger(list, p) == [list EXCEPT ![IndexOf(list, p)].guid = ATime]


NewEntry(p) == [until |-> now + Timeout, guid |-> p]

\* What a client hears and does that is not let in.
Told(p) == /\ told' = [told EXCEPT ![p] = now + Retry]
           /\ UNCHANGED <<online, now>>

\* The player is placed in the game, unless loading it fails after all.
LetIn(p) == /\ online' \in {online \cup {p}, online}
            /\ told' = [told EXCEPT ![p] = 0]
            /\ UNCHANGED now
-----------------------------------------------------------------------------
(* clientLogin.                                                            *)

Count == Cardinality(online)

\* Access at once: a free place and nobody who waits.
Direct == /\ Clean(priority) = << >> /\ Clean(waiting) = << >>
          /\ Count < MaxPlayers

EnterDirectly(p) == /\ p \notin online
                    /\ Direct
                    /\ priority' = Clean(priority)
                    /\ waiting' = Clean(waiting)
                    /\ LetIn(p)

\* The server has capacity for this client, whatever its slot.
Capacity_UpToOne(p) == Count + Slot(p) <= MaxPlayers + 2

Capacity(p) == Count + Slot(p) <= MaxPlayers

OnList(p) == Holds(Clean(priority), p) \/ Holds(Clean(waiting), p)

EnterFromList(p) ==
    /\ p \notin online /\ ~Direct /\ OnList(p) /\ Capacity(p)
    /\ IF Holds(Clean(priority), p)
       THEN /\ priority' = RemoveAt(Clean(priority), IndexOf(Clean(priority), p))
            /\ waiting' = Clean(waiting)
       ELSE /\ priority' = Clean(priority)
            /\ waiting' = RemoveAt(Clean(waiting), IndexOf(Clean(waiting), p))
    /\ LetIn(p)

WaitAgain(p) ==
    /\ p \notin online /\ ~Direct /\ OnList(p) /\ ~Capacity(p)
    /\ IF Holds(Clean(priority), p)
       THEN /\ priority' = WaitLonger(Clean(priority), p)
            /\ waiting' = Clean(waiting)
       ELSE /\ priority' = Clean(priority)
            /\ waiting' = WaitLonger(Clean(waiting), p)
    /\ Told(p)

JoinList(p) ==
    /\ p \notin online /\ ~Direct /\ ~OnList(p)
    /\ IF p \in Premium
       THEN /\ priority' = Append(Clean(priority), NewEntry(p))
            /\ waiting' = Clean(waiting)
            /\ Told(p)
       ELSE /\ priority' = Clean(priority)
            /\ waiting' = Append(Clean(waiting), NewEntry(p))
            /\ Told(p)

\* Staff does not even look at the lists.
EnterAsStaff(p) == /\ p \notin online
                   /\ online' = online \cup {p}
                   /\ UNCHANGED <<priority, waiting, told, now>>
-----------------------------------------------------------------------------
Leave(p) == /\ p \in online
            /\ online' = online \ {p}
            /\ UNCHANGED <<priority, waiting, told, now>>

Tick == /\ now < MaxTime
        /\ now' = now + 1
        /\ UNCHANGED <<priority, waiting, online, told>>

\* A client tries when it likes, but one on the list not before its time.
Try(p) == told[p] <= now

WNext == \/ \E p \in Player : /\ Try(p)
                              /\ \/ EnterDirectly(p) \/ EnterFromList(p)
                                 \/ WaitAgain(p) \/ JoinList(p)
         \/ \E p \in Staff : EnterAsStaff(p)
         \/ \E p \in Player \cup Staff : Leave(p)
         \/ Tick

WSpec == WInit /\ [][WNext]_wVars
-----------------------------------------------------------------------------
Entry == [until : 1..(MaxTime + Timeout), guid : Player \cup {ATime}]


\* No ordinary player is let in when the server is full, from the street or
\* from the list, however entries expire, move up and are left behind.
NeverOverfull ==
    [][\A p \in Player : p \notin online /\ p \in online' => Count < MaxPlayers]_wVars

\* A client that tries again at the time it was told is still on the list:
\* its "timeout is set to 15 seconds longer than expected retry attempt".
KeepsPlace == \A p \in Player : told[p] >= now /\ told[p] > 0 =>
                  Holds(priority, p) \/ Holds(waiting, p)

\* The current slot is the "position in wait list": a client that waits ahead
\* of another is never turned away where the other would be let in.  The slot
\* is counted from the end of the list instead.
Ahead(q, p) == \E list \in {Clean(priority), Clean(waiting)} :
    Holds(list, q) /\ Holds(list, p) /\ IndexOf(list, q) < IndexOf(list, p)

FirstInLineFirst ==
    [][\A p, q \in Player : p \notin online /\ p \in online' /\ Ahead(q, p)
          => Capacity(q)]_wVars
=============================================================================
