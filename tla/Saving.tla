------------------------------- MODULE Saving -------------------------------
(***************************************************************************)
(* Saving a player: IOLoginData::savePlayer with the transactions of       *)
(* src/src/database.cpp, its callers that try again, and the network       *)
(* thread, whose checks of bans and passwords use the same handle.         *)
(*                                                                         *)
(* The MySQL server is external.  A session in a transaction works on a    *)
(* draft; without one each statement takes effect at once.  The server may *)
(* refuse a statement, and the connection may be lost at any moment: the   *)
(* draft is gone then, and the handle connects again by itself, outside    *)
(* of any transaction.                                                     *)
(*                                                                         *)
(* "items" stands for every list that is saved each time, "depot" for the  *)
(* lockers and chests, which are saved only when they were touched, and are *)
(* not touched by what is written into an item that lies there.  A         *)
(* list is the set of its rows, so a row inserted twice is not seen twice. *)
(***************************************************************************)
EXTENDS Naturals

CONSTANTS Row,           \* what a table may hold
          MaxTries       \* how often the patient callers try, 3

ASSUME SavingAssumption == MaxTries \in Nat \ {0}

VARIABLES mem,           \* the player in memory
          touched,       \* the tables of lockers whose DepotLocker::save is set
          rewritten,     \* history: the tables written into in place
          stored,        \* what the database holds
          draft,         \* what the open transaction has made of it
          session,       \* "tx" or "auto": the server's view of the session
          holder,        \* who holds databaseLock: "none", "game", "net"
          pc,            \* where the game thread stands
          next,          \* the next statement of savePlayer
          tries,         \* the tries that are left
          after          \* "playing", or "offline" if the player is deleted afterwards

saVars == <<mem, touched, rewritten, stored, draft, session, holder, pc, next, tries, after>>
database == <<stored, draft, session>>
player == <<mem, touched, rewritten>>
call == <<tries, after>>

Table == {"player", "items", "depot"}
Contents == {c \in [Table -> SUBSET Row] : \E r \in Row : c["player"] = {r}}

SaInit == /\ stored \in Contents
          /\ mem = stored
          /\ touched = {}
          /\ rewritten = {}
          /\ draft = stored
          /\ session = "auto"
          /\ holder = "none"
          /\ pc = "offline"
          /\ next = 1
          /\ tries = 0
          /\ after = "playing"
-----------------------------------------------------------------------------
(* The server.                                                             *)

\* What the statements of savePlayer make of the tables, in their order.
Applied(k, db) ==
    CASE k = 1 -> [db EXCEPT !["player"] = mem["player"]]
      [] k = 2 -> [db EXCEPT !["items"] = {}]
      [] k = 3 -> [db EXCEPT !["items"] = @ \cup mem["items"]]
      [] k = 4 -> [db EXCEPT !["depot"] = {}]
      [] k = 5 -> [db EXCEPT !["depot"] = @ \cup mem["depot"]]

\* The session is over, or was rolled back: nothing of the draft is left.
Discard == /\ draft' = stored
           /\ session' = "auto"
           /\ UNCHANGED stored

\* A commit, or a BEGIN inside a transaction.
Published == IF session = "tx" THEN draft ELSE stored
-----------------------------------------------------------------------------
(* The game.                                                               *)

\* loadPlayer, for a login, a letter, a house or a bed.
Load == /\ pc = "offline"
        /\ mem' = stored
        /\ touched' = {}
        /\ rewritten' = {}
        /\ pc' = "playing"
        /\ UNCHANGED <<database, holder, next, call>>

\* DepotLocker::postAddNotification and postRemoveNotification set save.
Touched_Never(t) == {}

Touched(t) == {t} \cap {"depot"}

Play == /\ pc = "playing"
        /\ \E t \in Table, rows \in SUBSET Row :
             /\ mem' = [mem EXCEPT ![t] = rows]
             /\ touched' = touched \cup Touched(t)
        /\ mem' \in Contents /\ mem' # mem
        /\ UNCHANGED <<rewritten, database, holder, pc, next, call>>

\* playerWriteItem changes the text of an item where it lies, here in a locker
\* or a chest.  Only what can be written once is transformed after it, and
\* that notifies the locker.
WriteItem == /\ pc = "playing"
             /\ \E old \in mem["depot"], new \in Row \ mem["depot"] :
                  mem' = [mem EXCEPT !["depot"] = (@ \ {old}) \cup {new}]
             /\ touched' \in {touched, touched \cup Touched("depot")}
             /\ rewritten' = {"depot"}
             /\ UNCHANGED <<database, holder, pc, next, call>>

\* onRemoveCreature tries three times and deletes the player, saveGameState
\* tries once and goes on, mail to somebody offline tries once and deletes
\* the copy it loaded.
Save == /\ pc = "playing"
        /\ tries' \in {1, MaxTries}
        /\ after' \in {"playing", "offline"}
        /\ pc' = "select"
        /\ UNCHANGED <<player, database, holder, next>>

\* The caller is done.
Return == /\ pc' = after
          /\ next' = 1

\* Whether a caller that was told false tries again.
TryAgain_OnceMore == tries > 0

TryAgain == tries > 1

Failed == /\ tries' = tries - 1
          /\ IF TryAgain THEN pc' = "select" /\ next' = 1 ELSE Return
          /\ UNCHANGED <<player, after>>

\* The query for `save`; storeQuery retries what is lost.
Select == /\ pc = "select" /\ holder = "none"
          /\ \/ pc' = "begin" /\ UNCHANGED <<player, next, call>>
             \/ Failed
          /\ UNCHANGED <<database, holder>>

\* BEGIN, which ends a transaction that is open.
Begin == /\ pc = "begin" /\ holder = "none"
         /\ stored' = Published
         /\ draft' = Published
         /\ session' = "tx"
         /\ pc' = "lock"
         /\ UNCHANGED <<player, holder, next, call>>

\* ~DBTransaction rolls back and gives back the lock all the same.  The first
\* finds no transaction, the second fails, as the lock is not this thread's.
BeginRefused == /\ pc = "begin" /\ holder = "none"
                /\ Failed
                /\ UNCHANGED <<database, holder>>

\* beginTransaction takes the lock after BEGIN.
Locked_Not == "none"

Locked == "game"

Lock == /\ pc = "lock" /\ holder = "none"
        /\ holder' = Locked
        /\ pc' = "run"
        /\ UNCHANGED <<player, database, next, call>>

\* The statement after k; needsSave: an untouched depot is left alone.
Following(k) == IF k = 3 /\ touched = {} THEN 6 ELSE k + 1

Statement == /\ pc = "run"
             /\ IF session = "tx"
                THEN /\ draft' = Applied(next, draft)
                     /\ UNCHANGED stored
                ELSE /\ stored' = Applied(next, stored)
                     /\ draft' = Applied(next, stored)
             /\ next' = Following(next)
             /\ pc' = IF Following(next) = 6 THEN "commit" ELSE "run"
             /\ UNCHANGED <<player, session, holder, call>>

\* executeQuery sends a statement again that was lost; outside of a
\* transaction it may have taken effect.
StatementLost == /\ pc = "run"
                 /\ \/ Discard
                    \/ /\ session = "auto"
                       /\ stored' = Applied(next, stored)
                       /\ draft' = Applied(next, stored)
                       /\ UNCHANGED session
                 /\ UNCHANGED <<player, holder, pc, next, call>>

\* What ~DBTransaction does to the session.
RolledBack_Forgotten == UNCHANGED database

RolledBack == Discard

StatementRefused == /\ pc = "run"
                    /\ RolledBack
                    /\ holder' = "none"
                    /\ Failed

Commit == /\ pc = "commit"
          /\ stored' = Published
          /\ draft' = Published
          /\ session' = "auto"
          /\ holder' = "none"
          /\ Return
          /\ UNCHANGED <<player, call>>

\* The answer to COMMIT is lost; nobody knows what became of it.
CommitLost == /\ pc = "commit"
              /\ stored' \in {stored, Published}
              /\ draft' = stored'
              /\ session' = "auto"
              /\ holder' = "none"
              /\ Failed
-----------------------------------------------------------------------------
(* The network thread: isIpBanned and gameworldAuthentication.             *)

NetQuery == /\ holder = "none"
            /\ holder' = "net"
            /\ UNCHANGED <<player, database, pc, next, call>>

NetLost == /\ holder = "net"
           /\ Discard
           /\ UNCHANGED <<player, holder, pc, next, call>>

NetDone == /\ holder = "net"
           /\ holder' = "none"
           /\ UNCHANGED <<player, database, pc, next, call>>

\* The process dies; the server rolls back what was open.
Crash == /\ Discard
         /\ holder' = "none"
         /\ pc' = "crashed"
         /\ next' = 1
         /\ UNCHANGED <<player, call>>

Restart == /\ pc = "crashed"
           /\ pc' = "offline"
           /\ UNCHANGED <<player, database, holder, next, call>>
-----------------------------------------------------------------------------
SaNext == \/ Load \/ Play \/ WriteItem \/ Save \/ Select \/ Begin \/ BeginRefused \/ Lock
          \/ Statement \/ StatementLost \/ StatementRefused \/ Commit \/ CommitLost
          \/ NetQuery \/ NetLost \/ NetDone \/ Crash \/ Restart

SaSpec == SaInit /\ [][SaNext]_saVars
-----------------------------------------------------------------------------
SaTypeOK == /\ mem \in [Table -> SUBSET Row]
            /\ stored \in [Table -> SUBSET Row]
            /\ draft \in [Table -> SUBSET Row]
            /\ touched \in SUBSET {"depot"}
            /\ rewritten \in SUBSET {"depot"}
            /\ session \in {"tx", "auto"}
            /\ holder \in {"none", "game", "net"}
            /\ pc \in {"offline", "playing", "select", "begin", "lock", "run", "commit", "crashed"}
            /\ next \in 1..6
            /\ tries \in 0..MaxTries
            /\ after \in {"playing", "offline"}

\* The transaction the game believes in is lost: what follows takes effect
\* statement by statement, and commit() will say that all is well.
Torn == pc \in {"lock", "run", "commit"} /\ session = "auto"

\* What savePlayer makes of the tables: the player in memory, but for a depot
\* in which something was only written into, and which it leaves as it was.
LeftOut == rewritten # {} /\ touched = {}

Saved == IF LeftOut THEN [mem EXCEPT !["depot"] = stored["depot"]] ELSE mem

\* Unless the connection was lost inside the transaction, the database goes
\* from one state of the player in memory to another, whole: no failure, retry
\* or crash leaves half a save behind, and a depot is left out only when
\* nothing was moved in it.
SavedWhole == [][stored' # stored => stored' = Saved \/ Torn]_saVars

SaveEnds == pc \notin {"playing", "offline", "crashed"} /\ pc' \in {"playing", "offline"}

\* With the same exceptions savePlayer returns true only when the player is
\* saved as it is, and a caller gives up only when its tries are used up.
TrueMeansSaved == [][SaveEnds => (tries' = 0 \/ stored' = Saved \/ Torn)]_saVars

\* "save depot locker items", "save depot items": what savePlayer returned true
\* for includes what was written into the items of the depot.
DepotIsSaved == [][SaveEnds => (tries' = 0 \/ stored'["depot"] = mem["depot"] \/ Torn)]_saVars

\* However a save ends, the handle is given back with no transaction open on
\* it, and while one has changed something the network thread waits: it never
\* reads what may still be rolled back.
NobodyReadsDrafts ==
    /\ holder = "net" => draft = stored
    /\ pc \in {"offline", "playing", "select", "begin", "crashed"}
          => session = "auto" /\ holder # "game"
=============================================================================
