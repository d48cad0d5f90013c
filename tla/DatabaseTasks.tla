--------------------------- MODULE DatabaseTasks ---------------------------
(***************************************************************************)
(* The asynchronous queries of src/src/databasetasks.cpp.  The game        *)
(* thread (the dispatcher's) hands queries over and goes on; the database  *)
(* thread carries them out.  flush() and shutdown() make the game thread   *)
(* carry out queries too, side by side with the database thread.           *)
(*                                                                         *)
(* A critical section of taskLock is one step, and so is one query, which  *)
(* Database::executeQuery and storeQuery hold databaseLock for.  Queries   *)
(* are told apart by the order in which addTask accepts them.              *)
(***************************************************************************)
EXTENDS Naturals, Sequences, SequencesExt

CONSTANTS MaxQueries,    \* bound: how many queries the game hands over
          Asking         \* the queries that come with a callback

ASSUME DatabaseAssumption == /\ MaxQueries \in Nat
                             /\ Asking \subseteq 1..MaxQueries

VARIABLES bState,        \* threadState of the database thread
          bPc,           \* where the database thread stands
          bHand,         \* the query in its hands, 0 for none
          tasks,         \* tasks: accepted and not taken up
          accepted,      \* how many queries were accepted so far
          gPc,           \* where the game thread stands
          gHand,         \* the query flush() took up, 0 for none
          executed,      \* the queries carried out, in that order
          answers        \* the callbacks handed to the dispatcher

bVars == <<bState, bPc, bHand, tasks, accepted, gPc, gHand, executed, answers>>
dbThread == <<bPc, bHand>>
gameThread == <<gPc, gHand>>

Query == 1..MaxQueries

BInit == /\ bState = "running"
         /\ bPc = "test"
         /\ bHand = 0
         /\ tasks = << >>
         /\ accepted = 0
         /\ gPc = "idle"
         /\ gHand = 0
         /\ executed = << >>
         /\ answers = << >>
-----------------------------------------------------------------------------
(* DatabaseTasks::runTask, the same for both threads: the query first,     *)
(* then, in a step of its own, the callback goes to the dispatcher.        *)

Execute_Lost(q) == UNCHANGED executed

Execute(q) == executed' = Append(executed, q)

Answer_Unasked(q) == answers' = Append(answers, q)

Answer(q) == answers' = IF q \in Asking THEN Append(answers, q) ELSE answers

\* !tasks.empty(), which both threads test before they take a query.
HasTask_Assumed == TRUE

HasTask == tasks # << >>

\* tasks.front() and pop_front(), for both threads; an empty list has nothing
\* at its front, and whoever took it from there would carry out no query.
Oldest_Newest == Last(tasks)

Oldest == IF tasks = << >> THEN 0 ELSE Head(tasks)

Rest_Kept == tasks

Rest == SubSeq(tasks, 2, Len(tasks))
-----------------------------------------------------------------------------
(* The database thread: DatabaseTasks::threadMain.                         *)

\* The state is read before the lock is taken, and not again under it.
BTestState == /\ bPc = "test"
              /\ bPc' = IF bState = "terminated" THEN "done" ELSE "lock"
              /\ UNCHANGED <<bState, bHand, tasks, accepted, gameThread, executed, answers>>

BWait == /\ bPc = "lock"
         /\ tasks = << >>
         /\ bPc' = "wait"
         /\ UNCHANGED <<bState, bHand, tasks, accepted, gameThread, executed, answers>>

BSpuriousWakeup == /\ bPc = "wait"
                   /\ bPc' = "woken"
                   /\ UNCHANGED <<bState, bHand, tasks, accepted, gameThread, executed, answers>>

\* One query at a time; after the wait there may be none.
BTake == /\ \/ bPc = "lock" /\ tasks # << >>
            \/ bPc = "woken"
         /\ IF HasTask
            THEN /\ bHand' = Oldest
                 /\ tasks' = Rest
                 /\ bPc' = "query"
            ELSE /\ bPc' = "test"
                 /\ UNCHANGED <<bHand, tasks>>
         /\ UNCHANGED <<bState, accepted, gameThread, executed, answers>>

BQuery == /\ bPc = "query"
          /\ Execute(bHand)
          /\ bPc' = "answer"
          /\ UNCHANGED <<bState, bHand, tasks, accepted, gameThread, answers>>

BAnswer == /\ bPc = "answer"
           /\ Answer(bHand)
           /\ bHand' = 0
           /\ bPc' = "test"
           /\ UNCHANGED <<bState, tasks, accepted, gameThread, executed>>
-----------------------------------------------------------------------------
(* The game thread.                                                        *)

\* signal = tasks.empty()
BDoSignal == tasks = << >>

\* addTask up to its unlock; a query that comes too late is dropped.
BAddTask ==
    /\ gPc = "idle"
    /\ accepted < MaxQueries
    /\ IF bState = "running"
       THEN /\ accepted' = accepted + 1
            /\ tasks' = Append(tasks, accepted')
            /\ gPc' = IF BDoSignal THEN "signal" ELSE "idle"
       ELSE UNCHANGED <<accepted, tasks, gPc>>
    /\ UNCHANGED <<bState, dbThread, gHand, executed, answers>>

\* notify_one(), at the end of addTask or, last of all, of shutdown().
BNotify == /\ gPc = "signal"
           /\ bPc' = IF bPc = "wait" THEN "woken" ELSE bPc
           /\ gPc' = IF bState = "terminated" THEN "down" ELSE "idle"
           /\ UNCHANGED <<bState, bHand, tasks, accepted, gHand, executed, answers>>

\* Game::saveGameState calls flush() when everything else has been saved.
BFlush == /\ gPc = "idle"
          /\ gPc' = "take"
          /\ UNCHANGED <<bState, dbThread, tasks, accepted, gHand, executed, answers>>

\* ThreadHolder::stop(), from Game::setGameState.
BClose == /\ gPc = "idle"
          /\ bState = "running"
          /\ bState' = "closing"
          /\ UNCHANGED <<dbThread, tasks, accepted, gameThread, executed, answers>>

\* shutdown(): TERMINATED under the lock, then flush(), then notify_one().
BShutdown == /\ gPc = "idle"
             /\ bState' = "terminated"
             /\ gPc' = "take"
             /\ UNCHANGED <<dbThread, tasks, accepted, gHand, executed, answers>>

\* One round of flush's loop, under the lock: the oldest query, or the end.
FlushTake == /\ gPc = "take"
             /\ IF HasTask
                THEN /\ gHand' = Oldest
                     /\ tasks' = Rest
                     /\ gPc' = "query"
                ELSE /\ gPc' = IF bState = "terminated" THEN "signal" ELSE "idle"
                     /\ UNCHANGED <<gHand, tasks>>
             /\ UNCHANGED <<bState, dbThread, accepted, executed, answers>>

FlushQuery == /\ gPc = "query"
              /\ Execute(gHand)
              /\ gPc' = "answer"
              /\ UNCHANGED <<bState, dbThread, tasks, accepted, gHand, answers>>

FlushAnswer == /\ gPc = "answer"
               /\ Answer(gHand)
               /\ gHand' = 0
               /\ gPc' = "take"
               /\ UNCHANGED <<bState, dbThread, tasks, accepted, executed>>
-----------------------------------------------------------------------------
DbThread == BTestState \/ BWait \/ BTake \/ BQuery \/ BAnswer
GameThread == BNotify \/ FlushTake \/ FlushQuery \/ FlushAnswer

BNext == \/ DbThread \/ BSpuriousWakeup
         \/ GameThread \/ BAddTask \/ BFlush \/ BClose \/ BShutdown

\* Both threads are scheduled and every query returns; what the game asks
\* for, and whether the server is ever shut down, is up to the players.
BFairness == WF_bVars(DbThread) /\ WF_bVars(GameThread)

BSpec == BInit /\ [][BNext]_bVars /\ BFairness
-----------------------------------------------------------------------------
BTypeOK == /\ bState \in {"running", "closing", "terminated"}
           /\ bPc \in {"test", "lock", "wait", "woken", "query", "answer", "done"}
           /\ bHand \in 0..MaxQueries
           /\ tasks \in Seq(Query)
           /\ accepted \in 0..MaxQueries
           /\ gPc \in {"idle", "signal", "take", "query", "answer", "down"}
           /\ gHand \in 0..MaxQueries
           /\ executed \in Seq(Query)
           /\ answers \in Seq(Query)

InHand == {bHand, gHand} \ {0}

\* Two threads pop one list, so a query could be carried out twice, or be
\* dropped between the lists: every accepted query is waiting, in the hands
\* of one thread, or carried out, and it is carried out once.
EachOnce ==
    /\ IsInjective(tasks \o executed)
    /\ 1..accepted = Range(tasks) \cup InHand \cup Range(executed)
    /\ bHand = gHand => bHand = 0

\* Queries are not carried out in the order of addTask: a flush overtakes
\* the database thread.  But it overtakes only the one query that thread
\* has in its hands, and nothing ever overtakes a query still in the list.
OvertakesOnlyInHand ==
    \A q \in Range(executed) : \A p \in 1..q : p \in Range(executed) \cup InHand

\* A query that came with a callback is answered after it was carried out,
\* and no other query is answered; answers are not duplicated.
AnswersFollowQueries ==
    /\ IsInjective(answers)
    /\ Range(answers) \subseteq Range(executed) \cap Asking
    /\ Range(executed) \cap Asking \subseteq Range(answers) \cup InHand

\* Once accepted, a query is carried out, shutdown or no shutdown.
AcceptedIsExecuted == \A q \in Query : (q <= accepted) ~> (q \in Range(executed))

\* Shutting the server down ends the database thread, which main() joins.
ShutdownEndsThread == (bState = "terminated") ~> (bPc = "done")
=============================================================================
