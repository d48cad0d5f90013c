----------------------------- MODULE Dispatcher -----------------------------
(***************************************************************************)
(* The dispatcher of src/src/tasks.cpp: one thread that carries out the    *)
(* tasks every other thread hands it, and so serialises the game logic.    *)
(*                                                                         *)
(* What lies between taskLock.lock() and taskLock.unlock() is one step     *)
(* here, as the mutex keeps the other threads out of it, but for addTask:  *)
(* it tests threadState, which stop() changes without the mutex, and so    *)
(* its test and its push are two steps, with the mutex held in between.    *)
(* What happens outside the mutex (the test of the loop, the notify_one()  *)
(* of addTask) is a step of its own too.  A condition variable remembers   *)
(* nothing: a notification that finds nobody waiting is lost, and a wait   *)
(* may end without one.                                                    *)
(***************************************************************************)
EXTENDS Naturals, Sequences

CONSTANTS Worker,        \* the dispatcher's own thread
          Others,        \* the other threads that call addTask
          Task,          \* the tasks they hand over
          Stop,          \* the task Dispatcher::shutdown() pushes
          MaxTasks       \* bound: tasks accepted and not yet carried out

ASSUME DispatcherAssumption == /\ Worker \notin Others
                               /\ Stop \notin Task
                               /\ MaxTasks \in Nat

VARIABLES dState,        \* threadState
          dPc,           \* where the dispatcher's thread stands
          taskList,      \* taskList
          tmpTaskList,   \* tmpTaskList, without the task being carried out
          current,       \* the task being carried out, << >> or << task >>
          adding,        \* << c, t >>: thread c holds taskLock, has found the
                         \* state RUNNING and is about to push t; else << >>
          signalling     \* threads between addTask's unlock and notify_one

dVars == <<dState, dPc, taskList, tmpTaskList, current, adding, signalling>>

AnyTask == Task \cup {Stop}
Threads == Others \cup {Worker}

\* Everything accepted and not finished yet, oldest first.
Pending == current \o tmpTaskList \o taskList

DInit == /\ dState = "running"
         /\ dPc = "test"
         /\ taskList = << >>
         /\ tmpTaskList = << >>
         /\ current = << >>
         /\ adding = << >>
         /\ signalling = {}

\* Whether taskLock is held from one step to the next.
Locked_Never == FALSE

Locked == adding # << >>

\* Is thread c between the two steps of its addTask?
Adds(c) == adding # << >> /\ adding[1] = c
-----------------------------------------------------------------------------
(* The dispatcher's thread.                                                *)

\* while (getState() != THREAD_STATE_TERMINATED)
TestState == /\ dPc = "test"
             /\ dPc' = IF dState = "terminated" THEN "done" ELSE "lock"
             /\ UNCHANGED <<dState, taskList, tmpTaskList, current, adding, signalling>>

\* The list is swapped out under the lock: as it was found, or, after the
\* wait, as it is now, which after a spurious wakeup is still empty.
Batch_Reversed == [i \in 1..Len(taskList) |-> taskList[Len(taskList) + 1 - i]]

Batch == taskList

TakeAll == /\ ~Locked
           /\ \/ dPc = "lock" /\ taskList # << >>
              \/ dPc = "woken"
           /\ tmpTaskList' = Batch
           /\ taskList' = << >>
           /\ dPc' = "run"
           /\ UNCHANGED <<dState, current, adding, signalling>>

\* taskSignal.wait(): releases the lock and blocks, in one step.
Wait == /\ ~Locked
        /\ dPc = "lock"
        /\ taskList = << >>
        /\ dPc' = "wait"
        /\ UNCHANGED <<dState, taskList, tmpTaskList, current, adding, signalling>>

\* The standard allows wait() to return with no notification.
SpuriousWakeup == /\ dPc = "wait"
                  /\ dPc' = "woken"
                  /\ UNCHANGED <<dState, taskList, tmpTaskList, current, adding, signalling>>

\* A task past its expiration is deleted without being called.
Expire == /\ dPc = "run"
          /\ tmpTaskList # << >>
          /\ Head(tmpTaskList) # Stop
          /\ tmpTaskList' = Tail(tmpTaskList)
          /\ UNCHANGED <<dState, dPc, taskList, current, adding, signalling>>

\* What is taken from the batch to be called.
NextTask_WholeBatch == tmpTaskList

NextTask == << Head(tmpTaskList) >>

\* (*task)() begins; until FinishTask the worker itself may call addTask.
StartTask == /\ dPc = "run"
             /\ tmpTaskList # << >>
             /\ current' = NextTask
             /\ tmpTaskList' = Tail(tmpTaskList)
             /\ dPc' = "body"
             /\ UNCHANGED <<dState, taskList, adding, signalling>>

\* What the body of a task does to threadState.
StateAfter_Unchanged == dState

StateAfter == IF current = << Stop >> THEN "terminated" ELSE dState

\* The body returns.  The body of the Stop task sets TERMINATED; its
\* notify_one() finds nobody waiting, as the only waiter is running it.
FinishTask == /\ dPc = "body"
              /\ Worker \notin signalling /\ ~Adds(Worker)
              /\ dState' = StateAfter
              /\ current' = << >>
              /\ dPc' = "run"
              /\ UNCHANGED <<taskList, tmpTaskList, adding, signalling>>

EndOfBatch == /\ dPc = "run"
              /\ tmpTaskList = << >>
              /\ dPc' = "test"
              /\ UNCHANGED <<dState, taskList, tmpTaskList, current, adding, signalling>>
-----------------------------------------------------------------------------
(* The threads that hand over tasks; the worker only from inside a task.   *)

MayCall(c) == /\ c \notin signalling /\ ~Adds(c)
              /\ c = Worker => dPc = "body" /\ current # << Stop >>

\* A task is accepted if the dispatcher is RUNNING when addTask looks.
MayEnter == dState = "running"

\* addTask takes the lock and looks at the state; a task that comes too
\* late is deleted.
AddTask(c, t) ==
    /\ MayCall(c)
    /\ ~Locked
    /\ adding' = IF MayEnter THEN << c, t >> ELSE << >>
    /\ UNCHANGED <<dState, dPc, taskList, tmpTaskList, current, signalling>>

\* do_signal: only who finds the list empty wakes the dispatcher up.
DoSignal_IfNotEmpty == taskList # << >>

DoSignal == taskList = << >>

\* The rest of addTask up to its unlock, whatever the state is by now.
PushTask(c) ==
    /\ Adds(c)
    /\ taskList' = Append(taskList, adding[2])
    /\ signalling' = IF DoSignal THEN signalling \cup {c} ELSE signalling
    /\ adding' = << >>
    /\ UNCHANGED <<dState, dPc, tmpTaskList, current>>

\* Whom a notification reaches.
Woken == IF dPc = "wait" THEN "woken" ELSE dPc

\* taskSignal.notify_one(), after the lock has been given up.
Notify(c) == /\ c \in signalling
             /\ signalling' = signalling \ {c}
             /\ dPc' = Woken
             /\ UNCHANGED <<dState, taskList, tmpTaskList, current, adding>>

\* ThreadHolder::stop(), called by the game on its way down, before the
\* shutdown().  It takes no lock: an addTask that has looked at the state
\* already goes on to push its task.
Close(c) == /\ MayCall(c)
            /\ dState = "running"
            /\ dState' = "closing"
            /\ UNCHANGED <<dPc, taskList, tmpTaskList, current, adding, signalling>>

\* shutdown() pushes whatever the state is, and notifies under the lock.
Shutdown(c) == /\ MayCall(c)
               /\ ~Locked
               /\ taskList' = Append(taskList, Stop)
               /\ dPc' = Woken
               /\ UNCHANGED <<dState, tmpTaskList, current, adding, signalling>>
-----------------------------------------------------------------------------
Work == TestState \/ TakeAll \/ Wait \/ StartTask \/ Expire \/ FinishTask \/ EndOfBatch

StopPending == \E i \in 1..Len(Pending) : Pending[i] = Stop

\* shutdown() is called once: by the game after it called stop(), or, when
\* loading failed, by main(), and then nobody calls stop().
DNext == \/ Work
         \/ SpuriousWakeup
         \/ \E c \in Threads :
               \/ \E t \in Task : Len(Pending) < MaxTasks /\ AddTask(c, t)
               \/ PushTask(c)
               \/ Notify(c)
               \/ ~StopPending /\ Close(c)
               \/ ~StopPending /\ dState # "terminated" /\ Shutdown(c)

\* The operating system runs every thread that can run; nobody promises
\* that tasks arrive, that waits end spuriously, or that the server stops.
DFairness == /\ WF_dVars(TestState \/ TakeAll \/ Wait \/ EndOfBatch)
             /\ WF_dVars(StartTask \/ Expire)
             /\ WF_dVars(FinishTask)
             /\ \A c \in Threads : WF_dVars(PushTask(c)) /\ WF_dVars(Notify(c))

DSpec == DInit /\ [][DNext]_dVars /\ DFairness
-----------------------------------------------------------------------------
DTypeOK ==
    /\ dState \in {"running", "closing", "terminated"}
    /\ dPc \in {"test", "lock", "wait", "woken", "run", "body", "done"}
    /\ taskList \in Seq(AnyTask)
    /\ tmpTaskList \in Seq(AnyTask)
    /\ current \in {<< >>} \cup {<< t >> : t \in AnyTask}
    /\ adding \in {<< >>} \cup (Threads \X Task)
    /\ signalling \in SUBSET Threads

\* addTask sends its signal only when it found the list empty, and after
\* it has unlocked; shutdown() signals under the lock.  No thread may ever
\* sleep on a list with work in it unless a signal is still on its way.
NoLostWakeup == (dPc = "wait" /\ taskList # << >>) => signalling # {}

\* stop() takes no lock, so a task may still be pushed after it, by a thread
\* that had looked at the state before.  It must land ahead of Stop: what
\* joins behind Stop is accepted and then never carried out nor deleted.
AheadOfStop == (dState # "running" /\ StopPending) => Pending[Len(Pending)] = Stop

\* The two lists and the task in progress behave as one FIFO queue.
Queue == INSTANCE Fifo WITH Task <- AnyTask, queue <- Pending
OneFifo == Queue!Spec

\* shutdown() ends the thread, however many tasks are still ahead of Stop.
ShutdownEnds == StopPending ~> dPc = "done"
=============================================================================
