-------------------------- MODULE DispatcherProofs --------------------------
(***************************************************************************)
(* The dispatcher never sleeps on work, its lists are one FIFO queue, and  *)
(* nothing is accepted behind Stop, for any set of threads and tasks.      *)
(***************************************************************************)
EXTENDS Dispatcher, TLAPS

\* Names the specification gives to single expressions.
USE DEF Batch, NextTask, Woken, StateAfter, MayEnter, DoSignal, Locked, Adds

\* Every variable of the dispatcher keeps its type: no handler leaves the
\* lists holding anything but tasks.
THEOREM DispatcherTypeOK == DSpec => []DTypeOK
<1>1. DInit => DTypeOK
  BY DEF DInit, DTypeOK, AnyTask, Threads
<1>2. DTypeOK /\ [DNext]_dVars => DTypeOK'
  <2> SUFFICES ASSUME DTypeOK, [DNext]_dVars PROVE DTypeOK'
    OBVIOUS
  <2> USE DEF DTypeOK
  <2>1. CASE TestState
    BY <2>1 DEF TestState
  <2>2. CASE TakeAll
    BY <2>2 DEF TakeAll
  <2>3. CASE Wait
    BY <2>3 DEF Wait
  <2>4. CASE StartTask
    BY <2>4 DEF StartTask
  <2>5. CASE Expire
    BY <2>5 DEF Expire
  <2>6. CASE FinishTask
    BY <2>6 DEF FinishTask
  <2>7. CASE EndOfBatch
    BY <2>7 DEF EndOfBatch
  <2>8. CASE SpuriousWakeup
    BY <2>8 DEF SpuriousWakeup
  <2>9. ASSUME NEW c \in Threads, NEW t \in Task, AddTask(c, t) PROVE DTypeOK'
    BY <2>9 DEF AddTask, AnyTask
  <2>10. ASSUME NEW c \in Threads, PushTask(c) PROVE DTypeOK'
    <3>1. adding[2] \in AnyTask
      BY <2>10 DEF PushTask, AnyTask
    <3>2. taskList' \in Seq(AnyTask)
      BY <2>10, <3>1 DEF PushTask
    <3> QED
      BY <2>10, <3>2 DEF PushTask
  <2>14. ASSUME NEW c \in Threads, Notify(c) PROVE DTypeOK'
    BY <2>14 DEF Notify
  <2>11. ASSUME NEW c \in Threads, Close(c) PROVE DTypeOK'
    BY <2>11 DEF Close
  <2>12. ASSUME NEW c \in Threads, Shutdown(c) PROVE DTypeOK'
    BY <2>12 DEF Shutdown, AnyTask
  <2>13. CASE UNCHANGED dVars
    BY <2>13 DEF dVars
  <2> QED
    BY <2>1, <2>2, <2>3, <2>4, <2>5, <2>6, <2>7, <2>8, <2>9, <2>10, <2>11,
       <2>12, <2>13, <2>14 DEF DNext, Work
<1> QED
  BY <1>1, <1>2, PTL DEF DSpec

\* addTask signals after it unlocked and only if the list was empty, yet a
\* waiting dispatcher with work always has a signal coming.  The invariant
\* is inductive: a thread goes to wait only on an empty list, and the call
\* that makes the list non-empty is the call that owes the signal.
THEOREM DispatcherNoLostWakeup == DSpec => []NoLostWakeup
<1>1. DInit => NoLostWakeup
  BY DEF DInit, NoLostWakeup
<1>2. NoLostWakeup /\ [DNext]_dVars => NoLostWakeup'
  <2> SUFFICES ASSUME NoLostWakeup, [DNext]_dVars PROVE NoLostWakeup'
    OBVIOUS
  <2> USE DEF NoLostWakeup
  <2>1. CASE TestState
    BY <2>1 DEF TestState
  <2>2. CASE TakeAll
    BY <2>2 DEF TakeAll
  <2>3. CASE Wait
    BY <2>3 DEF Wait
  <2>4. CASE StartTask
    BY <2>4 DEF StartTask
  <2>5. CASE Expire
    BY <2>5 DEF Expire
  <2>6. CASE FinishTask
    BY <2>6 DEF FinishTask
  <2>7. CASE EndOfBatch
    BY <2>7 DEF EndOfBatch
  <2>8. CASE SpuriousWakeup
    BY <2>8 DEF SpuriousWakeup
  <2>9. ASSUME NEW c \in Threads, NEW t \in Task, AddTask(c, t)
        PROVE NoLostWakeup'
    BY <2>9 DEF AddTask
  <2>10. ASSUME NEW c \in Threads, PushTask(c) \/ Notify(c)
         PROVE NoLostWakeup'
    BY <2>10 DEF PushTask, Notify
  <2>11. ASSUME NEW c \in Threads, Close(c) PROVE NoLostWakeup'
    BY <2>11 DEF Close
  <2>12. ASSUME NEW c \in Threads, Shutdown(c) PROVE NoLostWakeup'
    BY <2>12 DEF Shutdown
  <2>13. CASE UNCHANGED dVars
    BY <2>13 DEF dVars
  <2> QED
    BY <2>1, <2>2, <2>3, <2>4, <2>5, <2>6, <2>7, <2>8, <2>9, <2>10, <2>11,
       <2>12, <2>13 DEF DNext, Work
<1> QED
  BY <1>1, <1>2, PTL DEF DSpec

\* Joining the list at the tail is joining everything pending at the tail.
LEMMA AppendToConcat ==
  ASSUME NEW S, NEW p \in Seq(S), NEW q \in Seq(S), NEW t \in S
  PROVE  p \o Append(q, t) = Append(p \o q, t)
OBVIOUS

\* What leaves is the head of everything pending.
LEMMA TailOfConcat ==
  ASSUME NEW S, NEW p \in Seq(S), p # << >>, NEW q \in Seq(S)
  PROVE  p \o q # << >> /\ Tail(p \o q) = Tail(p) \o q
OBVIOUS

\* Moving the boundary between two lists changes nothing.
LEMMA HeadThenTail ==
  ASSUME NEW S, NEW p \in Seq(S), p # << >>
  PROVE  /\ Head(p) \in S
         /\ Tail(p) \in Seq(S)
         /\ << Head(p) >> \o Tail(p) = p
OBVIOUS

LEMMA EmptyConcat ==
  ASSUME NEW S, NEW p \in Seq(S)
  PROVE  << >> \o p = p /\ p \o << >> = p
OBVIOUS

LEMMA ConcatAssoc ==
  ASSUME NEW S, NEW p \in Seq(S), NEW q \in Seq(S), NEW r \in Seq(S)
  PROVE  /\ p \o q \in Seq(S)
         /\ (p \o q) \o r = p \o (q \o r)
OBVIOUS
-----------------------------------------------------------------------------
\* A task is in progress exactly inside StartTask..FinishTask, and the batch
\* is empty whenever the thread comes back for more: swapping the list in
\* cannot overwrite a task that was not carried out.
BatchInv == /\ dPc = "body" <=> current # << >>
            /\ dPc \notin {"run", "body"} => tmpTaskList = << >>

LEMMA DispatcherBatch == DSpec => []BatchInv
<1>1. DInit => BatchInv
  BY DEF DInit, BatchInv
<1>2. DTypeOK /\ BatchInv /\ [DNext]_dVars => BatchInv'
  <2> SUFFICES ASSUME DTypeOK, BatchInv, [DNext]_dVars PROVE BatchInv'
    OBVIOUS
  <2> USE DEF BatchInv
  <2>1. CASE TestState
    BY <2>1 DEF TestState
  <2>2. CASE TakeAll
    BY <2>2 DEF TakeAll
  <2>3. CASE Wait \/ SpuriousWakeup
    BY <2>3 DEF Wait, SpuriousWakeup
  <2>4. CASE StartTask
    BY <2>4 DEF StartTask
  <2>5. CASE Expire
    BY <2>5 DEF Expire
  <2>6. CASE FinishTask
    BY <2>6 DEF FinishTask
  <2>7. CASE EndOfBatch
    BY <2>7 DEF EndOfBatch
  <2>8. ASSUME NEW c \in Threads, NEW t \in Task, AddTask(c, t) PROVE BatchInv'
    BY <2>8 DEF AddTask
  <2>9. ASSUME NEW c \in Threads,
               PushTask(c) \/ Notify(c) \/ Close(c) \/ Shutdown(c)
        PROVE BatchInv'
    BY <2>9 DEF PushTask, Notify, Close, Shutdown
  <2>10. CASE UNCHANGED dVars
    BY <2>10 DEF dVars
  <2> QED
    BY <2>1, <2>2, <2>3, <2>4, <2>5, <2>6, <2>7, <2>8, <2>9, <2>10
       DEF DNext, Work
<1> QED
  BY <1>1, <1>2, DispatcherTypeOK, PTL DEF DSpec

\* What any step does to all that is pending: it leaves it alone, takes its
\* head, and then changes threadState only if that was Stop, or appends.
LEMMA PendingSteps ==
  ASSUME DTypeOK, BatchInv, [DNext]_dVars
  PROVE  /\ Pending \in Seq(AnyTask)
         /\ \/ /\ Pending' = Pending
               /\ StopPending => UNCHANGED dState
               /\ dState' # "running" => adding' \in {adding, << >>}
            \/ /\ Pending # << >> /\ Pending' = Tail(Pending)
               /\ Head(Pending) # Stop => UNCHANGED dState
               /\ UNCHANGED adding
            \/ \E c \in Threads : PushTask(c) /\ Pending' = Append(Pending, adding[2])
            \/ \E c \in Threads : /\ ~StopPending /\ Shutdown(c)
                                  /\ Pending' = Append(Pending, Stop)
<1> DEFINE S == AnyTask
<1>1. /\ current \in Seq(S)
      /\ tmpTaskList \in Seq(S)
      /\ taskList \in Seq(S)
      /\ << >> \in Seq(S)
      /\ current \o tmpTaskList \in Seq(S)
  <2>1. /\ tmpTaskList \in Seq(S)
        /\ taskList \in Seq(S)
        /\ << >> \in Seq(S)
    BY DEF DTypeOK
  <2>2. ASSUME NEW t \in S, current = << t >> PROVE current \in Seq(S)
    BY <2>2
  <2>3. current \in Seq(S)
    BY <2>1, <2>2 DEF DTypeOK
  <2> QED
    BY <2>1, <2>3, ConcatAssoc
<1>2. Pending \in Seq(S)
  BY <1>1, ConcatAssoc DEF Pending
<1>3. CASE \/ TestState \/ Wait \/ SpuriousWakeup \/ EndOfBatch
           \/ \E c \in Threads : \/ \E t \in Task : AddTask(c, t)
                                 \/ Notify(c)
                                 \/ ~StopPending /\ Close(c)
           \/ UNCHANGED dVars
  <2>1. /\ UNCHANGED <<current, tmpTaskList, taskList>>
        /\ StopPending => UNCHANGED dState
        /\ dState' # "running" => adding' \in {adding, << >>}
    BY <1>3 DEF TestState, Wait, SpuriousWakeup, EndOfBatch, AddTask, Notify, Close, dVars
  <2> QED
    BY <1>2, <2>1 DEF Pending
<1>4. CASE TakeAll
  <2>1. current = << >> /\ tmpTaskList = << >>
    BY <1>4 DEF TakeAll, BatchInv
  <2>2. current' = << >> /\ tmpTaskList' = taskList /\ taskList' = << >>
    BY <1>4, <2>1 DEF TakeAll
  <2>4. UNCHANGED <<dState, adding>>
    BY <1>4 DEF TakeAll
  <2>3. Pending = taskList /\ Pending' = taskList
    BY <2>1, <2>2, <1>1, EmptyConcat DEF Pending
  <2> QED
    BY <1>2, <2>3, <2>4
<1>5. CASE StartTask
  <2>1. current = << >> /\ tmpTaskList # << >>
    BY <1>5 DEF StartTask, BatchInv
  <2>2. current' \o tmpTaskList' = tmpTaskList /\ taskList' = taskList
    BY <1>5, <2>1, <1>1, HeadThenTail DEF StartTask
  <2>3. current \o tmpTaskList = tmpTaskList
    BY <2>1, <1>1, EmptyConcat
  <2>4. UNCHANGED <<dState, adding>>
    BY <1>5 DEF StartTask
  <2> QED
    BY <1>2, <2>2, <2>3, <2>4 DEF Pending
<1>6. CASE Expire
  <2>1. current = << >> /\ tmpTaskList # << >> /\ Head(tmpTaskList) # Stop
    BY <1>6 DEF Expire, BatchInv
  <2>2. /\ current' = << >> /\ tmpTaskList' = Tail(tmpTaskList)
        /\ UNCHANGED <<taskList, adding, dState>>
    BY <1>6, <2>1 DEF Expire
  <2>3. Pending = tmpTaskList \o taskList
    BY <2>1, <1>1, EmptyConcat DEF Pending
  <2>4. Pending' = Tail(tmpTaskList) \o taskList
    <3>1. Tail(tmpTaskList) \in Seq(S)
      BY <2>1, <1>1, HeadThenTail
    <3> QED
      BY <2>2, <3>1, EmptyConcat DEF Pending
  <2>5. Pending # << >> /\ Pending' = Tail(Pending)
    BY <2>1, <2>3, <2>4, <1>1, TailOfConcat
  <2>6. Head(Pending) = Head(tmpTaskList)
    BY <2>1, <2>3, <1>1
  <2> QED
    BY <1>2, <2>1, <2>2, <2>5, <2>6
<1>7. CASE FinishTask
  <2>1. PICK t \in S : current = << t >>
    BY <1>7 DEF FinishTask, BatchInv, DTypeOK
  <2>2. /\ current' = << >> /\ UNCHANGED <<tmpTaskList, taskList, adding>>
        /\ dState' = IF t = Stop THEN "terminated" ELSE dState
    BY <1>7, <2>1 DEF FinishTask
  <2>3. current # << >> /\ Tail(current) = << >>
    BY <2>1
  <2>4. /\ current \o tmpTaskList # << >>
        /\ Tail(current \o tmpTaskList) = << >> \o tmpTaskList
    BY <2>3, <1>1, TailOfConcat
  <2>5. /\ (current \o tmpTaskList) \o taskList # << >>
        /\ Tail((current \o tmpTaskList) \o taskList) = Tail(current \o tmpTaskList) \o taskList
    BY <2>4, <1>1, TailOfConcat
  <2>6. Pending # << >> /\ Pending' = Tail(Pending)
    BY <2>2, <2>4, <2>5 DEF Pending
  <2>7. Head(Pending) = t
    <3>1. Head(current \o tmpTaskList) = t
      BY <2>1, <1>1
    <3> QED
      BY <3>1, <2>4, <1>1 DEF Pending
  <2> QED
    BY <1>2, <2>2, <2>6, <2>7
<1>8. ASSUME NEW c \in Threads, PushTask(c) PROVE Pending' = Append(Pending, adding[2])
  <2>1. adding[2] \in S
    BY <1>8 DEF PushTask, DTypeOK, AnyTask
  <2>2. UNCHANGED <<current, tmpTaskList>> /\ taskList' = Append(taskList, adding[2])
    BY <1>8 DEF PushTask
  <2> QED
    BY <2>1, <2>2, <1>1, AppendToConcat DEF Pending
<1>9. ASSUME NEW c \in Threads, Shutdown(c) PROVE Pending' = Append(Pending, Stop)
  <2>1. UNCHANGED <<current, tmpTaskList>> /\ taskList' = Append(taskList, Stop)
    BY <1>9 DEF Shutdown
  <2>2. Stop \in S
    BY DEF AnyTask
  <2> QED
    BY <2>1, <2>2, <1>1, AppendToConcat DEF Pending
<1> QED
  BY <1>2, <1>3, <1>4, <1>5, <1>6, <1>7, <1>8, <1>9 DEF DNext, Work
\* The task in progress, the batch and the shared list are one FIFO queue:
\* each step of the dispatcher or of a caller appends one task at the tail,
\* removes the one at the head, or leaves what is pending alone.
THEOREM DispatcherIsFifo == DSpec => OneFifo
<1>1. DInit => Queue!Init
  BY DEF DInit, Queue!Init, Pending
<1>2. DTypeOK /\ BatchInv /\ [DNext]_dVars => [Queue!Next]_Pending
  <2> SUFFICES ASSUME DTypeOK, BatchInv, [DNext]_dVars
               PROVE  [Queue!Next]_Pending
    OBVIOUS
  <2>1. ASSUME NEW c \in Threads, PushTask(c) PROVE adding[2] \in AnyTask
    BY <2>1 DEF PushTask, DTypeOK, AnyTask
  <2>2. Stop \in AnyTask
    BY DEF AnyTask
  <2> QED
    BY <2>1, <2>2, PendingSteps DEF Queue!Next, Queue!Accept, Queue!CarryOut
<1> QED
  BY <1>1, <1>2, DispatcherTypeOK, DispatcherBatch, PTL
     DEF DSpec, OneFifo, Queue!Spec
-----------------------------------------------------------------------------
\* Stop is pending at most once, and once stop() was called nobody stands
\* between the test and the push of addTask while Stop is in the list.
StopInv == /\ \A i, j \in 1..Len(Pending) : Pending[i] = Stop /\ Pending[j] = Stop => i = j
           /\ dState # "running" /\ StopPending => adding = << >>
           /\ AheadOfStop

\* stop() takes no lock, but shutdown() does: whoever had looked at the
\* state before stop() has pushed when Stop gets in, and whoever looks later
\* is turned away.  So nothing is accepted behind Stop.
THEOREM DispatcherAheadOfStop == DSpec => []AheadOfStop
<1>1. DInit => StopInv
  <2> SUFFICES ASSUME DInit PROVE StopInv
    OBVIOUS
  <2>1. Pending = << >> /\ dState = "running"
    BY DEF DInit, Pending
  <2> QED
    BY <2>1 DEF StopInv, StopPending, AheadOfStop
<1>2. DTypeOK /\ BatchInv /\ StopInv /\ [DNext]_dVars => StopInv'
  <2> SUFFICES ASSUME DTypeOK, BatchInv, StopInv, [DNext]_dVars PROVE StopInv'
    OBVIOUS
  <2>0. Pending \in Seq(AnyTask)
    BY PendingSteps
  <2> USE DEF StopInv, StopPending, AheadOfStop
  <2>1. ASSUME NEW c \in Threads, PushTask(c), Pending' = Append(Pending, adding[2])
        PROVE StopInv'
    <3>1. adding[2] # Stop /\ UNCHANGED dState /\ adding' = << >> /\ adding # << >>
      BY <2>1, DispatcherAssumption DEF PushTask, DTypeOK
    <3>2. /\ Len(Pending') = Len(Pending) + 1
          /\ \A i \in 1..Len(Pending) : Pending'[i] = Pending[i]
          /\ Pending'[Len(Pending) + 1] # Stop
      BY <2>0, <2>1, <3>1
    <3> QED
      BY <2>0, <3>1, <3>2
  <2>2. ASSUME NEW c \in Threads, Shutdown(c), Pending' = Append(Pending, Stop), ~StopPending
        PROVE StopInv'
    <3>1. UNCHANGED dState /\ adding' = << >>
      BY <2>2 DEF Shutdown
    <3>2. /\ Len(Pending') = Len(Pending) + 1
          /\ \A i \in 1..Len(Pending) : Pending'[i] = Pending[i] /\ Pending[i] # Stop
          /\ Pending'[Len(Pending) + 1] = Stop
      BY <2>0, <2>2
    <3> QED
      BY <2>0, <3>1, <3>2
  <2>3. ASSUME Pending # << >>, Pending' = Tail(Pending),
               Head(Pending) # Stop => UNCHANGED dState, UNCHANGED adding
        PROVE StopInv'
    <3>1. /\ Len(Pending') = Len(Pending) - 1
          /\ \A i \in 1..Len(Pending') : Pending'[i] = Pending[i + 1]
          /\ Head(Pending) = Pending[1]
          /\ Len(Pending) \in Nat \ {0}
      BY <2>0, <2>3
    <3>2. CASE Head(Pending) = Stop
      <4>1. \A i \in 1..Len(Pending') : Pending'[i] # Stop
        BY <3>1, <3>2
      <4> QED
        BY <4>1, <3>1
    <3>3. CASE Head(Pending) # Stop
      BY <2>3, <3>1, <3>3
    <3> QED
      BY <3>2, <3>3
  <2>4. ASSUME Pending' = Pending, StopPending => UNCHANGED dState,
               dState' # "running" => adding' \in {adding, << >>}
        PROVE StopInv'
    BY <2>4
  <2> QED
    BY <2>1, <2>2, <2>3, <2>4, PendingSteps
<1> QED
  BY <1>1, <1>2, DispatcherTypeOK, DispatcherBatch, PTL DEF DSpec, StopInv
=============================================================================
