-------------------------------- MODULE Fifo --------------------------------
(***************************************************************************)
(* What the game logic promises itself when it hands a task to the         *)
(* dispatcher: accepted tasks are carried out strictly in the order of     *)
(* their acceptance.  A task joins at the tail, the oldest one leaves from *)
(* the head, and nothing overtakes, duplicates or disappears in between.   *)
(***************************************************************************)
EXTENDS Sequences

CONSTANT Task             \* whatever can be handed over

VARIABLE queue            \* accepted and not yet carried out, oldest first

Init == queue = << >>

Accept(t) == queue' = Append(queue, t)

CarryOut == /\ queue # << >>
            /\ queue' = Tail(queue)

Next == CarryOut \/ \E t \in Task : Accept(t)

Spec == Init /\ [][Next]_queue
=============================================================================
