------------------------------ MODULE MCLogin ------------------------------
(* What ProtocolGame::login decides: who has to wait, and who plays which   *)
(* character.  One of the two moves, chosen at the start, the other rests.  *)
EXTENDS WaitingList, GameSession

VARIABLE turn

MCInit == turn \in {"line", "session"} /\ WInit /\ GInit

MCNext == \/ turn = "line" /\ WNext /\ UNCHANGED <<turn, gVars>>
          \/ turn = "session" /\ GNext /\ UNCHANGED <<turn, wVars>>

MCSpec == MCInit /\ [][MCNext]_<<turn, wVars, gVars>>
=============================================================================
