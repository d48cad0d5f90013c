---------------------------- MODULE SavingProofs ----------------------------
(***************************************************************************)
(* Proofs about Saving.tla, for any rows and any number of tries.          *)
(***************************************************************************)
EXTENDS Saving, TLAPS

\* The rows of a depot neither touched nor written into are those that were
\* loaded.
DepotUntouched ==
    pc \notin {"offline", "crashed"} /\ touched = {} /\ rewritten = {}
        => mem["depot"] = stored["depot"]

\* Where the statements stand: which one comes next, and what the draft
\* holds of the player before it.
Progress ==
    /\ pc = "run" => next \in 1..5
    /\ pc = "commit" => next = 6
    /\ pc \notin {"run", "commit"} => next = 1
    /\ next \in {4, 5} => touched # {}
    /\ pc \in {"select", "begin", "lock", "run", "commit"} => tries > 0

DraftSoFar ==
    session = "tx" =>
        /\ next = 1 => draft = stored
        /\ next > 1 => draft["player"] = mem["player"]
        /\ next = 3 => draft["items"] = {}
        /\ next > 3 => draft["items"] = mem["items"]
        /\ next < 5 => draft["depot"] = stored["depot"]
        /\ next = 5 => draft["depot"] = {}
        /\ next = 6 => draft["depot"] = IF touched = {} THEN stored["depot"] ELSE mem["depot"]

\* What the lock and the session are while a save is under way, and not.
Sessions ==
    /\ session = "tx" => pc \in {"lock", "run", "commit"}
    /\ session = "auto" => draft = stored
    /\ holder = "game" <=> pc \in {"run", "commit"}

SavingInv == SaTypeOK /\ Progress /\ Sessions /\ DepotUntouched /\ DraftSoFar
-----------------------------------------------------------------------------
LEMMA InitEstablishes == SaInit => SavingInv
<1> SUFFICES ASSUME SaInit PROVE SavingInv
  OBVIOUS
<1>1. SaTypeOK
  BY SavingAssumption DEF SavingAssumption, SaInit, Contents, SaTypeOK
<1>2. Progress
  BY DEF SaInit, Progress
<1>3. Sessions
  BY DEF SaInit, Sessions
<1>4. DepotUntouched /\ DraftSoFar
  BY DEF SaInit, DepotUntouched, DraftSoFar
<1>5. QED
  BY <1>1, <1>2, <1>3, <1>4 DEF SavingInv

\* What a statement makes of the tables.
LEMMA AppliedIs ==
  ASSUME SaTypeOK, NEW k \in 1..5, NEW db \in [Table -> SUBSET Row]
  PROVE  /\ Applied(k, db) \in [Table -> SUBSET Row]
         /\ k = 1 => Applied(k, db) = [db EXCEPT !["player"] = mem["player"]]
         /\ k = 2 => Applied(k, db) = [db EXCEPT !["items"] = {}]
         /\ k = 3 => Applied(k, db) = [db EXCEPT !["items"] = db["items"] \cup mem["items"]]
         /\ k = 4 => Applied(k, db) = [db EXCEPT !["depot"] = {}]
         /\ k = 5 => Applied(k, db) = [db EXCEPT !["depot"] = db["depot"] \cup mem["depot"]]
  BY DEF SaTypeOK, Applied, Table

\* The game outside of the transaction.
LEMMA CallersKeepInv ==
  ASSUME SavingInv, Load \/ Play \/ WriteItem \/ Save
  PROVE  SavingInv'
<1> USE DEF SavingInv, database, player, call
<1>1. CASE Load
  BY <1>1 DEF Load, SaTypeOK, Progress, Sessions, DepotUntouched, DraftSoFar
<1>2. CASE Play
  <2>1. PICK t \in Table, rows \in SUBSET Row : /\ mem' = [mem EXCEPT ![t] = rows]
                                                /\ touched' = touched \cup Touched(t)
    BY <1>2 DEF Play
  <2> /\ pc = "playing"
      /\ UNCHANGED <<rewritten, stored, draft, session, holder, pc, next, tries, after>>
    BY <1>2 DEF Play
  <2>2. mem' \in [Table -> SUBSET Row] /\ touched' \in SUBSET {"depot"}
    BY <2>1 DEF SaTypeOK, Touched
  <2>3. touched' = {} => touched = {} /\ mem'["depot"] = mem["depot"]
    BY <2>1 DEF SaTypeOK, Touched, Table
  <2>4. QED
    BY <2>2, <2>3 DEF SaTypeOK, Progress, Sessions, DepotUntouched, DraftSoFar
<1>3. CASE Save
  BY <1>3, SavingAssumption DEF SavingAssumption, Save, SaTypeOK, Progress, Sessions, DepotUntouched, DraftSoFar
<1>4. CASE WriteItem
  <2>1. PICK old \in mem["depot"], new \in Row \ mem["depot"] :
          mem' = [mem EXCEPT !["depot"] = (@ \ {old}) \cup {new}]
    BY <1>4 DEF WriteItem
  <2> DEFINE depot == (mem["depot"] \ {old}) \cup {new}
  <2>2. depot \in SUBSET Row
    BY DEF SaTypeOK, Table
  <2>3. mem' = [mem EXCEPT !["depot"] = depot]
    BY <2>1
  <2> HIDE DEF depot
  <2>4. mem' \in [Table -> SUBSET Row]
    BY <2>2, <2>3 DEF SaTypeOK
  <2>5. touched' \in SUBSET {"depot"} /\ rewritten' = {"depot"} /\ pc = "playing"
    BY <1>4 DEF WriteItem, SaTypeOK, Touched
  <2>6. QED
    BY <1>4, <2>4, <2>5 DEF WriteItem, SaTypeOK, Progress, Sessions, DepotUntouched, DraftSoFar
<1>5. QED  BY <1>1, <1>2, <1>3, <1>4

\* A try that failed leaves a session without transaction behind.
LEMMA FailureKeepsInv ==
  ASSUME SavingInv, Failed,
         pc \in {"select", "begin", "run", "commit"},
         session' = "auto", draft' = stored', holder' \in {"none", "net"},
         stored' \in [Table -> SUBSET Row],
         touched = {} => stored'["depot"] = stored["depot"]
  PROVE  SavingInv'
<1> USE SavingAssumption DEF SavingAssumption, SavingInv, Failed, TryAgain, Return, player
<1>1. SaTypeOK'
  BY DEF SaTypeOK, Progress
<1>2. Progress' /\ Sessions'
  BY DEF SaTypeOK, Progress, Sessions
<1>3. DepotUntouched' /\ DraftSoFar'
  BY DEF SaTypeOK, DepotUntouched, DraftSoFar
<1>4. QED  BY <1>1, <1>2, <1>3

\* Up to the first statement.
LEMMA OpeningKeepsInv ==
  ASSUME SavingInv, Select \/ Begin \/ BeginRefused \/ Lock
  PROVE  SavingInv'
<1> USE DEF SavingInv, database, player, call
<1>1. CASE Select
  <2>1. CASE Failed
    BY <1>1, <2>1, FailureKeepsInv DEF Select, SaTypeOK, Sessions
  <2>2. CASE ~Failed
    BY <1>1, <2>2 DEF Select, SaTypeOK, Progress, Sessions, DepotUntouched, DraftSoFar
  <2>3. QED  BY <2>1, <2>2
<1>2. CASE Begin
  BY <1>2 DEF Begin, Published, SaTypeOK, Progress, Sessions, DepotUntouched, DraftSoFar
<1>3. CASE BeginRefused
  BY <1>3, FailureKeepsInv DEF BeginRefused, SaTypeOK, Sessions
<1>4. CASE Lock
  BY <1>4 DEF Lock, Locked, SaTypeOK, Progress, Sessions, DepotUntouched, DraftSoFar
<1>5. QED  BY <1>1, <1>2, <1>3, <1>4

\* One statement done, inside the transaction or without it.
LEMMA StatementKeepsInv ==
  ASSUME SavingInv, Statement
  PROVE  SavingInv'
<1> USE DEF SavingInv, Statement, player, call
<1>1. next \in 1..5 /\ Following(next) \in 1..6 /\ Following(next) # 1
  BY DEF Progress, Following
<1>2. CASE session = "tx"
  <2>1. SaTypeOK'
    BY <1>1, <1>2, AppliedIs DEF SaTypeOK
  <2>2. Progress' /\ Sessions'
    BY <1>1, <1>2 DEF SaTypeOK, Progress, Sessions, Following
  <2>3. DepotUntouched'
    BY <1>2 DEF DepotUntouched, Progress
  <2>4. DraftSoFar'
    <3>1. /\ draft' = Applied(next, draft) /\ next' = Following(next)
          /\ stored' = stored /\ mem' = mem
      BY <1>2
    <3>2. CASE next = 1
      BY <1>2, <3>1, <3>2, AppliedIs DEF SaTypeOK, DraftSoFar, Following, Table
    <3>3. CASE next = 2
      BY <1>2, <3>1, <3>3, AppliedIs DEF SaTypeOK, DraftSoFar, Following, Table
    <3>4. CASE next = 3
      <4>1. /\ draft'["items"] = mem["items"]
            /\ \A t \in Table \ {"items"} : draft'[t] = draft[t]
        <5>1. draft' = [draft EXCEPT !["items"] = draft["items"] \cup mem["items"]]
          BY <3>1, <3>4, AppliedIs DEF SaTypeOK
        <5>2. draft["items"] = {}
          BY <1>2, <3>4 DEF DraftSoFar
        <5>3. QED  BY <5>1, <5>2 DEF SaTypeOK, Table
      <4>2. IF touched = {} THEN next' = 6 /\ draft["depot"] = stored["depot"] ELSE next' = 4
        BY <1>2, <3>1, <3>4 DEF Following, DraftSoFar
      <4>3. QED  BY <1>2, <3>1, <3>4, <4>1, <4>2 DEF DraftSoFar, Table
    <3>5. CASE next \in {4, 5}
      <4>1. /\ draft'["depot"] = IF next = 4 THEN {} ELSE mem["depot"]
            /\ \A t \in Table \ {"depot"} : draft'[t] = draft[t]
        <5>1. draft' = [draft EXCEPT !["depot"] =
                          IF next = 4 THEN {} ELSE draft["depot"] \cup mem["depot"]]
          BY <3>1, <3>5, AppliedIs DEF SaTypeOK
        <5>2. next = 5 => draft["depot"] = {}
          BY <1>2 DEF DraftSoFar
        <5>3. QED  BY <3>5, <5>1, <5>2 DEF SaTypeOK, Table
      <4>2. next' = next + 1 /\ touched' = touched /\ touched # {}
        BY <3>1, <3>5 DEF Following, Progress
      <4>3. QED  BY <1>2, <3>1, <3>5, <4>1, <4>2 DEF DraftSoFar, Table
    <3>6. QED  BY <1>1, <3>2, <3>3, <3>4, <3>5
  <2>5. QED  BY <2>1, <2>2, <2>3, <2>4
<1>3. CASE session = "auto"
  <2>1. SaTypeOK'
    BY <1>1, <1>3, AppliedIs DEF SaTypeOK
  <2>2. Progress' /\ Sessions' /\ DraftSoFar'
    BY <1>1, <1>3 DEF SaTypeOK, Progress, Sessions, DraftSoFar, Following
  <2>3. DepotUntouched'
    BY <1>1, <1>3, AppliedIs DEF SaTypeOK, Progress, DepotUntouched, Table
  <2>4. QED  BY <2>1, <2>2, <2>3
<1>4. QED  BY <1>2, <1>3 DEF SaTypeOK

\* What can go wrong with the statements, and the end of the transaction.
LEMMA EndingKeepsInv ==
  ASSUME SavingInv, StatementLost \/ StatementRefused \/ Commit \/ CommitLost
  PROVE  SavingInv'
<1> USE DEF SavingInv, player, call
<1>1. CASE StatementLost
  <2>1. next \in 1..5
    BY <1>1 DEF StatementLost, Progress
  <2>2. CASE Discard
    BY <1>1, <2>2 DEF StatementLost, Discard, SaTypeOK, Progress, Sessions, DepotUntouched, DraftSoFar
  <2>3. CASE ~Discard
    <3>1. /\ stored' = Applied(next, stored) /\ draft' = stored'
          /\ session = "auto" /\ session' = "auto"
      BY <1>1, <2>3 DEF StatementLost
    <3>2. stored' \in [Table -> SUBSET Row]
      BY <2>1, <3>1, AppliedIs DEF SaTypeOK
    <3>3. touched = {} => stored'["depot"] = stored["depot"]
      BY <2>1, <3>1, AppliedIs DEF SaTypeOK, Progress, Table
    <3>4. QED
      BY <1>1, <3>1, <3>2, <3>3
      DEF StatementLost, SaTypeOK, Progress, Sessions, DepotUntouched, DraftSoFar
  <2>4. QED  BY <2>2, <2>3
<1>2. CASE StatementRefused
  BY <1>2, FailureKeepsInv DEF StatementRefused, RolledBack, Discard, SaTypeOK
<1>3.   /\ Published \in [Table -> SUBSET Row]
        /\ pc = "commit" /\ touched = {} => Published["depot"] = stored["depot"]
  BY DEF Published, SaTypeOK, Progress, DraftSoFar, DepotUntouched
<1>4. CASE Commit
  BY <1>3, <1>4 DEF Commit, Return, SaTypeOK, Progress, Sessions, DepotUntouched, DraftSoFar
<1>5. CASE CommitLost
  BY <1>3, <1>5, FailureKeepsInv DEF CommitLost, SaTypeOK
<1>6. QED  BY <1>1, <1>2, <1>4, <1>5

LEMMA OthersKeepInv ==
  ASSUME SavingInv, NetQuery \/ NetLost \/ NetDone \/ Crash \/ Restart
  PROVE  SavingInv'
<1> USE DEF SavingInv, database, player, call, Discard,
            SaTypeOK, Progress, Sessions, DepotUntouched, DraftSoFar
<1>1. CASE NetQuery
  BY <1>1 DEF NetQuery
<1>2. CASE NetLost
  BY <1>2 DEF NetLost
<1>3. CASE NetDone
  BY <1>3 DEF NetDone
<1>4. CASE Crash
  BY <1>4 DEF Crash
<1>5. CASE Restart
  BY <1>5 DEF Restart
<1>6. QED  BY <1>1, <1>2, <1>3, <1>4, <1>5

THEOREM SavingInvariant == SaSpec => []SavingInv
<1>1. SavingInv /\ [SaNext]_saVars => SavingInv'
  <2> SUFFICES ASSUME SavingInv, [SaNext]_saVars PROVE SavingInv'
    OBVIOUS
  <2>1. CASE SaNext
    BY <2>1, CallersKeepInv, OpeningKeepsInv, StatementKeepsInv, EndingKeepsInv, OthersKeepInv
    DEF SaNext
  <2>2. CASE UNCHANGED saVars
    BY <2>2 DEF saVars, SavingInv, SaTypeOK, Progress, Sessions, DepotUntouched, DraftSoFar
  <2>3. QED  BY <2>1, <2>2
<1>2. QED  BY InitEstablishes, <1>1, PTL DEF SaSpec
-----------------------------------------------------------------------------
\* At COMMIT, with the session still in the transaction, the draft is what is
\* to be saved.
LEMMA CommitIsWhole ==
  ASSUME SavingInv, pc = "commit", session = "tx"
  PROVE  draft = Saved
<1>1. /\ draft["player"] = mem["player"] /\ draft["items"] = mem["items"]
      /\ draft["depot"] = IF touched = {} THEN stored["depot"] ELSE mem["depot"]
  BY DEF SavingInv, Progress, DraftSoFar
<1>2. /\ draft \in [Table -> SUBSET Row]
      /\ mem \in [Table -> SUBSET Row]
      /\ rewritten \in SUBSET {"depot"}
  BY DEF SavingInv, SaTypeOK
<1>3. touched = {} /\ rewritten = {} => mem["depot"] = stored["depot"]
  BY DEF SavingInv, DepotUntouched
<1>4. CASE LeftOut
  BY <1>1, <1>2, <1>4 DEF Saved, LeftOut, Table
<1>5. CASE ~LeftOut
  BY <1>1, <1>2, <1>3, <1>5 DEF Saved, LeftOut, Table
<1>6. QED  BY <1>4, <1>5

\* SaTypeOK: what the variables of Saving hold, for any rows and tries.
THEOREM SavingTypeOK == SaSpec => []SaTypeOK
<1>1. SavingInv => SaTypeOK
  BY DEF SavingInv
<1>2. QED  BY SavingInvariant, <1>1, PTL

\* NobodyReadsDrafts: databaseLock and the transactions of savePlayer.
THEOREM SavingHidesDrafts == SaSpec => []NobodyReadsDrafts
<1>1. SavingInv => NobodyReadsDrafts
  BY DEF SavingInv, SaTypeOK, Progress, Sessions, DraftSoFar, NobodyReadsDrafts
<1>2. QED  BY SavingInvariant, <1>1, PTL

\* SavedWhole: only COMMIT changes the tables, and to all of the player, but
\* for a transaction whose connection was lost and for a depot in which items
\* were only written into, which stays in the tables as it was.
THEOREM SavingIsWhole == SaSpec => SavedWhole
<1>1. SavingInv /\ [SaNext]_saVars => [stored' # stored => stored' = Saved \/ Torn]_saVars
  <2> SUFFICES ASSUME SavingInv, SaNext, stored' # stored
               PROVE  stored' = Saved \/ Torn
    BY DEF saVars
  <2> USE DEF SavingInv, database, Discard
  <2>1. CASE Load \/ Play \/ WriteItem \/ Save \/ Select \/ BeginRefused \/ Lock
    BY <2>1 DEF Load, Play, WriteItem, Save, Select, BeginRefused, Lock
  <2>2. CASE Begin
    BY <2>2 DEF Begin, Published, Sessions
  <2>3. CASE Statement \/ StatementLost
    BY <2>3 DEF Statement, StatementLost, Torn, SaTypeOK
  <2>4. CASE StatementRefused
    BY <2>4 DEF StatementRefused, RolledBack
  <2>5. CASE Commit \/ CommitLost
    <3>1. pc = "commit" /\ stored' \in {stored, Published}
      BY <2>5 DEF Commit, CommitLost
    <3>2. stored' = draft /\ session = "tx"
      BY <3>1 DEF Published
    <3>3. QED  BY <3>1, <3>2, CommitIsWhole
  <2>6. CASE NetQuery \/ NetLost \/ NetDone \/ Crash \/ Restart
    BY <2>6 DEF NetQuery, NetLost, NetDone, Crash, Restart
  <2>7. QED  BY <2>1, <2>2, <2>3, <2>4, <2>5, <2>6 DEF SaNext
<1>2. QED  BY SavingInvariant, <1>1, PTL DEF SaSpec, SavedWhole

\* TrueMeansSaved: with the same exceptions, what savePlayer returns true for
\* is saved, and no caller gives up before its tries are used up.
THEOREM SavingTrueMeansSaved == SaSpec => TrueMeansSaved
<1>1. SavingInv /\ [SaNext]_saVars
         => [SaveEnds => (tries' = 0 \/ stored' = Saved \/ Torn)]_saVars
  <2> SUFFICES ASSUME SavingInv, SaNext, SaveEnds
               PROVE  tries' = 0 \/ stored' = Saved \/ Torn
    OBVIOUS
  <2> USE DEF SaveEnds
  <2>1. CASE Load \/ Play \/ WriteItem \/ Save \/ Begin \/ Lock \/ Statement \/ StatementLost
    BY <2>1 DEF Load, Play, WriteItem, Save, Begin, Lock, Statement, StatementLost
  <2>2. CASE Select \/ BeginRefused \/ StatementRefused \/ CommitLost
    <3>1. Failed
      BY <2>2 DEF Select, BeginRefused, StatementRefused, CommitLost
    <3>2. ~(tries > 1) /\ tries > 0 /\ tries \in Nat
      BY <2>2, <3>1, SavingAssumption
      DEF Failed, TryAgain, SavingInv, SaTypeOK, Progress, SavingAssumption,
          Select, BeginRefused, StatementRefused, CommitLost
    <3>3. QED  BY <3>1, <3>2 DEF Failed
  <2>3. CASE Commit
    <3>1. pc = "commit" /\ stored' = Published
      BY <2>3 DEF Commit
    <3>2. CASE session = "tx"
      BY <3>1, <3>2, CommitIsWhole DEF Published
    <3>3. CASE session = "auto"
      BY <3>1, <3>3 DEF Torn
    <3>4. QED  BY <3>2, <3>3 DEF SavingInv, SaTypeOK
  <2>4. CASE NetQuery \/ NetLost \/ NetDone \/ Crash \/ Restart
    BY <2>4 DEF NetQuery, NetLost, NetDone, Crash, Restart
  <2>5. QED  BY <2>1, <2>2, <2>3, <2>4 DEF SaNext
<1>2. QED  BY SavingInvariant, <1>1, PTL DEF SaSpec, TrueMeansSaved
=============================================================================
