# Styller: a verification development

Styller is a game server (a fork of The Forgotten Server): a C++ program that keeps a
world of items and creatures in memory, lets players in over TCP, runs the game logic on
one thread and stores players and houses in MySQL. This directory holds TLA+ models of
the parts of it whose correctness depends on *order*: of threads, of callbacks, of
messages, of the steps of one long operation.

Paths are relative to the root of the repository as `src/`, so the dispatcher is
`src/src/tasks.cpp`. `PROJECT.json` lists the components, the runs, a mutant for every
property, the lines behind every definition, the findings, the hazards and the theorems.

1. [The system](#1-the-system)
2. [The plan](#2-the-plan)
3. [The modules and the code](#3-the-modules-and-the-code)
4. [The runs](#4-the-runs)
5. [Fairness](#5-fairness)
6. [Findings](#6-findings)
7. [The proofs](#7-the-proofs)
8. [What is not shown](#8-what-is-not-shown)

## 1. The system

### Threads and how they meet

| thread | runs | code |
|---|---|---|
| main / network | `main()`, then `ServiceManager::run()`, that is the one `io_context` of all sockets, their timers and the signals | `otserv.cpp`, `server.cpp`, `connection.cpp`, `signals.cpp` |
| dispatcher | every task of the game: creatures, items, logins, packets | `tasks.cpp` |
| scheduler | timers; a timer that expires hands its task to the dispatcher | `scheduler.cpp` |
| database | queries the game does not want to wait for | `databasetasks.cpp` |

They share little: the dispatcher's list (`taskLock`), the scheduler's `io_context`, the
database tasks' list (another `taskLock`), the database handle (`databaseLock`), each
connection (`connectionLock`), the set of connections (`connectionManagerLock`), and some
game state that the network thread reads without a lock (`gameState`, a protocol's
`player`).

A packet goes: socket -> `Connection::parsePacket` (network) -> `ProtocolGame::parsePacket`
(network) -> `g_dispatcher.addTask` -> a method of `Game` (dispatcher) -> the `send`
methods of the protocols -> an output buffer -> `OutputMessagePool::sendAll` (dispatcher,
every 10 ms, by the scheduler) -> `Connection::send` -> socket. Because everything that
changes the world is a task of the dispatcher, the game logic itself meets no concurrency;
its difficulty is *long sequences of tasks* with raw pointers kept from one to the next.

### Components that are modelled

| component | state | operations | what is hard | correct when |
|---|---|---|---|---|
| dispatcher (`tasks.cpp`) | task list, private batch, thread state | addTask, shutdown, stop, the loop | notify after the unlock, a wait that remembers nothing, the swap of the list, a stop that takes no lock | nothing accepted is overtaken or left behind Stop, no sleep on work, Stop ends it |
| scheduler (`scheduler.cpp`) | id -> timer, handlers in the queue, state | addEvent, stopEvent, shutdown, expiry | expiry against stop against shutdown, ids that wrap | each task has one owner, and is dropped only when somebody meant it |
| database tasks (`databasetasks.cpp`) | query list, state | addTask, flush, shutdown, the loop | two threads pop one list; state tested outside the lock | each query once, answered once; the thread ends |
| connection (`connection.cpp`) | queue of messages, timers, outstanding operations, closed | accept, parseHeader, parsePacket, send, onWriteOperation, close, handleTimeout, closeAll | handlers of operations that were cancelled, timers that fire late, close from everywhere | a write owns the front of the queue, release comes once and last, somebody always watches |
| game protocol (`protocolgame.cpp`), output pool (`outputmessage.cpp`) | which protocol has which player, reference counts, the autosend list | login, connect, release, logout, kick, death, cleanup, sendAll | a second between the two halves of a login; pointers in both directions | pointers agree, counts are the references, no player is leaked |
| waiting list (`protocolgame.cpp`) | two lists with timeouts | clientLogin, cleanupList | entries that expire, move up, are renewed | never too many players; the order of the list does not hold |
| items and cylinders (`game.cpp`, `container.cpp`, `tile.cpp`, `player.cpp`) | lists, parent pointers, counts | internalMoveItem, internalRemoveItem, exchange | an item is out of its old list before the new one may refuse it, stacks merged and split at once | a tree in which nothing is doubled or lost |
| trade (`game.cpp`, `player.cpp`) | state, partner and offer of each player, `tradeItems` | request, counter offer, accept, close, and some twenty hooks | offers are raw pointers to items that move | trades are between two, what is offered is at hand, both or none change hands |
| saving (`iologindata.cpp`, `database.cpp`) | tables, transaction, lock of the handle | loadPlayer, savePlayer, the callers' retries, isIpBanned | refused statements, lost connections, crashes, BEGIN outside the lock, a depot saved only when a flag says so | the database holds whole players; true means saved, but for what was written into items of the depot |

### Components that are not (yet) modelled

| component | why |
|---|---|
| decay of items (`game.cpp` 4510-4680, 1356-1400) | planned: lists of decaying items that share the reference counts of the items |
| party (`party.cpp`) | planned: invitations, leadership, leaving, the shared-experience flag |
| saving of houses and accounts | planned: the transactions of `Saving` around one list each, some statements without their result looked at |
| start and end of the server (`otserv.cpp`, `signals.cpp`) | planned in part: the wait for the loader; what shutdown does to the threads and connections is in their modules |
| services and acceptors (`server.cpp`) | accept one, start the next; what an accepted connection does is in `Connection` |
| creatures and their checks, monsters, npcs, spawns | walking and thinking of one creature at a time, by random choices, data files and scripts; the buckets of `checkCreatures` follow the pattern of the decay lists |
| combat, conditions, spells, weapons | formulas over game data that no text of the repository specifies |
| map and path finding | searches over large data; `Items` keeps a line of tiles |
| houses, beds, depots, mail | cylinders with rules of their own |
| chat, guilds | lists of users changed by one task at a time |
| login, status and old protocols | one request and one answer, no state stays |
| message encoding, encryption | conversions of data; that each message is prepared once and in order is in `Connection` |
| script engine, event hooks | what scripts do is not in the C++ code; where a hook may refuse, the models have both outcomes |
| world files, item types, configuration, utilities, game data | parsers that run once, functions on strings, data |

## 2. The plan

Most important first: the threads everything rests on, then who may play, then the goods.

| step | modules | composes | theorems | state |
|---|---|---|---|---|
| 1 | `Fifo`, `Dispatcher`, `DispatcherProofs` | `Fifo` is the abstract specification `Dispatcher` implements | types, no lost wakeup, refinement, nothing behind Stop | done |
| 2 | `DatabaseTasks`, `Scheduler` | both feed the dispatcher, which is "handed over" there | planned: `EachOnce`, `OnePlace` | modelled, checked |
| 3 | `Connection` | posts to the dispatcher what `GameSession` consumes | planned: `WriteOwnsFront`, `ReleaseIsLast` | modelled, checked |
| 4 | `GameSession`, `WaitingList` | relies on what `Connection` shows: release is posted once and last | planned: `CountsAreReferences`, `ClientsAreMutual` | modelled, checked |
| 5 | `Items`, `Trade`, `TradeProofs` | `Trade` extends `Items` | `PartnersAgree` done; planned: `WorldIsATree` | modelled, checked, proved in part |
| 6 | `Saving`, `SavingProofs` | uses the database handle with the network thread | all four properties | done |
| 7 | a module for decay | `Items` with reference counts | the count of an item is the lists it is in | left |
| 8 | a module for parties | | members agree, nobody is a party alone | left |
| 9 | saving of houses and accounts, start-up, the buckets of creature checks | `Saving` | | left |

`Connection`, `GameSession`, `Dispatcher` are not multiplied into one state space. Each
relies on a property that is shown of its neighbour: `GameSession` takes tasks from the
head of one list in order (`OneFifo`), and never sees anything of a protocol after its
release (`ReleaseIsLast`); `Saving` needs nothing of the game but that one task runs at a
time.

## 3. The modules and the code

A module is written so that one action is what no other actor can interrupt: a critical
section of a mutex for the threads, a completion handler with its lock for connections, a
task of the dispatcher for the game, a statement of SQL for the database. The `MC` modules
only add what a `.cfg` cannot say. An operator whose name ends in `_Something` and stands
just before `Something` is a way to get that piece of code wrong; no model uses it, but
with it in place the run must fail, so that we know the properties bite.

**`Fifo`** is the promise of the dispatcher: accept at the tail, carry out from the head.

**`Dispatcher`** (`tasks.cpp`, `tasks.h`, `thread_holder_base.h`). `dPc` is the place of the
worker in `threadMain`: it tests the state without the lock (`TestState`), takes the whole
list under the lock (`TakeAll`) or waits (`Wait`), and runs the batch (`StartTask`,
`FinishTask`; `Expire` is the task past its deadline). `addTask` is three steps: the lock and
the test of the state (`AddTask`), the push and the unlock (`PushTask`), and the notification (`Notify`,
owed by the threads in `signalling`). `adding` is the thread between the first two, which
holds the lock: no other critical section runs then, but `Close`, `ThreadHolder::stop()`,
does, as it takes no lock. `shutdown()` notifies under the lock and is one step. Tasks may
call `addTask`, `stop` and `shutdown` themselves, which is what the game does.

**`DatabaseTasks`** (`databasetasks.cpp`). `bPc`, `bHand` are the database thread and the
query in its hands; `gPc`, `gHand` the game thread in `addTask`, `flush` and `shutdown`.
Queries are numbers in the order of acceptance; only the model numbers them. Note what the code does differently from
the dispatcher: one query at a time instead of the whole list, and a state test outside the
lock with no Stop task to make up for it.

**`Scheduler`** (`scheduler.cpp`). The three calls only post handlers (`ops`), which
`RunAdd`, `RunStop`, `RunTimeout` and `RunShutdown` carry out in order. `timer` is
`eventIdTimerMap`: no entry, an idle entry (expired or cancelled, handler on its way), or
the task that waits. A task that must go on to the dispatcher is in two steps, since the
state is looked at before.

**`Connection`** (`connection.cpp`, `server.cpp`). `conn` is the object. Methods that run
under `connectionLock` are operators from one record to the next (`Close`, `Send`,
`InternalSend`, `StartRead`), because they call each other while holding a recursive lock;
handlers and outside calls are actions. `Starts` says whether starting an asynchronous
operation may throw, as every `try` block of the file expects. `late` holds the timers
whose handlers were queued before they were cancelled. `AcceptProtocol` runs before the
lock of `accept`, so the dispatcher may use the connection first. `CloseAll` is the one
method that touches sockets from another thread without their lock.

**`GameSession`** (`protocolgame.cpp`, `game.cpp`, `player.cpp`, `outputmessage.cpp`). All
connections are for the same character. `prot[p]` is a protocol with its connection;
`obj[x]` the `Player` object that the login of `x` made. `Arrive`, `NetworkClose`, `Gone`,
`AskLogout` are the network thread; `ConnectDue` is the event a second after a login that
threw somebody out; `RunLogin` (`LoginRefused`, `LoginPlaced`, `LoginKicked`, `LoginTaken`),
`RunConnect`, `RunRelease`, `RunLogout` are tasks; `KickPlayer`, `NoPong`, `Die`, `Cleanup`,
`CheckCreatures` and `SendAll` happen inside others. `refs` is `referenceCounter`; the map,
the protocols, the list of creature checks (`checks`: on, or off until the next round finds
it) and each entry of `toRelease` hold one. `NoPong` may be refused by the tile, by a script
or by `isConnecting`, so nothing is said about when it happens.

**`WaitingList`** (`protocolgame.cpp` 20-125, called from `login`, 194). `EnterDirectly`, `EnterFromList`,
`WaitAgain`, `JoinList` are the outcomes of `clientLogin`, each with the cleaning of both
lists that precedes it. The code stores a time over a GUID; the model does too (`ATime`).
The slot is counted from the *end* of the list (`std::distance(it, end()) + 1`): the first
in line has the largest number, and no slot is less than 2, so one place stays free while
somebody waits. The last in line is therefore let in before the first (`FirstInLineFirst`).

**`Items`** (`game.cpp`, `container.cpp`, `tile.cpp`, `player.cpp`, `thing.cpp`, `item.cpp`)
has no behaviour of its own: a world, and what moving part of a stack, merging it, cloning
the rest and removing the source make of it. The lists and the parent pointers are two
things: `removeThing` (`TakenOut`) looks the item up in the list of the cylinder it is given,
clears the pointer and erases the entry; `addThing` (`PutIn`) does both the other way round,
or nothing at all when the index is beyond the capacity of a bag. The client sends such
indices; `IndexIn` is the line of `queryDestination` that corrects them. A tile is a position
on a line; any slot of an inventory takes anything.

**`Trade`** (`game.cpp` 2564-2990, `player.cpp`). `MoveItem`, `Exchange`, `UseUp` and `Walk`
change the world and then run every hook of `Player` that may call a trade off
(`RemovalEnds`, `UpdateEnds`, `AdditionEnds`, `OutOfReach`); these compute the set of
players whose trade ends, and `CloseTrades` ends the trades of the set and of their
partners. `AcceptTrade` has four outcomes: marked, called off (a test failed, or there is no
counter offer), both moves of `Swap`, the second of which may fail, or the end of the server
(`up`): when there is no counter offer and the offer is the backpack its owner wears, lines
2773 to 2783 of `game.cpp` ask for the slot of the other item through a null pointer. Which
slot a bag lies in is not modelled, so a bag in the inventory has both outcomes.

**`Saving`** (`iologindata.cpp`, `database.cpp`, `database.h` and the callers in
`player.cpp`, `game.cpp`, `mailbox.cpp`, `house.cpp`, `ban.cpp`). `stored` is what MySQL
has committed, `draft` what the transaction sees, `session` whether the *server* believes
in a transaction; `pc` is what the *game* believes. `BEGIN` is sent before `databaseLock`
is taken for the transaction, so `Begin` and `Lock` are two steps, and `NetQuery`,
`NetDone` may come between. `executeQuery` reconnects by itself: `StatementLost`. The
destructor of a transaction whose `BEGIN` was refused rolls back and unlocks what it does
not hold; on the platforms of the build neither has an effect, and `BeginRefused` has none.
`touched` is `DepotLocker::save`, which only the notifications of items that come and go
set; `WriteItem` is `playerWriteItem`, which changes a text where it lies and notifies only
if the item can be written once. `rewritten` remembers that this happened.

## 4. The runs

Every run is exhaustive in its bounds; none has a state constraint, the bounds are in the
guards. Deadlock is not checked where the system may come to rest: all but `saving`, whose
player goes on playing for ever.

| run | bounds | states | what it shows |
|---|---|---|---|
| `dispatcher` | 2 other threads and the worker, 2 tasks, 3 pending | 4,100 | `NoLostWakeup`; `AheadOfStop`: what is pushed after `stop()` still lands ahead of Stop; `OneFifo` (it implements `Fifo`); `ShutdownEnds` |
| `database_tasks` | 4 queries, 2 with callback | 2,928 | `EachOnce`; `OvertakesOnlyInHand`: a flush overtakes only the query in the other thread's hands; `AnswersFollowQueries`; `AcceptedIsExecuted` even when the server goes down |
| `scheduler` | 4 events, ids modulo 2 | 145,204 | `OnePlace`: a task is never deleted twice nor used after; `DroppedOnlyOnPurpose`; `NoTimerLeak`; `EventuallyOver` |
| `connection` | 2 packets, 2 messages, operations start or not | 41,510 | `WriteOwnsFront`, `PreparedOnceInOrder`, `ReleaseIsLast`, `NeverUnwatched`, `LingersOnlyOnAWrite` |
| `login` | session: 3 connections of one character, replacing or not; line: 3 players (1 premium), 1 staff, 2 places, 25 s; one of the two is chosen at the start | 1,064,558 | `CountsAreReferences`, `ClientsAreMutual`, `AutosendServes`, `NoDirectTakeover`; `NeverOverfull` |
| `trade` | 3 players, 2 bags, 2 stacks of 2, 2 tiles out of each other's reach | 64,852 | `WorldIsATree`, `StacksConserved`, `PartnersAgree`, `OffersAtHand`, `TradeSwapsBoth` |
| `saving` | 2 rows, 3 tries | 205,536 | `SavedWhole`, `TrueMeansSaved`, `NobodyReadsDrafts` |

Each passing run checks the type invariants of its modules besides. `database_shutdown`,
`session_leak`, `waiting_list_keeps`, `waiting_list_order` and `saving_letters` are the runs
behind the findings.

Why these bounds are enough to see what may go wrong:

- *dispatcher*: a lost wakeup needs one thread between unlock and notification, another
  that adds meanwhile, and the worker; three pending tasks put one in each of list, batch
  and call. The theorems lift the bound.
- *database_tasks*: one query in each thread's hands, one waiting, one still to come.
- *scheduler*: four events over two ids means every id is used twice, so a live event meets
  a later one with the same id, the wrap that takes 2^32 events in the program.
- *connection*: two messages, one being written and one queued behind it; two packets, the
  first, which chooses the protocol, and another.
- *login*: a third login is needed to come between the two halves of the second; in the
  line, one place more wanted than there is, both lists in use, and a clock that
  runs longer than the timeout of an entry.
- *trade*: a third player is needed to move the goods of the other two and to ask one who
  trades; two bags make a bag in a bag; two stacks of two make merges that fill and that
  leave a rest; tiles 0 and 3 are in reach of one another neither for hands nor for trades.
  The border between reach and distance, one step and two, is not tried: it would need four
  tiles. Players, bags and stacks are symmetric: no action singles one out, and no liveness is
  checked there.
- *saving*: two rows tell an empty list, an old one and a new one apart; three tries is the
  program's number. Rows are symmetric.

Some of the properties have an exception, which says what the code does:

- `LingersOnlyOnAWrite`: a closed connection may keep its socket for ever, with one write
  that the peer never takes or that could not be started (`Stuck`). The write timer does not
  help: its `close(FORCE_CLOSE)` finds `closed` set and returns. What the property shows is
  that nothing else keeps a socket.
- `TradeSwapsBoth` excludes a stack that was to go to a full inventory: the test before the
  trade counts the room in other stacks, the moves are told to ignore it, and the result of
  the second is not looked at.
- `SavedWhole` and `TrueMeansSaved` exclude `Torn`: the connection to MySQL is lost inside a
  transaction, the handle reconnects and sends the statement again, and from there each
  statement takes effect at once; what came before is gone, and `commit()` reports success.
- They also except a depot in which items were only written into (`LeftOut`), which
  `savePlayer` skips: the tables keep the old depot, and the text is lost (finding 5).

## 5. Fairness

- *Threads* (`DFairness`, `BFairness`, `SFairness`, `NetworkThread` in `CFairness`): the operating system runs a thread that can run, so weak
  fairness to the steps of each thread, not of its choices. A push and a
  notification that are owed are made. Spurious wakeups, calls of the game, and shutdown are never promised.
- *Timers* expire and their handlers run: weak fairness to `Expire`, `TimerExpires`,
  `HandleTimeout`.
- *Sockets*: an operation on a closed or broken socket fails in the end (`ReadFails`,
  `WriteFails`). The peer owes nothing.
- `GameSession`, `WaitingList`, `Trade` and `Saving` check safety only and assume none.

## 6. Findings

1. **The database thread may sleep through the shutdown** (`database_shutdown`;
   `databasetasks.cpp:89`). It tests the state outside the lock. If `shutdown()` sets
   TERMINATED, flushes and notifies between that test and the wait, the only notification
   is lost, and `g_databaseTasks.join()` never returns. Everything accepted has been
   carried out by then (`AcceptedIsExecuted` holds): the process hangs, it loses nothing.
2. **A player may be tied to a protocol that was released** (`session_leak`;
   `protocolgame.cpp:263`). `connect()` asks whether the `Connection` object is gone; the
   comment there takes this for "release() has been called". The object may outlive
   `release()`, and then the player has a client that nobody will release again.
3. **A waiting client that asks again loses its place** (`waiting_list_keeps`;
   `protocolgame.cpp:106`). The new timeout is stored in `->second`, which is the GUID.
   The entry keeps its old timeout and belongs to nobody; the client joins at the end next
   time. `NeverOverfull` holds all the same.
4. **The last in line is let in before the first** (`waiting_list_order`;
   `protocolgame.cpp:35`). "Currentslot = position in wait list" (line 83) is counted from
   the end of the list: whoever joined last has slot 2. With two waiting and two places
   free the second gets in where the first would be turned away.
5. **What is written into an item in the depot may not be saved** (`saving_letters`;
   `game.cpp:2410`). `playerWriteItem` changes the text and notifies no cylinder, so that
   `DepotLocker::save` stays as it was; if nothing was moved in the depot since the login,
   `savePlayer` skips the lockers and chests, returns true, and the text is gone.

## 7. The proofs

Proved for every value of the constants that satisfies the modules' named assumptions:

| module | theorem | by |
|---|---|---|
| `DispatcherProofs` | `DispatcherTypeOK`, `DispatcherNoLostWakeup`, `DispatcherIsFifo`, `DispatcherAheadOfStop` | the first two are inductive as they stand; the last by `StopInv`; the refinement uses types, and shows that each step appends one task to `Pending`, takes its head, or leaves it |
| `TradeProofs` | `TradePartnersAgree` | `TradeInv` |
| `SavingProofs` | `SavingTypeOK`, `SavingIsWhole`, `SavingTrueMeansSaved`, `SavingHidesDrafts` | `SavingInv` |

`DispatcherAssumption` (the worker is not one of the others, Stop is no task),
`ItemsAssumption` (the null parent is nothing else; sizes are numbers) and
`SavingAssumption` (there is at least one try) are all that is assumed.

*Dispatcher.* `NoLostWakeup` is preserved because the worker waits only on an empty list
and the call that makes the list non-empty is the one that owes the signal. The heart of
the refinement is that taking the batch moves tasks from one part of `Pending` to the next
without changing the whole, which needs that the batch is empty when the list is taken;
that is `BatchInv`. `StopInv` says besides why a push
that comes after `stop()` cannot land behind Stop: `shutdown()` needs the lock, which the
thread that is about to push holds, and after `stop()` no further test succeeds.

*Trade.* `TradeInv` is `PartnersAgree` with the types of the two variables it is about. The
clause of `PartnersAgree` that makes it inductive is that someone with no trade, or who was
only asked, offers nothing: without it a counter offer could overwrite an offer and leave it
behind in `tradeItems`. From there the lemmas show that
`internalCloseTrade` ends whole trades (`CloseTradesKeepsInv`), whichever set of players
the hooks name; a request and an acceptance touch two players. Where items lie plays no
part, so the moves need only that the hooks name players.

*Saving.* What makes a save whole is `DraftSoFar`: after k statements of `savePlayer` the
draft holds, table by table, the new rows of those behind k and the stored rows of those
ahead; behind the last, the depot's are the new ones if it was touched and the stored ones
if not. `DepotUntouched` is why that loses nothing when nothing was written into it either:
then its rows are the stored ones. `Sessions` ties lock, session and place together: only
inside the transaction is the handle the game's, and without a transaction the draft is
what is stored. `Progress` bounds the statement and keeps the tries positive. Then a change
of `stored` outside `Torn` can only be a COMMIT after the last statement, where the draft is
`Saved`: the player in memory, or that with the old depot when it was only written into
(`CommitIsWhole`).

## 8. What is not shown

*Only model-checked*, in the bounds above: everything of `DatabaseTasks`, `Scheduler`,
`Connection`, `GameSession`, `WaitingList`; of `Trade` the tree, the sums, the offers at
hand and the exchange; `ShutdownEnds` of the dispatcher. Liveness stays with TLC, as
the prover has no rules for fairness and `ENABLED`, and so do facts that need induction
over data, like sums over all stacks or the depth of bags in bags.

*Left out of modelled components*: what queries do to tables (`DatabaseTasks`); the lengths
and checksums of packets (`Connection`); packet parsers that only post a game operation,
the account manager and ALLOW_CLONES, with which a character may be in the game twice by
intent (`GameSession`); real times, reduced to units of five seconds and lists shorter than
five (`WaitingList`); depots, houses, mail boxes, trash, transformations, weight, slot
types, scripts that create items (`Items`), and decay but for stacks that are used up at any
time; which column holds what, the `save` switch of a player that turns saving off,
duplicate rows, attributes of items in the
depot that change in place in other ways than by writing, and the online time, which a save that is tried again adds again
(`Saving`).

*Data races*: `ProtocolGame::parsePacket` reads `player` on the network thread while the
dispatcher writes it, and `closeAll` uses sockets without their lock. The models let each
happen at any point between the steps of the others and take an access of a pointer or a
flag as one step.

*What the code does and no property forbids*: a trade accepted before the counter offer is
made goes through unseen, and one with a single worn backpack ends the server (`Trade`); a
player whose login was lost between its two halves, or who stands where nobody may log out,
is not removed by the pings (`GameSession`). The models reach all of these; no text of the
repository says that they should not happen, so there is nothing to refute.

*Components*: those of the second table of section 1. Next are decay (an item in a decay
list is removed from the first of four buckets only, and that list's reference is not given
back), parties, the saving of houses and accounts (the results of some UPDATEs are not
looked at; an account with no values ends the loop over all), and the wait of `main()` for
the loader; then proofs of `EachOnce`, `OnePlace`, `CountsAreReferences`,
`ClientsAreMutual` and the invariants of `Connection`.
