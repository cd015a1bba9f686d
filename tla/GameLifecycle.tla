--------------------------- MODULE GameLifecycle ---------------------------
(***************************************************************************)
(* The life of the server: main and mainLoader of font/otserv.cpp, the     *)
(* game states of game.cpp, the first packet and login of protocolgame.cpp *)
(* as far as they look at the game state, the close and open commands of   *)
(* commands.cpp, and the shutdown.                                         *)
(*                                                                         *)
(* Three threads take part.  The main thread waits for the loader and then *)
(* is the io thread; the dispatcher runs tasks; gameState is read by both  *)
(* without a lock.  A task that touches nothing the io thread looks at is  *)
(* one step; the task that shuts the game down is several.                 *)
(***************************************************************************)
EXTENDS Naturals, Sequences, FiniteSets, SequencesExt

CONSTANTS
    Players,    \* the characters
    Always,     \* those with PlayerFlag_CanAlwaysLogin
    NoPlayer,
    MaxQueue    \* bound on the tasks waiting when another event is let in

ASSUME ConstantsAssumption ==
    /\ Always \subseteq Players
    /\ NoPlayer \notin Players
    /\ MaxQueue \in Nat

VARIABLES
    gameState,      \* Game::gameState
    online,         \* Player::listPlayer
    dstate,         \* Dispatcher::m_threadState
    tasks,          \* Dispatcher::m_taskList
    dpc,            \* where the dispatcher thread stands
    mpc,            \* where the main thread stands
    loaded,         \* mainLoader has loaded the world
    m_isOpen,       \* Server::m_isOpen
    passed,         \* the player whose first packet was let through by the io
                    \* thread and whose login is not queued yet
    late            \* history: the players whose login was queued when
                    \* setGameState(SHUTDOWN) ended

vars == <<gameState, online, dstate, tasks, dpc, mpc, loaded, m_isOpen, passed, late>>

GameState == {"STARTUP", "INIT", "NORMAL", "CLOSED", "SHUTDOWN", "CLOSING"}

\* The states scripts set (doSetGameState takes any; CLOSED is left to the
\* command).
Settable == {"NORMAL", "CLOSING", "SHUTDOWN"}

Tasks ==
    [kind : {"loader", "shutdown"} \cup Settable, player : {NoPlayer}]
        \cup [kind : {"login", "close", "open"}, player : Players]

TypeOK ==
    /\ gameState \in GameState
    /\ online \subseteq Players
    /\ dstate \in {"RUNNING", "CLOSING", "TERMINATED"}
    /\ tasks \in Seq(Tasks)
    /\ dpc \in {"idle", "started", "startup", "notify", "kicked", "queued", "stopped",
                "flushing", "clean", "exited", "blocked"}
    /\ mpc \in {"start", "added", "waiting", "created", "serving"}
    /\ loaded \in BOOLEAN
    /\ m_isOpen \in BOOLEAN
    /\ passed \in Players \cup {NoPlayer}
    /\ late \subseteq Players

\* Game's constructor leaves the state NORMAL, though nothing is loaded.
Init ==
    /\ gameState = "NORMAL"
    /\ online = {}
    /\ dstate = "RUNNING"
    /\ tasks = <<>>
    /\ dpc = "idle"
    /\ mpc = "start"
    /\ loaded = FALSE
    /\ m_isOpen = FALSE
    /\ passed = NoPlayer
    /\ late = {}

-----------------------------------------------------------------------------
(* Threads other than the dispatcher.                                      *)

Task(k) == [kind |-> k, player |-> NoPlayer]
PlayerTask(k, p) == [kind |-> k, player |-> p]

\* mutant: the task is put in front.
AddFront(t) == tasks' = IF dstate = "RUNNING" THEN <<t>> \o tasks ELSE tasks

\* mutant: refused only once the thread has ended.
AddWhileClosing(t) ==
    tasks' = IF dstate # "TERMINATED" THEN Append(tasks, t) ELSE tasks

\* Dispatcher::addTask from another thread.
AddTask(t) == tasks' = IF dstate = "RUNNING" THEN Append(tasks, t) ELSE tasks

\* main, up to the wait on g_loaderSignal.
Start ==
    /\ mpc = "start"
    /\ AddTask(Task("loader"))
    /\ mpc' = "added"
    /\ UNCHANGED <<gameState, online, dstate, dpc, loaded, m_isOpen, passed, late>>

Wait ==
    /\ mpc = "added"
    /\ mpc' = "waiting"
    /\ UNCHANGED <<gameState, online, dstate, tasks, dpc, loaded, m_isOpen, passed, late>>

\* The wait has no predicate: a spurious wakeup ends it like a notification,
\* and the Server is created.
SpuriousWakeup ==
    /\ mpc = "waiting"
    /\ mpc' = "created"
    /\ m_isOpen' = TRUE
    /\ UNCHANGED <<gameState, online, dstate, tasks, dpc, loaded, passed, late>>

\* g_server is set, and the main thread runs the io service.
Serve ==
    /\ mpc = "created"
    /\ mpc' = "serving"
    /\ UNCHANGED <<gameState, online, dstate, tasks, dpc, loaded, m_isOpen, passed, late>>

\* The states in which parseFirstPacket goes on.
FirstPacketChecked == gameState \notin {"SHUTDOWN", "STARTUP"}

\* ProtocolGame::parseFirstPacket up to its last test.  A connection accepted
\* before the acceptor was closed may send it later.
ParseFirstPacket(p) ==
    /\ mpc = "serving"
    /\ passed = NoPlayer
    /\ Len(tasks) < MaxQueue
    /\ FirstPacketChecked
    /\ p \notin online
    /\ PlayerTask("login", p) \notin Range(tasks)
    /\ passed' = p
    /\ UNCHANGED <<gameState, online, dstate, tasks, dpc, mpc, loaded, m_isOpen, late>>

\* The rest of parseFirstPacket: the login task is added.
QueueLogin ==
    /\ passed # NoPlayer
    /\ AddTask(PlayerTask("login", passed))
    /\ passed' = NoPlayer
    /\ UNCHANGED <<gameState, online, dstate, dpc, mpc, loaded, m_isOpen, late>>

\* A player's command arrives on the io thread.
Command(k, p) ==
    /\ mpc = "serving"
    /\ p \in online
    /\ Len(tasks) < MaxQueue
    /\ PlayerTask(k, p) \notin Range(tasks)
    /\ AddTask(PlayerTask(k, p))
    /\ UNCHANGED <<gameState, online, dstate, dpc, mpc, loaded, m_isOpen, passed, late>>

\* A scheduler event whose script calls doSetGameState falls due.
ScriptDue(k) ==
    /\ loaded
    /\ Len(tasks) < MaxQueue
    /\ AddTask(Task(k))
    /\ UNCHANGED <<gameState, online, dstate, dpc, mpc, loaded, m_isOpen, passed, late>>

-----------------------------------------------------------------------------
(* The dispatcher thread.                                                  *)

Next1 == Head(tasks)
Running(k) == dpc = "idle" /\ dstate # "TERMINATED" /\ tasks # <<>> /\ Next1.kind = k

\* Game::setGameState for the states without work of their own.
AfterSet(s) == IF gameState = "SHUTDOWN" THEN gameState ELSE s

\* mainLoader: STARTUP, then everything is loaded, then INIT (spawns, globals)
\* and NORMAL, then notify_all, which only a waiting main thread hears.
LoadStart ==
    /\ Running("loader")
    /\ gameState' = AfterSet("STARTUP")
    /\ dpc' = "started"
    /\ UNCHANGED <<online, dstate, tasks, mpc, loaded, m_isOpen, passed, late>>

LoadWorld ==
    /\ dpc = "started"
    /\ loaded' = TRUE
    /\ gameState' = AfterSet("INIT")
    /\ dpc' = "startup"
    /\ UNCHANGED <<online, dstate, tasks, mpc, m_isOpen, passed, late>>

LoadDone ==
    /\ dpc = "startup"
    /\ gameState' = AfterSet("NORMAL")
    /\ dpc' = "notify"
    /\ UNCHANGED <<online, dstate, tasks, mpc, loaded, m_isOpen, passed, late>>

NotifyLoaded ==
    /\ dpc = "notify"
    /\ dpc' = "idle"
    /\ tasks' = Tail(tasks)
    /\ \/ /\ mpc = "waiting"
          /\ mpc' = "created"
          /\ m_isOpen' = TRUE
       \/ /\ mpc # "waiting"
          /\ UNCHANGED <<mpc, m_isOpen>>
    /\ UNCHANGED <<gameState, online, dstate, loaded, passed, late>>

\* mutant: the look at the state is left to the io thread.
AllowedAtParse(p) == TRUE

\* Does login let the player in, whatever the state when it was queued?
Allowed(p) == gameState \notin {"CLOSING", "CLOSED"} \/ p \in Always

\* ProtocolGame::login.  It may refuse for reasons not modelled (a ban, the
\* waiting list, a failing load), and by what it is refused the connection
\* is closed, which adds a task.
LoginTask ==
    /\ Running("login")
    /\ tasks' = Tail(tasks)
    /\ \/ online' = online
       \/ Allowed(Next1.player) /\ online' = online \cup {Next1.player}
    /\ UNCHANGED <<gameState, dstate, dpc, mpc, loaded, m_isOpen, passed, late>>

\* Player::kickPlayer over the list, in closeServer.
KickUnflagged == online \cap Always

\* Commands::closeServer; the command of a player who has left does nothing.
CloseServer ==
    /\ Running("close")
    /\ tasks' = Tail(tasks)
    /\ IF Next1.player \in online
       THEN gameState' = AfterSet("CLOSED") /\ online' = KickUnflagged
       ELSE UNCHANGED <<gameState, online>>
    /\ UNCHANGED <<dstate, dpc, mpc, loaded, m_isOpen, passed, late>>

OpenServer ==
    /\ Running("open")
    /\ tasks' = Tail(tasks)
    /\ gameState' = IF Next1.player \in online THEN AfterSet("NORMAL") ELSE gameState
    /\ UNCHANGED <<online, dstate, dpc, mpc, loaded, m_isOpen, passed, late>>

\* doSetGameState of a script.
SetGameState ==
    /\ \E s \in Settable \ {"SHUTDOWN"} : Running(s) /\ gameState' = AfterSet(s)
    /\ tasks' = Tail(tasks)
    /\ UNCHANGED <<online, dstate, dpc, mpc, loaded, m_isOpen, passed, late>>

ShutdownAgain ==
    /\ Running("SHUTDOWN")
    /\ gameState = "SHUTDOWN"
    /\ tasks' = Tail(tasks)
    /\ UNCHANGED <<gameState, online, dstate, dpc, mpc, loaded, m_isOpen, passed, late>>

\* setGameState(SHUTDOWN): the kick loop empties the list.
KickAll ==
    /\ Running("SHUTDOWN")
    /\ gameState # "SHUTDOWN"
    /\ online' = {}
    /\ dpc' = "kicked"
    /\ UNCHANGED <<gameState, dstate, tasks, mpc, loaded, m_isOpen, passed, late>>

\* The task that will run Game::shutdown is queued (the running task leaves
\* the list here).
QueueShutdown ==
    /\ dpc = "kicked"
    /\ tasks' = Append(Tail(tasks), Task("shutdown"))
    /\ dpc' = "queued"
    /\ UNCHANGED <<gameState, online, dstate, mpc, loaded, m_isOpen, passed, late>>

\* mutant: the dispatcher keeps accepting.
StopNothing == dstate

\* Dispatcher::stop.
StopState == IF dstate = "RUNNING" THEN "CLOSING" ELSE dstate

StopThreads ==
    /\ dpc = "queued"
    /\ dstate' = StopState
    /\ dpc' = "stopped"
    /\ late' = {p \in Players : PlayerTask("login", p) \in Range(tasks)}
    /\ UNCHANGED <<gameState, online, tasks, mpc, loaded, m_isOpen, passed>>

\* The state changes last: until here the io thread still sees the old one.
StateShutdown ==
    /\ dpc = "stopped"
    /\ gameState' = "SHUTDOWN"
    /\ dpc' = "idle"
    /\ UNCHANGED <<online, dstate, tasks, mpc, loaded, m_isOpen, passed, late>>

\* Game::shutdown: Dispatcher::shutdown begins to flush, the lock held.
Shutdown ==
    /\ Running("shutdown")
    /\ tasks' = Tail(tasks)
    /\ dstate' = "TERMINATED"
    /\ dpc' = "flushing"
    /\ UNCHANGED <<gameState, online, mpc, loaded, m_isOpen, passed, late>>

\* Does the task, run in this state, add a task itself?  A kicked player's
\* connection is closed by a task; a refused login's too.
AddsATask(t) ==
    \/ t.kind = "login"
    \/ t.kind = "close" /\ t.player \in online /\ ~(online \subseteq Always)

\* One task of Dispatcher::flush.  A task that adds a task locks the mutex its
\* own thread holds.
FlushTask ==
    /\ dpc = "flushing"
    /\ tasks # <<>>
    /\ tasks' = Tail(tasks)
    /\ \/ /\ AddsATask(Next1)
          /\ dpc' = "blocked"
          /\ UNCHANGED online
       \/ /\ Next1.kind = "login"
          /\ online' = online \cup {Next1.player}
          /\ UNCHANGED dpc
       \/ /\ Next1.kind # "login"
          /\ ~AddsATask(Next1)
          /\ UNCHANGED <<online, dpc>>
    /\ UNCHANGED <<gameState, dstate, mpc, loaded, m_isOpen, passed, late>>

FlushEnd ==
    /\ dpc = "flushing"
    /\ tasks = <<>>
    /\ dpc' = "clean"
    /\ UNCHANGED <<gameState, online, dstate, tasks, mpc, loaded, m_isOpen, passed, late>>

\* mutant: the acceptor is left open.
OpenAfterStop == m_isOpen

\* Server::stop through g_server, which is NULL until the Server exists.
OpenAfterShutdown == m_isOpen /\ mpc # "serving"

StopServer ==
    /\ dpc = "clean"
    /\ m_isOpen' = OpenAfterShutdown
    /\ dpc' = "exited"
    /\ UNCHANGED <<gameState, online, dstate, tasks, mpc, loaded, passed, late>>

-----------------------------------------------------------------------------
MainNext == Start \/ Wait \/ SpuriousWakeup \/ Serve

IONext ==
    \/ \E p \in Players : ParseFirstPacket(p)
    \/ QueueLogin
    \/ \E k \in {"close", "open"}, p \in Players : Command(k, p)

LoaderNext == LoadStart \/ LoadWorld \/ LoadDone \/ NotifyLoaded

DispatcherNext ==
    \/ LoaderNext
    \/ LoginTask \/ CloseServer \/ OpenServer \/ SetGameState \/ ShutdownAgain
    \/ KickAll \/ QueueShutdown \/ StopThreads \/ StateShutdown
    \/ Shutdown \/ FlushTask \/ FlushEnd \/ StopServer

Next ==
    \/ MainNext
    \/ IONext
    \/ \E k \in Settable : ScriptDue(k)
    \/ DispatcherNext

Spec == Init /\ [][Next]_vars

\* The two threads run; no packet and no script need ever come.
FairSpec == Spec /\ WF_vars(DispatcherNext) /\ WF_vars(Start \/ Wait \/ Serve)

-----------------------------------------------------------------------------
(* Properties.                                                             *)

\* Nobody is in the world before mainLoader has loaded it, although the state
\* is NORMAL before the loader runs and main may wake without being notified:
\* the login waits in the list behind the loader's task.
NobodyEntersBeforeLoaded == online # {} => loaded

\* While the server is closing or closed only players with CanAlwaysLogin
\* enter, a login queued while it was open included (protocolgame.cpp).
OnlyFlaggedEnterClosed ==
    [][(gameState \in {"CLOSING", "CLOSED"}) => (online' \ online) \subseteq Always]_vars

\* After the shutdown only players whose login was queued when the task that
\* shut the game down ended can be online: nobody's first packet that was let
\* through before comes in later.
OnlyLateLoginsOnline == gameState = "SHUTDOWN" => online \subseteq late

\* Who is online has a right to be, whatever became of the game's state between
\* the test of the first packet and the login task.
OnlineIsJustified ==
    []TypeOK /\ []NobodyEntersBeforeLoaded /\ []OnlyLateLoginsOnline /\ OnlyFlaggedEnterClosed

\* A shutdown of a serving process whose list ends with the shutdown task runs
\* to the end: the dispatcher terminates and the acceptor is closed.
ShutdownCompletes ==
    (/\ dpc = "stopped"
     /\ mpc = "serving"
     /\ Last(tasks) = Task("shutdown")) ~> (dpc = "exited" /\ ~m_isOpen)
=============================================================================
