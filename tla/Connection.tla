----------------------------- MODULE Connection -----------------------------
(***************************************************************************)
(* One client connection: font/connection.cpp, the Protocol object on it   *)
(* (protocol.cpp, the parts of protocolgame.cpp, protocollogin.cpp and     *)
(* status.cpp that create, close and release it) and its messages in the   *)
(* OutputMessagePool (outputmessage.cpp).                                  *)
(*                                                                         *)
(* Two threads use these objects.  The io thread runs the completion       *)
(* handlers of the socket, one at a time; the dispatcher thread runs tasks *)
(* and, after each, sendAll.  A handler holds m_connectionLock to its end, *)
(* sendAll holds m_outputPoolLock to its end; everything under these locks *)
(* that waits for nothing is one step.  The objects are plain pointers, so *)
(* who may still use one when it is deleted is what the module is about.   *)
(***************************************************************************)
EXTENDS Naturals, Sequences, FiniteSets, SequencesExt

CONSTANTS
    Msgs,       \* the OutputMessages available to this connection
    NoMsg,      \* the empty OutputMessage_ptr
    Packets     \* the kinds of packet the client sends, of PacketKind

\* "unknown" is a game packet with a header parsePacket does not know.
PacketKind == {"badProtocol", "request", "enterGame", "game", "unknown"}

ASSUME ConstantsAssumption ==
    /\ NoMsg \notin Msgs
    /\ IsFiniteSet(Msgs)
    /\ Packets \subseteq PacketKind

VARIABLES
    conn,           \* the Connection: "new", "live" or "deleted"
    m_closeState,   \* Connection::m_closeState
    m_socketClosed, \* Connection::m_socketClosed
    m_writeError,   \* Connection::m_writeError
    m_pendingRead,  \* Connection::m_pendingRead
    m_pendingWrite, \* Connection::m_pendingWrite
    readOp,         \* the async_read in flight: "none", "header" or "body"
    wire,           \* the messages of the async_writes in flight
    connRef,        \* Connection::m_refCount
    m_protocol,     \* whether Connection::m_protocol is set
    proto,          \* the Protocol: "none", "live" or "deleted"
    protoConn,      \* whether Protocol::m_connection is set
    protoRef,       \* Protocol::m_refCount
    client,         \* whether the client pointer of a Player in the game is it
    buffer,         \* Protocol::m_outputBuffer
    mstate,         \* OutputMessage::m_state
    fresh,          \* messages younger than 10 ms
    auto,           \* m_autoSendOutputMessages
    toAdd,          \* m_toAddQueue
    tasks,          \* the dispatcher's queue, as far as it concerns them
    timers,         \* how many scheduler events of each kind are booked
    accepting,      \* dispatcher and scheduler are RUNNING
    dpc,            \* where the dispatcher thread stands
    next,           \* the position of sendAll's iterator in auto
    iopc,           \* io thread: "idle", or where it stands in a handler
    ioMsg           \* the message the returning write handler still holds

sockVars == <<m_socketClosed, m_writeError, m_pendingRead, m_pendingWrite,
              readOp, wire>>
protoVars == <<proto, protoConn, client>>
poolVars == <<mstate, fresh, auto, toAdd>>
refVars == <<connRef, protoRef>>
dispVars == <<dpc, next>>
ioVars == <<iopc, ioMsg>>

vars == <<conn, m_closeState, sockVars, m_protocol, protoVars, buffer, poolVars,
          refVars, tasks, timers, accepting, dispVars, ioVars>>

Location == {"idle", "reply", "kick", "returning"}

TimerKind == {"releaseProtocol", "releaseConnection", "connect"}

TaskKind == TimerKind \cup {"close", "login", "releaseMessage", "game"}

Tasks == [kind : TaskKind, msg : Msgs \cup {NoMsg}]

TypeOK ==
    /\ conn \in {"new", "live", "deleted"}
    /\ m_closeState \in {"NONE", "REQUESTED", "CLOSING"}
    /\ m_socketClosed \in BOOLEAN
    /\ m_writeError \in BOOLEAN
    /\ m_pendingRead = IF readOp = "none" THEN 0 ELSE 1
    /\ m_pendingWrite = Cardinality(wire)
    /\ readOp \in {"none", "header", "body"}
    /\ wire \subseteq Msgs
    /\ connRef \in Nat
    /\ m_protocol \in BOOLEAN
    /\ proto \in {"none", "live", "deleted"}
    /\ protoConn \in BOOLEAN
    /\ protoRef \in Nat
    /\ client \in BOOLEAN
    /\ buffer \in Msgs \cup {NoMsg}
    /\ mstate \in [Msgs -> {"FREE", "ALLOCATED", "ALLOCATED_NO_AUTOSEND"}]
    /\ fresh \subseteq Msgs
    /\ auto \in Seq(Msgs)
    /\ toAdd \in Seq(Msgs)
    /\ tasks \in Seq(Tasks)
    /\ Cardinality({i \in DOMAIN tasks : tasks[i].kind = "close"}) <= 1
    /\ (\E i \in DOMAIN tasks : tasks[i].kind = "close") => m_closeState = "REQUESTED"
    /\ timers \in [TimerKind -> Nat]
    /\ accepting \in BOOLEAN
    /\ dpc \in {"idle", "taskDone", "moving", "sendAll"}
    /\ next \in Nat
    /\ iopc \in Location
    /\ ioMsg \in Msgs \cup {NoMsg}

Init ==
    /\ conn = "new"
    /\ m_closeState = "NONE"
    /\ m_socketClosed = FALSE
    /\ m_writeError = FALSE
    /\ m_pendingRead = 0
    /\ m_pendingWrite = 0
    /\ readOp = "none"
    /\ wire = {}
    /\ connRef = 0
    /\ m_protocol = FALSE
    /\ proto = "none"
    /\ protoConn = FALSE
    /\ protoRef = 0
    /\ client = FALSE
    /\ buffer = NoMsg
    /\ mstate = [m \in Msgs |-> "FREE"]
    /\ fresh = {}
    /\ auto = <<>>
    /\ toAdd = <<>>
    /\ tasks = <<>>
    /\ timers = [k \in TimerKind |-> 0]
    /\ accepting = TRUE
    /\ dpc = "idle"
    /\ next = 1
    /\ iopc = "idle"
    /\ ioMsg = NoMsg

-----------------------------------------------------------------------------
(* Locks, the dispatcher's queue, and the pool.                            *)

\* A handler that waits for m_outputPoolLock keeps m_connectionLock.
ConnLocked == iopc \in {"reply", "kick"}

PoolLocked == dpc \in {"moving", "sendAll"}

Task(k) == [kind |-> k, msg |-> NoMsg]

AddedFront(q, k) ==             \* mutant: push_front for every task
    IF accepting THEN <<Task(k)>> \o q ELSE q

\* Dispatcher::addTask.
Added(q, k) == IF accepting THEN Append(q, Task(k)) ELSE q

\* releaseMessage: the last OutputMessage_ptr is gone.
Released(q, m) ==
    IF accepting THEN <<[kind |-> "releaseMessage", msg |-> m]>> \o q ELSE q

Held(m) == m = buffer \/ Contains(auto, m) \/ Contains(toAdd, m)

NoEventAdded(k) == UNCHANGED timers     \* mutant: tried once, not again

AddEvent(k) ==
    timers' = IF accepting THEN [timers EXCEPT ![k] = @ + 1] ELSE timers

\* getOutputMessage and configureOutputMessage; refs is the protocol's count of
\* references before.
Configure(m, autosend, refs) ==
    /\ mstate[m] = "FREE"
    /\ mstate' = [mstate EXCEPT ![m] = IF autosend THEN "ALLOCATED"
                                                   ELSE "ALLOCATED_NO_AUTOSEND"]
    /\ fresh' = fresh \cup {m}
    /\ connRef' = connRef + 1
    /\ protoRef' = refs + 1

KeptBuffer(m) == buffer         \* mutant: the message sent is still filled

\* onSendMessage forgets the message it is called for.  (The one protocol with
\* m_rawMessages, ProtocolStatus, has no m_outputBuffer.)
OnSendMessage(m) == IF buffer = m THEN NoMsg ELSE buffer

Refuses == m_closeState = "CLOSING" \/ m_writeError

SendsNow == m_pendingWrite = 0

\* Connection::send, and onSendMessage by its caller when it refuses.
Send(m) ==
    \/ /\ Refuses
       /\ buffer' = OnSendMessage(m)
       /\ UNCHANGED <<wire, m_pendingWrite, toAdd>>
    \/ /\ ~Refuses
       /\ SendsNow
       /\ buffer' = OnSendMessage(m)
       /\ wire' = wire \cup {m}
       /\ m_pendingWrite' = m_pendingWrite + 1
       /\ UNCHANGED toAdd
    \/ /\ ~Refuses
       /\ ~SendsNow
       /\ toAdd' = Append(toAdd, m)
       /\ UNCHANGED <<buffer, wire, m_pendingWrite>>

NotReleased(q, m) == q          \* mutant: a refused message is lost

\* The queue after Send(m), when the sender held the only other copy.
AfterSend(q, m) == IF Refuses THEN Released(q, m) ELSE q

\* Protocol::getOutputBuffer.
WriteToBuffer(refs) ==
    \/ /\ buffer = NoMsg
       /\ protoConn
       /\ \E m \in Msgs :
             /\ Configure(m, TRUE, refs)
             /\ auto' = Append(auto, m)
             /\ buffer' = m
    \/ /\ buffer # NoMsg \/ ~protoConn
       /\ protoRef' = refs
       /\ UNCHANGED <<buffer, mstate, fresh, auto, connRef>>

-----------------------------------------------------------------------------
(* Closing.                                                                *)

\* closeConnection, any thread.
CloseConnection(q) ==
    \/ /\ m_closeState = "NONE"
       /\ m_closeState' = "REQUESTED"
       /\ tasks' = Added(q, "close")
    \/ /\ m_closeState # "NONE"
       /\ tasks' = q
       /\ UNCHANGED m_closeState

ReleasesEarly(read, write, werr) ==     \* mutant: reads are not waited for
    write = 0 \/ werr

\* The last operation on the socket is over.
Releases(read, write, werr) == (write = 0 \/ werr) /\ read = 0

\* closingConnection, with the counters of the moment.
ClosingConnection(read, write, werr, q) ==
    /\ m_socketClosed' = (m_socketClosed \/ write = 0 \/ werr)
    /\ tasks' = IF Releases(read, write, werr) THEN Added(q, "releaseConnection")
                                               ELSE q

-----------------------------------------------------------------------------
(* The io thread: Server::onAccept and the completion handlers.            *)

Read(op) == readOp' = op /\ m_pendingRead' = IF op = "none" THEN 0 ELSE 1

Accept ==
    /\ conn = "new"
    /\ conn' = "live"
    /\ Read("header")
    /\ UNCHANGED <<m_closeState, m_socketClosed, m_writeError, m_pendingWrite,
                   wire, m_protocol, protoVars, buffer, poolVars, refVars,
                   tasks, timers, accepting, dispVars, ioVars>>

\* A handler finds the connection closing, or the read failed.
ReadEnds ==
    /\ iopc = "idle"
    /\ readOp # "none"
    /\ Read("none")
    /\ \/ /\ m_closeState = "CLOSING"
          /\ ClosingConnection(0, m_pendingWrite, m_writeError, tasks)
          /\ UNCHANGED m_closeState
       \/ /\ m_closeState # "CLOSING"       \* handleReadError
          /\ CloseConnection(tasks)
          /\ UNCHANGED m_socketClosed
    /\ UNCHANGED <<conn, m_writeError, m_pendingWrite, wire, m_protocol,
                   protoVars, buffer, poolVars, refVars, timers, accepting,
                   dispVars, ioVars>>

ParseHeader ==
    /\ iopc = "idle"
    /\ readOp = "header"
    /\ m_closeState # "CLOSING"
    /\ Read("body")
    /\ UNCHANGED <<conn, m_closeState, m_socketClosed, m_writeError,
                   m_pendingWrite, wire, m_protocol, protoVars, buffer, poolVars,
                   refVars, tasks, timers, accepting, dispVars, ioVars>>

CanParse(kind) ==
    /\ iopc = "idle"
    /\ readOp = "body"
    /\ m_closeState # "CLOSING"
    /\ kind \in Packets

\* parsePacket, a first packet for no protocol: no further read is started.
ParseBadProtocol ==
    /\ CanParse("badProtocol")
    /\ ~m_protocol
    /\ Read("none")
    /\ CloseConnection(tasks)
    /\ UNCHANGED <<conn, m_socketClosed, m_writeError, m_pendingWrite, wire,
                   m_protocol, protoVars, buffer, poolVars, refVars, timers,
                   accepting, dispVars, ioVars>>

\* parsePacket, the first packet of a protocol: login and status requests are
\* answered or cut off at once, a game login may be handed to the dispatcher.
ParseFirst(kind) ==
    /\ CanParse(kind)
    /\ kind \in {"request", "enterGame"}
    /\ ~m_protocol
    /\ m_protocol' = TRUE
    /\ proto' = "live"
    /\ protoConn' = TRUE
    /\ \/ /\ iopc' = "reply"        \* will answer and close
          /\ UNCHANGED <<readOp, m_pendingRead, m_closeState, tasks>>
       \/ /\ CloseConnection(tasks)
          /\ Read("header")
          /\ UNCHANGED iopc
       \/ /\ kind = "enterGame"
          /\ tasks' = Added(tasks, "login")
          /\ Read("header")
          /\ UNCHANGED <<iopc, m_closeState>>
    /\ UNCHANGED <<conn, m_socketClosed, m_writeError, m_pendingWrite, wire,
                   client, buffer, poolVars, refVars, timers, accepting,
                   dispVars, ioMsg>>

\* disconnectClient on the io thread, or the character list.
Reply ==
    /\ iopc = "reply"
    /\ ~PoolLocked
    /\ \E m \in Msgs :
          /\ Configure(m, FALSE, protoRef)
          /\ Send(m)
          /\ CloseConnection(AfterSend(tasks, m))
    /\ Read("header")
    /\ iopc' = "idle"
    /\ UNCHANGED <<conn, m_socketClosed, m_writeError, m_protocol, protoVars,
                   auto, timers, accepting, dispVars, ioMsg>>

ParseGameReplies ==             \* mutant: answered on the io thread
    /\ CanParse("game")
    /\ m_protocol
    /\ iopc' = "reply"
    /\ UNCHANGED <<conn, m_closeState, sockVars, m_protocol, protoVars, buffer,
                   poolVars, refVars, tasks, timers, accepting, dispVars, ioMsg>>

\* parsePacket, a later packet: its effects are tasks of the game.
ParseGame ==
    /\ CanParse("game")
    /\ m_protocol
    /\ Read("header")
    /\ UNCHANGED <<conn, m_closeState, m_socketClosed, m_writeError,
                   m_pendingWrite, wire, m_protocol, protoVars, buffer, poolVars,
                   refVars, tasks, timers, accepting, dispVars, ioVars>>

\* A header parsePacket does not know: kickPlayer, on the io thread.
ParseUnknown ==
    /\ CanParse("unknown")
    /\ m_protocol
    /\ client
    /\ iopc' = "kick"
    /\ UNCHANGED <<conn, m_closeState, sockVars, m_protocol, protoVars, buffer,
                   poolVars, refVars, tasks, timers, accepting, dispVars, ioMsg>>

\* logout and removeCreature: spectators' protocols may need a message, hence
\* the lock of the pool.
Kick ==
    /\ iopc = "kick"
    /\ ~PoolLocked
    /\ WriteToBuffer(protoRef)
    /\ CloseConnection(tasks)
    /\ Read("header")
    /\ iopc' = "idle"
    /\ UNCHANGED <<conn, m_socketClosed, m_writeError, m_pendingWrite, wire,
                   m_protocol, protoVars, toAdd, timers, accepting, dispVars,
                   ioMsg>>

\* onWriteOperation.  The handler's own copy of the message outlives the
\* section.
OnWriteOperation(m, error) ==
    /\ iopc = "idle"
    /\ m \in wire
    /\ wire' = wire \ {m}
    /\ m_pendingWrite' = m_pendingWrite - 1
    /\ m_writeError' = (m_writeError \/ error)
    /\ iopc' = "returning"
    /\ ioMsg' = m
    /\ \/ /\ m_closeState = "CLOSING"
          /\ ClosingConnection(m_pendingRead, m_pendingWrite', m_writeError', tasks)
          /\ UNCHANGED m_closeState
       \/ /\ m_closeState # "CLOSING"
          /\ \/ error /\ CloseConnection(tasks)
             \/ ~error /\ UNCHANGED <<m_closeState, tasks>>
          /\ UNCHANGED m_socketClosed
    /\ UNCHANGED <<conn, m_pendingRead, readOp, m_protocol, protoVars, buffer,
                   poolVars, refVars, timers, accepting, dispVars>>

HandlerReturns ==
    /\ iopc = "returning"
    /\ iopc' = "idle"
    /\ ioMsg' = NoMsg
    /\ tasks' = IF Held(ioMsg) THEN tasks ELSE Released(tasks, ioMsg)
    /\ UNCHANGED <<conn, m_closeState, sockVars, m_protocol, protoVars, buffer,
                   poolVars, refVars, timers, accepting, dispVars>>

-----------------------------------------------------------------------------
(* The dispatcher thread: the tasks of the connection and its protocol.    *)

RunTask(kind) ==
    /\ dpc = "idle"
    /\ tasks # <<>>
    /\ Head(tasks).kind = kind
    /\ dpc' = "taskDone"
    /\ UNCHANGED <<next, ioVars, accepting>>

\* closeConnectionTask.  Its error branch, for a state other than REQUESTED, is
\* never reached (TypeOK).
CloseConnectionTask ==
    /\ RunTask("close")
    /\ ~ConnLocked
    /\ m_closeState = "REQUESTED"
    /\ m_closeState' = "CLOSING"
    /\ protoConn' = (protoConn /\ ~m_protocol)
    /\ m_protocol' = FALSE
    /\ ClosingConnection(m_pendingRead, m_pendingWrite, m_writeError,
                         IF m_protocol THEN Added(Tail(tasks), "releaseProtocol")
                                       ELSE Tail(tasks))
    /\ UNCHANGED <<conn, m_writeError, m_pendingRead, m_pendingWrite, readOp,
                   wire, proto, client, buffer, poolVars, refVars, timers>>

ConnUnused == connRef = 0

\* Connection::releaseConnection.
ReleaseConnection ==
    /\ RunTask("releaseConnection")
    /\ tasks' = Tail(tasks)
    /\ \/ /\ ~ConnUnused
          /\ AddEvent("releaseConnection")
          /\ UNCHANGED conn
       \/ /\ ConnUnused
          /\ conn' = "deleted"
          /\ UNCHANGED timers
    /\ UNCHANGED <<m_closeState, sockVars, m_protocol, protoVars, buffer,
                   poolVars, refVars>>

StillClient == client           \* mutant: the player keeps its client pointer

NoClient == FALSE

ProtocolUnused == protoRef = 0

\* ProtocolGame::releaseProtocol, Protocol::deleteProtocolTask.
ReleaseProtocol ==
    /\ RunTask("releaseProtocol")
    /\ tasks' = Tail(tasks)
    /\ client' = NoClient
    /\ \/ /\ ~ProtocolUnused
          /\ AddEvent("releaseProtocol")
          /\ UNCHANGED <<proto, protoConn, buffer>>
       \/ /\ ProtocolUnused
          /\ proto' = "deleted"
          /\ protoConn' = FALSE
          /\ buffer' = NoMsg
          /\ UNCHANGED timers
    /\ UNCHANGED <<conn, m_closeState, sockVars, m_protocol, poolVars, refVars>>

\* OutputMessagePool::internalReleaseMessage.
InternalReleaseMessage ==
    /\ RunTask("releaseMessage")
    /\ protoRef' = protoRef - 1
    /\ connRef' = connRef - 1
    /\ mstate' = [mstate EXCEPT ![Head(tasks).msg] = "FREE"]
    /\ fresh' = fresh \ {Head(tasks).msg}
    /\ tasks' = Tail(tasks)
    /\ UNCHANGED <<conn, m_closeState, sockVars, m_protocol, protoVars, buffer,
                   auto, toAdd, timers>>

\* disconnectClient on the dispatcher thread; the answer is left out when the
\* protocol has lost its connection.
DisconnectClient(refs) ==
    \/ /\ protoConn
       /\ ~ConnLocked
       /\ \E m \in Msgs :
             /\ Configure(m, FALSE, refs)
             /\ Send(m)
             /\ CloseConnection(AfterSend(Tail(tasks), m))
    \/ /\ ~protoConn
       /\ protoRef' = refs
       /\ tasks' = Tail(tasks)
       /\ UNCHANGED <<m_closeState, buffer, mstate, fresh, connRef, wire,
                      m_pendingWrite, toAdd>>

\* The protocol becomes the client of a Player and describes the world to it.
EnterGame(refs) ==
    /\ client' = TRUE
    /\ WriteToBuffer(refs)
    /\ tasks' = Tail(tasks)
    /\ UNCHANGED <<m_closeState, wire, m_pendingWrite, toAdd>>

\* ProtocolGame::login: refused, in the game, or waiting for the client of the
\* player to go away, with a reference for the event.
Login ==
    /\ RunTask("login")
    /\ \/ /\ DisconnectClient(protoRef)
          /\ UNCHANGED <<client, auto, timers>>
       \/ /\ EnterGame(protoRef)
          /\ UNCHANGED timers
       \/ /\ AddEvent("connect")
          /\ protoRef' = protoRef + 1
          /\ tasks' = Tail(tasks)
          /\ UNCHANGED <<client, buffer, m_closeState, m_pendingWrite, wire,
                         poolVars, connRef>>
    /\ UNCHANGED <<conn, m_socketClosed, m_writeError, m_pendingRead, readOp,
                   m_protocol, proto, protoConn>>

KeptRefs == protoRef            \* mutant: connect does not unRef

ConnectRefs == protoRef - 1

\* ProtocolGame::connect.
Connect ==
    /\ RunTask("connect")
    /\ \/ /\ DisconnectClient(ConnectRefs)
          /\ UNCHANGED <<client, auto>>
       \/ EnterGame(ConnectRefs)
    /\ UNCHANGED <<conn, m_socketClosed, m_writeError, m_pendingRead, readOp,
                   m_protocol, proto, protoConn, timers>>

-----------------------------------------------------------------------------
(* The dispatcher thread: the tasks of the game, and sendAll.              *)

\* A packet, a timer or another player makes the game a task.  Bound: one such
\* task is queued at a time.
GameTask ==
    /\ accepting
    /\ \A i \in DOMAIN tasks : tasks[i].kind # "game"
    /\ tasks' = Added(tasks, "game")
    /\ UNCHANGED <<conn, m_closeState, sockVars, m_protocol, protoVars, buffer,
                   poolVars, refVars, timers, accepting, dispVars, ioVars>>

\* It writes to the player.
GameWrites ==
    /\ RunTask("game")
    /\ client
    /\ WriteToBuffer(protoRef)
    /\ tasks' = Tail(tasks)
    /\ UNCHANGED <<conn, m_closeState, sockVars, m_protocol, protoVars, toAdd,
                   timers>>

\* It disconnects the player: logout, kick, a second login.
GameCloses ==
    /\ RunTask("game")
    /\ client
    /\ protoConn
    /\ ~ConnLocked
    /\ CloseConnection(Tail(tasks))
    /\ UNCHANGED <<conn, sockVars, m_protocol, protoVars, buffer, poolVars,
                   refVars, timers>>

\* It has nothing to do with this connection.
GameElsewhere ==
    /\ RunTask("game")
    /\ tasks' = Tail(tasks)
    /\ UNCHANGED <<conn, m_closeState, sockVars, m_protocol, protoVars, buffer,
                   poolVars, refVars, timers>>

\* setGameState(GAME_STATE_SHUTDOWN): no task and no event is taken any more.
StopServer ==
    /\ dpc = "idle"
    /\ accepting
    /\ accepting' = FALSE
    /\ dpc' = "taskDone"
    /\ UNCHANGED <<conn, m_closeState, sockVars, m_protocol, protoVars, buffer,
                   poolVars, refVars, tasks, timers, next, ioVars>>

\* sendAll takes m_outputPoolLock and empties m_toAddQueue.
BeginSendAll ==
    /\ dpc = "taskDone"
    /\ dpc' = "moving"
    /\ UNCHANGED <<conn, m_closeState, sockVars, m_protocol, protoVars, buffer,
                   poolVars, refVars, tasks, timers, accepting, next, ioVars>>

MoveMessage ==
    /\ dpc = "moving"
    /\ toAdd # <<>>
    /\ mstate' = [mstate EXCEPT ![Head(toAdd)] = "ALLOCATED"]
    /\ auto' = Append(auto, Head(toAdd))
    /\ toAdd' = Tail(toAdd)
    /\ UNCHANGED <<conn, m_closeState, sockVars, m_protocol, protoVars, buffer,
                   fresh, refVars, tasks, timers, accepting, dispVars, ioVars>>

\* A message older than ten seconds is dropped.
DropMessage ==
    /\ dpc = "moving"
    /\ toAdd # <<>>
    /\ Head(toAdd) \notin fresh
    /\ buffer' = OnSendMessage(Head(toAdd))
    /\ tasks' = Released(tasks, Head(toAdd))
    /\ toAdd' = Tail(toAdd)
    /\ UNCHANGED <<conn, m_closeState, sockVars, m_protocol, protoVars, mstate,
                   fresh, auto, refVars, timers, accepting, dispVars, ioVars>>

BeginSending ==
    /\ dpc = "moving"
    /\ toAdd = <<>>
    /\ dpc' = "sendAll"
    /\ next' = 1
    /\ UNCHANGED <<conn, m_closeState, sockVars, m_protocol, protoVars, buffer,
                   poolVars, refVars, tasks, timers, accepting, ioVars>>

\* A message still young and short waits for more.
SkipMessage ==
    /\ dpc = "sendAll"
    /\ next <= Len(auto)
    /\ auto[next] \in fresh
    /\ next' = next + 1
    /\ UNCHANGED <<conn, m_closeState, sockVars, m_protocol, protoVars, buffer,
                   poolVars, refVars, tasks, timers, accepting, dpc, ioVars>>

\* An old message, or a young one above 1 kB, is sent.
SendMessage ==
    /\ dpc = "sendAll"
    /\ next <= Len(auto)
    /\ ~ConnLocked
    /\ Send(auto[next])
    /\ auto' = RemoveAt(auto, next)
    /\ tasks' = AfterSend(tasks, auto[next])
    /\ UNCHANGED <<conn, m_closeState, m_socketClosed, m_writeError,
                   m_pendingRead, readOp, m_protocol, protoVars, mstate, fresh,
                   refVars, timers, accepting, dispVars, ioVars>>

EndSendAll ==
    /\ dpc = "sendAll"
    /\ next > Len(auto)
    /\ dpc' = "idle"
    /\ UNCHANGED <<conn, m_closeState, sockVars, m_protocol, protoVars, buffer,
                   poolVars, refVars, tasks, timers, accepting, next, ioVars>>

-----------------------------------------------------------------------------
(* Time.                                                                   *)

\* A scheduler event becomes a task of the dispatcher.
Timer(k) ==
    /\ timers[k] > 0
    /\ timers' = [timers EXCEPT ![k] = @ - 1]
    /\ tasks' = Added(tasks, k)
    /\ UNCHANGED <<conn, m_closeState, sockVars, m_protocol, protoVars, buffer,
                   poolVars, refVars, accepting, dispVars, ioVars>>

Age(m) ==
    /\ m \in fresh
    /\ fresh' = fresh \ {m}
    /\ UNCHANGED <<conn, m_closeState, sockVars, m_protocol, protoVars, buffer,
                   mstate, auto, toAdd, refVars, tasks, timers, accepting,
                   dispVars, ioVars>>

-----------------------------------------------------------------------------

IoStep ==
    \/ ReadEnds
    \/ ParseHeader
    \/ ParseBadProtocol
    \/ \E kind \in Packets : ParseFirst(kind)
    \/ Reply
    \/ ParseGame
    \/ ParseUnknown
    \/ Kick
    \/ \E m \in Msgs, error \in BOOLEAN : OnWriteOperation(m, error)
    \/ HandlerReturns

TaskStep ==
    \/ CloseConnectionTask
    \/ ReleaseConnection
    \/ ReleaseProtocol
    \/ InternalReleaseMessage
    \/ Login
    \/ Connect
    \/ GameWrites
    \/ GameCloses
    \/ GameElsewhere

SendStep ==
    \/ BeginSendAll \/ MoveMessage \/ DropMessage
    \/ BeginSending \/ SkipMessage \/ SendMessage \/ EndSendAll

Next ==
    \/ Accept
    \/ IoStep
    \/ TaskStep
    \/ SendStep
    \/ GameTask
    \/ StopServer
    \/ \E k \in TimerKind : Timer(k)
    \/ \E m \in Msgs : Age(m)

Spec == Init /\ [][Next]_vars

DispatcherStep == TaskStep \/ SendStep

\* Both threads run; locks are handed over in the end (Reply waits for the pool
\* with sendAll coming again and again, hence strong fairness); an operation on
\* a closed socket is aborted; a write ends, by the peer or by TCP.  No client
\* has to send; the game's periodic tasks, booked by Game's constructor and
\* again by each run, never cease before the shutdown.
FairSpec ==
    /\ Spec
    /\ WF_vars(DispatcherStep)
    /\ WF_vars(HandlerReturns)
    /\ SF_vars(Reply)
    /\ SF_vars(m_socketClosed /\ ReadEnds)
    /\ SF_vars(\E m \in Msgs, error \in BOOLEAN : OnWriteOperation(m, error))
    /\ WF_vars(GameTask)
    /\ \A k \in TimerKind : WF_vars(Timer(k))
    /\ \A m \in Msgs : WF_vars(Age(m))

-----------------------------------------------------------------------------
(* Properties.                                                             *)

Queued(k) == \E i \in DOMAIN tasks : tasks[i].kind = k

Pending(k) ==
    Cardinality({i \in DOMAIN tasks : tasks[i].kind = k}) + timers[k]

Allocated == {m \in Msgs : mstate[m] # "FREE"}

\* Once a Connection is deleted nothing points at it: no operation of the io
\* thread is left, no task or event is bound to it, no message and no protocol
\* refers to it.  And it is never released twice.
ConnectionOutlivesUse ==
    /\ Pending("releaseConnection") <= 1
    /\ conn = "deleted" =>
          /\ m_pendingRead = 0 /\ wire = {} /\ ~ConnLocked
          /\ ~Queued("close") /\ Pending("releaseConnection") = 0
          /\ Allocated = {}
          /\ ~protoConn

\* The same for a Protocol: the login task, the connect event, the messages,
\* its connection and its player reach it as long as they exist.
ProtocolOutlivesUse ==
    /\ Pending("releaseProtocol") <= 1
    /\ proto = "deleted" =>
          /\ ~Queued("login")
          /\ Pending("connect") + Pending("releaseProtocol") = 0
          /\ Allocated = {}
          /\ ~m_protocol
          /\ ~client

\* login uses getConnection() without a test for NULL.
LoginHasConnection ==
    Queued("login") => protoConn

\* The references are those of the messages in use and of a pending connect.
ReferencesCounted ==
    /\ connRef = Cardinality(Allocated)
    /\ accepting => protoRef = Cardinality(Allocated) + Pending("connect")

\* No Connection and no Protocol is used after its delete, the login task finds
\* the connection it uses untested, and no reference is lost or counted twice.
ObjectsOutliveUse ==
    /\ TypeOK
    /\ ConnectionOutlivesUse /\ ProtocolOutlivesUse /\ LoginHasConnection
    /\ ReferencesCounted

\* A message on the wire is not filled any more, and the socket has one write
\* at a time, whoever sends.
WireIsPrivate ==
    /\ Cardinality(wire) <= 1
    /\ \A m \in wire : ~Held(m)

\* m_toAddQueue is used without m_outputPoolLock in Connection::send: only the
\* dispatcher thread ever gets there.
ToAddQueueConfined == IoStep => toAdd' = toAdd

\* Nobody touches a buffer or a queue another thread is using: neither the bytes
\* of a message being written nor m_toAddQueue.
BuffersPrivate == [][WireIsPrivate' /\ ToAddQueueConfined]_vars

\* No thread holds a lock the other waits for while it waits for the other's.
NoLockCycle ==
    ~ /\ iopc \in {"reply", "kick"}
      /\ dpc = "sendAll"
      /\ next <= Len(auto)
      /\ auto[next] \notin fresh

\* logout is written for the dispatcher thread.
LogoutOnDispatcher ==
    iopc # "kick"

\* A connection asked to close is deleted in the end, its protocol as well,
\* unless the server stops taking tasks first.
ClosedIsDeleted ==
    m_closeState = "REQUESTED" ~>
        (~accepting \/ (conn = "deleted" /\ proto # "live"))

\* A message taken from the pool comes back to it.
MessagesRecycled ==
    \A m \in Msgs : mstate[m] # "FREE" ~> (~accepting \/ mstate[m] = "FREE")

\* Nothing the connection used is kept for ever: not the connection, not its
\* protocol, not a message (releaseConnection, releaseProtocol, releaseMessage).
Reclaimed == ClosedIsDeleted /\ MessagesRecycled
=============================================================================
