------------------------------- MODULE Server -------------------------------
(***************************************************************************)
(* The life of sockets in one server (src/server.go): the handshake, the   *)
(* registry with its limit per tenant and its close reasons, the reading   *)
(* goroutine of a socket, its writing goroutine with the bounded queue in  *)
(* front of it, and the three ways somebody else ends a socket: a Send     *)
(* that finds the queue full, Server.Terminate and Server.Close. The       *)
(* observer is the counter of src/counter.go.                              *)
(*                                                                         *)
(* An action is one critical section of Server.mu, one operation on a Go   *)
(* channel, one read or write of the connection, or one observer call.     *)
(* What the frames say is left out: the queue is how many are waiting.     *)
(***************************************************************************)
EXTENDS Integers, FiniteSets

CONSTANTS
    Sockets,         \* sockets that can exist at one time
    Tenants,
    TenantOf,        \* the tenant of each socket's Grant
    Subjects,
    SubjectOf,       \* the subject of each socket's Grant
    Callers,         \* goroutines that may be inside Send at one time
    MaxConnections,  \* registered sockets per tenant; 0 is no limit
    OutboundQueue,   \* the capacity of a sink's queue
    None

Reasons == {"client", "timeout", "terminated", "shutdown", "limit", "error"}

ASSUME ServerAssumption ==
    /\ IsFiniteSet(Sockets)
    /\ TenantOf \in [Sockets -> Tenants]
    /\ SubjectOf \in [Sockets -> Subjects]
    /\ MaxConnections \in Nat
    /\ OutboundQueue \in Nat \ {0}
    /\ None \notin Reasons
    /\ None \notin Sockets

VARIABLES
    closed,        \* Server.closed
    conns,         \* Server.conns
    perTenant,     \* Server.perTenant; an absent entry is 0
    closeReasons,  \* Server.closeReasons; an absent entry is None
    doomed,        \* sockets a Terminate or a Close has yet to terminate
    connections,   \* Counter's connections per tenant
    reader,        \* where the reading goroutine is
    reason,        \* read's reason, and after unregister the one that is reported
    known,         \* what a read error said of the end; "answer": to the server's close
    writer,        \* where the writing goroutine is
    queue,         \* frames waiting in sink.out
    flushed,       \* flush's i
    done,          \* sink.done is closed
    wire,          \* the connection: "up", "lost" by the peer, or "shut" by this process
    call           \* the Send each caller is in, and how far

serverVars == <<closed, conns, perTenant, closeReasons, doomed, connections>>

readerVars == <<reader, reason, known>>

writerVars == <<writer, queue, flushed>>

VARIABLES
    owed,    \* frames queued when the socket closed and not yet written
    unsaid,  \* the socket is over the limit and no frame of it reached the client
    left,    \* the client or the network ended the socket, unprompted
    behind   \* a Send found the queue full, and ends the socket as an error

ghosts == <<owed, unsaid, left, behind>>

vars == <<serverVars, readerVars, writerVars, done, wire, call, ghosts>>

ReaderStages == {"absent", "upgrading", "registering", "full", "refused", "closed",
                 "ending", "registered", "opening", "reading", "recording",
                 "unregistering", "announcing", "parting"}

WriterStages == {"none", "select", "failing", "failed", "flushing", "bye"}

CallStages == {"out", "offering", "full", "failed"}

Read(s, stage) == reader' = [reader EXCEPT ![s] = stage]

Write(s, stage) == writer' = [writer EXCEPT ![s] = stage]

Idle == [at |-> "out", to |-> None]

-----------------------------------------------------------------------------
Init ==
    /\ closed = FALSE
    /\ conns = {}
    /\ perTenant = [t \in Tenants |-> 0]
    /\ closeReasons = [s \in Sockets |-> None]
    /\ doomed = {}
    /\ connections = [t \in Tenants |-> 0]
    /\ reader = [s \in Sockets |-> "absent"]
    /\ reason = [s \in Sockets |-> "client"]
    /\ known = [s \in Sockets |-> None]
    /\ writer = [s \in Sockets |-> "none"]
    /\ queue = [s \in Sockets |-> 0]
    /\ flushed = [s \in Sockets |-> 0]
    /\ done = [s \in Sockets |-> FALSE]
    /\ wire = [s \in Sockets |-> "shut"]
    /\ call = [c \in Callers |-> Idle]
    /\ owed = [s \in Sockets |-> 0]
    /\ unsaid = [s \in Sockets |-> FALSE]
    /\ left = [s \in Sockets |-> FALSE]
    /\ behind = [s \in Sockets |-> FALSE]

-----------------------------------------------------------------------------
(* The sink                                                                *)

\* sink.close: the done channel is closed once.
CloseSink(s) ==
    /\ done' = [done EXCEPT ![s] = TRUE]
    /\ owed' = [owed EXCEPT ![s] = IF done[s] THEN @ ELSE queue[s]]

\* Mutant: the registry is not asked.
RecordCloseReasonAnyway(s, why) ==
    closeReasons' = [closeReasons EXCEPT ![s] = IF @ = None THEN why ELSE @]

\* Server.recordCloseReason: the first reason stands, of a registered socket only.
RecordCloseReason(s, why) ==
    closeReasons' = [closeReasons EXCEPT ![s] =
                        IF s \in conns /\ @ = None THEN why ELSE @]

\* What one frame taken off the queue and written leaves behind.
WriteOne(s) ==
    /\ queue' = [queue EXCEPT ![s] = @ - 1]
    /\ owed' = [owed EXCEPT ![s] = IF @ > 0 THEN @ - 1 ELSE 0]
    /\ unsaid' = [unsaid EXCEPT ![s] = @ /\ wire[s] # "up"]

\* sink.write, a frame. A write onto a lost connection may still answer nil.
WriteFrame(s) ==
    /\ writer[s] = "select"
    /\ queue[s] > 0
    /\ wire[s] # "shut"
    /\ WriteOne(s)
    /\ UNCHANGED <<serverVars, readerVars, writer, flushed, done, wire, call, left, behind>>

\* sink.write, a frame or a ping that cannot be written.
WriteFails(s) ==
    /\ writer[s] = "select"
    /\ wire[s] # "up"
    /\ Write(s, "failing")
    /\ UNCHANGED <<serverVars, readerVars, queue, flushed, done, wire, call, ghosts>>

\* sink.fail of the writer, the reason first and the close after it.
FailRecords(s) ==
    /\ writer[s] = "failing"
    /\ RecordCloseReason(s, "error")
    /\ Write(s, "failed")
    /\ UNCHANGED <<closed, conns, perTenant, doomed, connections, readerVars, queue, flushed,
                   done, wire, call, ghosts>>

FailCloses(s) ==
    /\ writer[s] = "failed"
    /\ CloseSink(s)
    /\ Write(s, "none")
    /\ wire' = [wire EXCEPT ![s] = "shut"]
    /\ UNCHANGED <<serverVars, readerVars, queue, flushed, call, unsaid, left, behind>>

\* sink.write, the close: the flush begins.
SeesDone(s) ==
    /\ writer[s] = "select"
    /\ done[s]
    /\ Write(s, "flushing")
    /\ UNCHANGED <<serverVars, readerVars, queue, flushed, done, wire, call, ghosts>>

\* Mutant: the flush stops one frame early.
MayFlushShort(s) == flushed[s] + 1 < OutboundQueue /\ queue[s] > 0

\* Mutant: nothing is flushed.
MayFlushNothing(s) == FALSE

\* sink.flush goes on: never more frames than the queue holds.
MayFlush(s) == flushed[s] < OutboundQueue /\ queue[s] > 0

FlushOne(s) ==
    /\ writer[s] = "flushing"
    /\ MayFlush(s)
    /\ wire[s] # "shut"
    /\ WriteOne(s)
    /\ flushed' = [flushed EXCEPT ![s] = @ + 1]
    /\ UNCHANGED <<serverVars, readerVars, writer, done, wire, call, left, behind>>

\* sink.flush is over, its work done or at the first write that fails, and the
\* close frame is written.
SaysGoodbye(s) ==
    /\ writer[s] = "flushing"
    /\ ~MayFlush(s) \/ wire[s] # "up"
    /\ flushed' = [flushed EXCEPT ![s] = 0]
    /\ Write(s, "bye")
    /\ UNCHANGED <<serverVars, readerVars, queue, done, wire, call, ghosts>>

\* Mutant: the writer ends and leaves the connection open.
WriterEndsOnly(s) ==
    /\ writer[s] = "bye"
    /\ Write(s, "none")
    /\ UNCHANGED <<serverVars, readerVars, queue, flushed, done, wire, call, ghosts>>

\* The deferred Close of the connection.
WriterEnds(s) ==
    /\ writer[s] = "bye"
    /\ Write(s, "none")
    /\ wire' = [wire EXCEPT ![s] = "shut"]
    /\ UNCHANGED <<serverVars, readerVars, queue, flushed, done, call, ghosts>>

\* sink.Send asks first whether the socket is gone. A caller found the socket on
\* a channel, so its connection was opened; the reader may have ended since.
SendBegins(c, s) ==
    /\ call[c].at = "out"
    /\ reader[s] \in {"reading", "recording", "unregistering", "announcing", "parting"}
    /\ ~done[s]
    /\ call' = [call EXCEPT ![c] = [at |-> "offering", to |-> s]]
    /\ UNCHANGED <<serverVars, readerVars, writerVars, done, wire, ghosts>>

\* Send's second select: a closed socket or room in the queue, whichever the
\* select picks, and neither is a client that fell behind.
SendOffers(c) ==
    LET s == call[c].to IN
    /\ call[c].at = "offering"
    /\ \/ /\ queue[s] < OutboundQueue
          /\ queue' = [queue EXCEPT ![s] = @ + 1]
          /\ call' = [call EXCEPT ![c] = Idle]
       \/ /\ done[s]
          /\ call' = [call EXCEPT ![c] = Idle]
          /\ UNCHANGED queue
       \/ /\ queue[s] >= OutboundQueue
          /\ ~done[s]
          /\ call' = [call EXCEPT ![c].at = "full"]
          /\ UNCHANGED queue
    /\ UNCHANGED <<serverVars, readerVars, writer, flushed, done, wire, ghosts>>

\* Mutant: the reason is not recorded before the sink closes.
SendRecordsNothing(c) ==
    /\ call[c].at = "full"
    /\ behind' = [behind EXCEPT ![call[c].to] = TRUE]
    /\ call' = [call EXCEPT ![c].at = "failed"]
    /\ UNCHANGED <<serverVars, readerVars, writerVars, done, wire, owed, unsaid, left>>

\* sink.fail of a Send that found the queue full.
SendRecords(c) ==
    /\ call[c].at = "full"
    /\ RecordCloseReason(call[c].to, "error")
    /\ behind' = [behind EXCEPT ![call[c].to] = TRUE]
    /\ call' = [call EXCEPT ![c].at = "failed"]
    /\ UNCHANGED <<closed, conns, perTenant, doomed, connections, readerVars, writerVars,
                   done, wire, owed, unsaid, left>>

SendCloses(c) ==
    /\ call[c].at = "failed"
    /\ CloseSink(call[c].to)
    /\ call' = [call EXCEPT ![c] = Idle]
    /\ UNCHANGED <<serverVars, readerVars, writerVars, wire, unsaid, left, behind>>

-----------------------------------------------------------------------------
(* The handshake and the reading goroutine                                 *)

\* handleSocket of a server that is not closed. A socket id is never reused in
\* the code; one is reused here only when nothing refers to it any more.
Admit(s) ==
    /\ ~closed
    /\ reader[s] = "absent"
    /\ writer[s] = "none"
    /\ s \notin doomed
    /\ \A c \in Callers : call[c].to # s
    /\ Read(s, "upgrading")
    /\ queue' = [queue EXCEPT ![s] = 0]
    /\ done' = [done EXCEPT ![s] = FALSE]
    /\ wire' = [wire EXCEPT ![s] = "up"]
    /\ owed' = [owed EXCEPT ![s] = 0]
    /\ unsaid' = [unsaid EXCEPT ![s] = FALSE]
    /\ left' = [left EXCEPT ![s] = FALSE]
    /\ behind' = [behind EXCEPT ![s] = FALSE]
    /\ UNCHANGED <<serverVars, reason, known, writer, flushed, call>>

\* An unknown app, nobody signed in, a policy that refuses, a refused upgrade.
RefuseHandshake(s) ==
    /\ reader[s] = "upgrading"
    /\ Read(s, "absent")
    /\ wire' = [wire EXCEPT ![s] = "shut"]
    /\ UNCHANGED <<serverVars, reason, known, writerVars, done, call, ghosts>>

\* Upgrade and newSink: the writer runs from here on. A Grant that yields no
\* connection only ends the sink.
Upgrade(s) ==
    /\ reader[s] = "upgrading"
    /\ Write(s, "select")
    /\ \E stage \in {"registering", "ending"} : Read(s, stage)
    /\ UNCHANGED <<serverVars, reason, known, queue, flushed, done, wire, call, ghosts>>

\* Mutant: one too many.
AtLimitOff(t) == MaxConnections > 0 /\ perTenant[t] > MaxConnections

\* The tenant has no room left.
AtLimit(t) == MaxConnections > 0 /\ perTenant[t] >= MaxConnections

\* Mutant: the slot is taken before the limit is asked.
RegisterCountsFirst(s) ==
    LET t == TenantOf[s] IN
    /\ reader[s] = "registering"
    /\ perTenant' = [perTenant EXCEPT ![t] = @ + 1]
    /\ unsaid' = [unsaid EXCEPT ![s] = AtLimit(t)]
    /\ conns' = IF AtLimit(t) THEN conns ELSE conns \union {s}
    /\ Read(s, IF AtLimit(t) THEN "full" ELSE "registered")
    /\ UNCHANGED <<closed, closeReasons, doomed, connections, reason, known, writerVars,
                   done, wire, call, owed, left, behind>>

\* Mutant: a server already closed still registers.
RegisterOnceClosed(s) ==
    /\ reader[s] = "registering"
    /\ conns' = conns \union {s}
    /\ perTenant' = [perTenant EXCEPT ![TenantOf[s]] = @ + 1]
    /\ Read(s, "registered")
    /\ UNCHANGED <<closed, closeReasons, doomed, connections, reason, known, writerVars,
                   done, wire, call, ghosts>>

\* Server.register: the check and the insert are one critical section.
Register(s) ==
    LET t == TenantOf[s] IN
    /\ reader[s] = "registering"
    /\ \/ /\ closed
          /\ Read(s, "closed")
          /\ UNCHANGED <<conns, perTenant, unsaid>>
       \/ /\ ~closed
          /\ AtLimit(t)
          /\ Read(s, "full")
          /\ unsaid' = [unsaid EXCEPT ![s] = TRUE]
          /\ UNCHANGED <<conns, perTenant>>
       \/ /\ ~closed
          /\ ~AtLimit(t)
          /\ conns' = conns \union {s}
          /\ perTenant' = [perTenant EXCEPT ![t] = @ + 1]
          /\ Read(s, "registered")
          /\ UNCHANGED unsaid
    /\ UNCHANGED <<closed, closeReasons, doomed, connections, reason, known, writerVars,
                   done, wire, call, owed, left, behind>>

\* One Send by the socket's own reader while nobody else can know the socket:
\* the queue has room, and a close racing the call may win or lose.
OwnSend(s) ==
    queue' = [queue EXCEPT ![s] = IF done[s] THEN @ ELSE @ + 1]

\* A socket over the limit: the refusal is queued before anything else.
TellRefusal(s) ==
    /\ reader[s] = "full"
    /\ OwnSend(s)
    /\ Read(s, "refused")
    /\ UNCHANGED <<serverVars, reason, known, writer, flushed, done, wire, call, ghosts>>

\* Mutant: the count may go below zero.
ConnectionClosedUnfloored(s) ==
    connections' = [connections EXCEPT ![TenantOf[s]] = @ - 1]

\* Mutant: the last connection is never counted out.
ConnectionClosedOff(s) ==
    connections' = [connections EXCEPT ![TenantOf[s]] = IF @ > 1 THEN @ - 1 ELSE @]

\* observer.ConnectionClosed of a socket that ends; Counter stays at zero.
ConnectionClosed(s) ==
    connections' = [connections EXCEPT ![TenantOf[s]] = IF @ > 0 THEN @ - 1 ELSE 0]

\* ConnectionClosed of a socket that was never registered, as "limit" or as
\* "shutdown".
AnnounceRefusal(s) ==
    /\ reader[s] \in {"refused", "closed"}
    /\ ConnectionClosed(s)
    /\ Read(s, "ending")
    /\ UNCHANGED <<closed, conns, perTenant, closeReasons, doomed, reason, known,
                   writerVars, done, wire, call, ghosts>>

\* observer.ConnectionOpened.
ConnectionOpened(s) ==
    /\ reader[s] = "registered"
    /\ connections' = [connections EXCEPT ![TenantOf[s]] = @ + 1]
    /\ Read(s, "opening")
    /\ UNCHANGED <<closed, conns, perTenant, closeReasons, doomed, reason, known, writerVars, done, wire, call, ghosts>>

\* protocol.Open writes the first frame; a sink already closed ends the socket.
OpenProtocol(s) ==
    /\ reader[s] = "opening"
    /\ OwnSend(s)
    /\ \/ /\ ~done[s]
          /\ Read(s, "reading")
          /\ UNCHANGED reason
       \/ /\ done[s]
          /\ Read(s, "unregistering")
          /\ reason' = [reason EXCEPT ![s] = "error"]
    /\ UNCHANGED <<serverVars, known, writer, flushed, done, wire, call, ghosts>>

\* ReadMessage fails in a way that says why: a close frame of the client's
\* ("client"), nothing heard in time ("timeout"), a close with another code or a
\* frame against the protocol ("error"). The reader shuts the connection. Once the
\* writer has sent its close frame, what arrives is the client's answer to it, and
\* the reader does not tell the two apart.
ReadKnown(s, why) ==
    /\ reader[s] = "reading"
    /\ wire[s] # "shut"
    /\ reason' = [reason EXCEPT ![s] = why]
    /\ known' = [known EXCEPT ![s] = IF writer[s] = "bye" THEN "answer" ELSE why]
    /\ left' = [left EXCEPT ![s] = @ \/ writer[s] # "bye"]
    /\ wire' = [wire EXCEPT ![s] = "shut"]
    /\ Read(s, "recording")
    /\ UNCHANGED <<serverVars, writerVars, done, call, owed, unsaid, behind>>

\* ReadMessage fails on a connection that was lost, or shut by the writer: the
\* error says nothing, and the reason stays what it was.
ReadTransport(s) ==
    /\ reader[s] = "reading"
    /\ wire[s] # "up"
    /\ wire' = [wire EXCEPT ![s] = "shut"]
    /\ Read(s, "unregistering")
    /\ UNCHANGED <<serverVars, reason, known, writerVars, done, call, ghosts>>

\* Mutant: the reader's reason always wins.
RecordReadCloseReasonOver(s) ==
    /\ reader[s] = "recording"
    /\ closeReasons' = [closeReasons EXCEPT ![s] = reason[s]]
    /\ Read(s, "unregistering")
    /\ UNCHANGED <<closed, conns, perTenant, doomed, connections, reason, known, writerVars,
                   done, wire, call, ghosts>>

\* Mutant: whoever came first wins.
RecordReadCloseReasonFirst(s) ==
    /\ reader[s] = "recording"
    /\ closeReasons' = [closeReasons EXCEPT ![s] = IF @ # None THEN @ ELSE reason[s]]
    /\ Read(s, "unregistering")
    /\ UNCHANGED <<closed, conns, perTenant, doomed, connections, reason, known, writerVars,
                   done, wire, call, ghosts>>

\* Server.recordReadCloseReason: over any reason but the server's own decisions.
RecordReadCloseReason(s) ==
    /\ reader[s] = "recording"
    /\ closeReasons' = [closeReasons EXCEPT ![s] =
                           IF @ \in {"shutdown", "terminated"} THEN @ ELSE reason[s]]
    /\ Read(s, "unregistering")
    /\ UNCHANGED <<closed, conns, perTenant, doomed, connections, reason, known, writerVars, done, wire, call, ghosts>>

\* Server.unregister: the recorded reason before the reader's own.
Unregister(s) ==
    LET t == TenantOf[s] IN
    /\ reader[s] = "unregistering"
    /\ reason' = [reason EXCEPT ![s] = IF closeReasons[s] # None THEN closeReasons[s] ELSE @]
    /\ closeReasons' = [closeReasons EXCEPT ![s] = None]
    /\ conns' = conns \ {s}
    /\ perTenant' = [perTenant EXCEPT ![t] =
                        IF s \notin conns THEN @ ELSE IF @ <= 1 THEN 0 ELSE @ - 1]
    /\ Read(s, "announcing")
    /\ UNCHANGED <<closed, doomed, connections, known, writerVars, done, wire, call, ghosts>>

\* ConnectionClosed of a registered socket. protocol.Close follows (module
\* Pusher), and after it the sink ends.
AnnounceClosed(s) ==
    /\ reader[s] = "announcing"
    /\ ConnectionClosed(s)
    /\ Read(s, "parting")
    /\ UNCHANGED <<closed, conns, perTenant, closeReasons, doomed, reason, known,
                   writerVars, done, wire, call, ghosts>>

\* The last thing a reader does: its sink closes, and its variables are gone.
ReaderEnds(s) ==
    /\ reader[s] \in {"ending", "parting"}
    /\ CloseSink(s)
    /\ Read(s, "absent")
    /\ reason' = [reason EXCEPT ![s] = "client"]
    /\ known' = [known EXCEPT ![s] = None]
    /\ UNCHANGED <<serverVars, writerVars, wire, call, unsaid, left, behind>>

-----------------------------------------------------------------------------
(* What ends sockets from outside                                          *)

\* Server.Terminate: the sockets of one subject of one tenant, under the lock.
Terminate(t, subject) ==
    LET ended == {s \in conns : TenantOf[s] = t /\ SubjectOf[s] = subject} IN
    /\ ended # {}
    /\ doomed' = doomed \union ended
    /\ closeReasons' = [s \in Sockets |-> IF s \in ended THEN "terminated" ELSE closeReasons[s]]
    /\ UNCHANGED <<closed, conns, perTenant, connections, readerVars, writerVars, done, wire, call, ghosts>>

\* Server.Close, under the lock: nobody registers after it.
Close ==
    /\ closed' = TRUE
    /\ doomed' = doomed \union conns
    /\ closeReasons' = [s \in Sockets |-> IF s \in conns THEN "shutdown" ELSE closeReasons[s]]
    /\ UNCHANGED <<conns, perTenant, connections, readerVars, writerVars, done, wire, call, ghosts>>

\* Connection.Terminate of one socket collected above, after the lock is let go.
TerminateOne(s) ==
    /\ s \in doomed
    /\ doomed' = doomed \ {s}
    /\ CloseSink(s)
    /\ UNCHANGED <<closed, conns, perTenant, closeReasons, connections, readerVars, writerVars,
                   wire, call, unsaid, left, behind>>

\* The client goes away, or stops reading, or the network fails.
Lose(s) ==
    /\ writer[s] # "none"
    /\ wire[s] = "up"
    /\ wire' = [wire EXCEPT ![s] = "lost"]
    /\ left' = [left EXCEPT ![s] = TRUE]
    /\ UNCHANGED <<serverVars, readerVars, writerVars, done, call, owed, unsaid, behind>>

-----------------------------------------------------------------------------
Reader(s) ==
    \/ RefuseHandshake(s)
    \/ Upgrade(s)
    \/ Register(s)
    \/ TellRefusal(s)
    \/ AnnounceRefusal(s)
    \/ ConnectionOpened(s)
    \/ OpenProtocol(s)
    \/ ReadTransport(s)
    \/ RecordReadCloseReason(s)
    \/ Unregister(s)
    \/ AnnounceClosed(s)
    \/ ReaderEnds(s)

Writer(s) ==
    \/ WriteFrame(s)
    \/ WriteFails(s)
    \/ FailRecords(s)
    \/ FailCloses(s)
    \/ SeesDone(s)
    \/ FlushOne(s)
    \/ SaysGoodbye(s)
    \/ WriterEnds(s)

Sending(c) == SendOffers(c) \/ SendRecords(c) \/ SendCloses(c)

Environment(s) ==
    \/ Admit(s)
    \/ Lose(s)
    \/ \E why \in {"client", "timeout", "error"} : ReadKnown(s, why)
    \/ \E c \in Callers : SendBegins(c, s)

Operator ==
    \/ \E t \in Tenants, subject \in Subjects : Terminate(t, subject)
    \/ Close

Next ==
    \/ \E s \in Sockets : Reader(s) \/ Writer(s) \/ TerminateOne(s) \/ Environment(s)
    \/ \E c \in Callers : Sending(c)
    \/ Operator

Spec == Init /\ [][Next]_vars

\* Goroutines are scheduled, and a read of a lost or shut connection answers. No
\* client, caller or operator has to do anything.
FairSpec ==
    /\ Spec
    /\ \A s \in Sockets : WF_vars(Reader(s)) /\ WF_vars(Writer(s)) /\ WF_vars(TerminateOne(s))
    /\ \A c \in Callers : WF_vars(Sending(c))

-----------------------------------------------------------------------------
(* Properties                                                              *)

TypeOK ==
    /\ closed \in BOOLEAN
    /\ conns \in SUBSET Sockets
    /\ perTenant \in [Tenants -> Nat]
    /\ closeReasons \in [Sockets -> Reasons \union {None}]
    /\ doomed \in SUBSET Sockets
    /\ connections \in [Tenants -> Nat]
    /\ reader \in [Sockets -> ReaderStages]
    /\ reason \in [Sockets -> Reasons]
    /\ known \in [Sockets -> Reasons \union {"answer", None}]
    /\ writer \in [Sockets -> WriterStages]
    /\ queue \in [Sockets -> 0..OutboundQueue]
    /\ flushed \in [Sockets -> 0..OutboundQueue]
    /\ done \in [Sockets -> BOOLEAN]
    /\ wire \in [Sockets -> {"up", "lost", "shut"}]
    /\ call \in [Callers -> [at : CallStages, to : Sockets \union {None}]]
    /\ owed \in [Sockets -> 0..OutboundQueue]
    /\ unsaid \in [Sockets -> BOOLEAN]
    /\ left \in [Sockets -> BOOLEAN]
    /\ behind \in [Sockets -> BOOLEAN]

\* Server.Connections: the registered sockets of a tenant, counted one by one.
Connections(t) == Cardinality({s \in conns : TenantOf[s] = t})

\* The number the limit is checked against is the number of registered sockets:
\* no admission, refusal or end of a socket lets the two drift apart.
RegistryExact == \A t \in Tenants : perTenant[t] = Connections(t)

\* No interleaving of upgrades puts a tenant over its limit.
WithinLimit == MaxConnections > 0 => \A t \in Tenants : Connections(t) <= MaxConnections

\* A reason is kept for a registered socket only: sink.fail, Terminate and the
\* reader race with unregister, and none leaves an entry behind it.
NoStaleReason == \A s \in Sockets : closeReasons[s] # None => s \in conns

\* Once the server is closed every socket still registered ends as one the
\* server ended, whatever its reader or its sink meets on the way out.
ShutdownStands ==
    closed => \A s \in conns : closeReasons[s] \in {"shutdown", "terminated"}

\* A reader that was told, unprompted, why its socket ended reports that, or the
\* server's own decision to end it, and never the failed write the same end
\* provoked.
KnownReasonStands ==
    \A s \in Sockets : (reader[s] = "parting" /\ known[s] \in Reasons) =>
        reason[s] \in {known[s], "shutdown", "terminated"}

\* A socket is reported as the client's hanging up only when the client or the
\* network ended it: the server's own close, which a reader sees as a read error
\* that says nothing, has its reason recorded before the connection is shut. The
\* one exception is a socket a Send ended because the client had fallen behind,
\* and whose client answered the close frame: the answer is recorded over the
\* error (AnswerIsNotHangingUp, which does not hold).
ClientMeansClient ==
    \A s \in Sockets : (reader[s] = "parting" /\ reason[s] = "client") =>
        left[s] \/ (known[s] = "answer" /\ behind[s])

\* "ReasonClient is the client hanging up" and "ReasonError is a protocol or server
\* failure that ended the socket" (src/events.go): an answer to the close frame by
\* which the server ended a socket is not the client's hanging up.
AnswerIsNotHangingUp ==
    \A s \in Sockets : (reader[s] = "parting" /\ reason[s] = "client") => left[s]

\* The close frame of the writer reached the client.
Goodbye(s) == writer[s] = "bye" /\ wire[s] = "up"

\* What was queued before the close goes out before the close frame.
FlushedBeforeGoodbye == \A s \in Sockets : Goodbye(s) => owed[s] = 0

\* A socket refused by the limit and closed in good order was told so first.
RefusalTold == \A s \in Sockets : Goodbye(s) => ~unsaid[s]

\* The sockets announced as opened and not yet as closed.
Announced(t) ==
    {s \in Sockets : TenantOf[s] = t /\
        reader[s] \in {"opening", "reading", "recording", "unregistering", "announcing"}}

\* The counter never reports a connection that has gone.
NoPhantomConnection == \A t \in Tenants : connections[t] <= Cardinality(Announced(t))

\* "Connections is how many are open right now" (src/counter.go).
ConnectionsAreCounted == \A t \in Tenants : connections[t] = Cardinality(Announced(t))

Ended(s) == reader[s] = "absent" /\ writer[s] = "none"

\* A socket whose sink was closed, by whomever, loses both of its goroutines.
ClosedSocketEnds == \A s \in Sockets : done[s] ~> Ended(s)

\* After Close every goroutine the server counts in workers ends, sockets in the
\* middle of their handshake included: Close's wait is over.
ShutdownEnds == closed ~> \A s \in Sockets : Ended(s)

-----------------------------------------------------------------------------
(* The properties the runs check                                            *)

\* The registry, the limit it enforces and the observer's count of connections:
\* each is exact, or, for the observer, never above what is there.
RegistrySound == TypeOK /\ RegistryExact /\ WithinLimit /\ NoPhantomConnection

\* Reasons live as long as their sockets: none is left by a goroutine that comes
\* after unregister, and none replaces a shutdown's.
ReasonsStand == NoStaleReason /\ ShutdownStands

\* The reason the observer is given is one that ended the socket, although four
\* goroutines may have noticed it in any order, but for a client that fell behind
\* and answered the close.
ReasonTrue == KnownReasonStands /\ ClientMeansClient

\* The goroutines of a socket end when its sink is closed, and all of them when
\* the server is.
GoroutinesEnd == ClosedSocketEnds /\ ShutdownEnds

=============================================================================
