---------------------------- MODULE ServerProofs ----------------------------
(***************************************************************************)
(* Proofs about Server, for any number of sockets, tenants and callers,    *)
(* any limit and any queue. The properties are about a socket's end, and   *)
(* none of them is inductive: that the close frame comes after every frame *)
(* queued before it needs what the flush has left to do, that a refusal is *)
(* told needs to know that nobody but its own goroutines can end a socket  *)
(* that was never registered, and that "client" means the client needs     *)
(* every path that shuts a connection to have given a reason before it.    *)
(* IInv says so, socket by socket.                                         *)
(***************************************************************************)
EXTENDS Server, FiniteSetTheorems, TLAPS

-----------------------------------------------------------------------------
(* The inductive invariant                                                 *)

\* The reader is between register and unregister.
Registered == {"registered", "opening", "reading", "recording", "unregistering"}

\* The stages in which only the reading goroutine and the writing one know the socket.
Private == {"upgrading", "registering", "full", "refused", "closed", "ending",
            "registered", "opening"}

\* The stages of a socket nobody has registered, and nobody can therefore end.
Unlisted == {"upgrading", "registering", "full", "refused", "closed", "ending"}

\* The stages with a writing goroutine at hand and no end in sight.
Early == (Private \ {"upgrading"}) \union {"reading"}

\* Why the socket ends is known already.
Explained(s) == left[s] \/ closeReasons[s] # None

\* What a stage of the reading goroutine says of the rest of the socket.
LifeOf(s) ==
    /\ s \in conns <=> reader[s] \in Registered
    /\ s \in doomed => reader[s] \notin Unlisted
    /\ reader[s] \in {"upgrading", "registering", "full", "registered", "opening"} => queue[s] = 0
    /\ reader[s] = "upgrading" => writer[s] = "none" /\ wire[s] = "up" /\ ~done[s]
    /\ reader[s] \in Early =>
          \/ writer[s] = "select" /\ wire[s] # "shut" /\ ~done[s]
          \/ Explained(s)
    /\ reader[s] \in Unlisted /\ done[s] => wire[s] = "shut"
    /\ wire[s] = "lost" => left[s]

\* What is owed is in the queue, and the flush has turns left for it.
FlushOf(s) ==
    /\ writer[s] \in {"flushing", "bye"} => done[s]
    /\ flushed[s] # 0 => writer[s] = "flushing"
    /\ done[s] => owed[s] <= queue[s]
    /\ writer[s] = "flushing" => owed[s] + flushed[s] <= OutboundQueue
    /\ Goodbye(s) => owed[s] = 0

\* A refusal that has not reached a client still connected is about to be queued,
\* is in the queue, or is owed.
ToldOf(s) ==
    unsaid[s] /\ wire[s] = "up" =>
        \/ reader[s] = "full" /\ ~done[s]
        \/ reader[s] \in {"refused", "ending"} /\ ~done[s] /\ queue[s] > 0
        \/ done[s] /\ owed[s] > 0

\* The server has ended the socket, or the client has before it.
Ours(s) == left[s] \/ behind[s] \/ closeReasons[s] \in {"shutdown", "terminated"}

\* The socket may be reported as the client's.
Theirs(s) == left[s] \/ (known[s] = "answer" /\ behind[s])

\* The reason, where it stands at each stage.
ReasonOf(s) ==
    /\ closeReasons[s] # None => s \in conns
    /\ closed /\ s \in conns => closeReasons[s] \in {"shutdown", "terminated"}
    /\ s \in doomed /\ s \in conns => closeReasons[s] # None
    /\ reader[s] \in Early /\ closeReasons[s] # None => Ours(s)
    /\ closeReasons[s] = "client" => Theirs(s)
    /\ known[s] # None => reader[s] \in {"recording", "unregistering", "announcing", "parting"}
    /\ reader[s] = "recording" =>
          /\ known[s] \in {reason[s], "answer"}
          /\ left[s] \/ (known[s] = "answer" /\ Ours(s))
    /\ reader[s] = "unregistering" =>
          /\ known[s] \in Reasons => closeReasons[s] \in {known[s], "shutdown", "terminated"}
          /\ \/ Theirs(s)
             \/ IF closeReasons[s] = None THEN reason[s] # "client" ELSE closeReasons[s] # "client"
    /\ reader[s] \in {"announcing", "parting"} =>
          /\ known[s] \in Reasons => reason[s] \in {known[s], "shutdown", "terminated"}
          /\ reason[s] = "client" => Theirs(s)

\* A caller inside Send names a socket that was opened; one about to close it has
\* given the reason.
CallOf(c) ==
    /\ call[c].at = "out" <=> call[c].to = None
    /\ call[c].at # "out" => reader[call[c].to] \notin Private
    /\ call[c].at = "failed" /\ call[c].to \in conns => closeReasons[call[c].to] # None

IInv ==
    /\ TypeOK
    /\ \A s \in Sockets : LifeOf(s) /\ FlushOf(s) /\ ToldOf(s) /\ ReasonOf(s)
    /\ \A c \in Callers : CallOf(c)

-----------------------------------------------------------------------------
(* The initial states                                                      *)

\* The invariant holds before any socket is admitted.
LEMMA InitIInv == Init => IInv
<1> SUFFICES ASSUME Init PROVE IInv
  OBVIOUS
<1> USE ServerAssumption DEF Init
<1>1. TypeOK
  <2>1. call \in [Callers -> [at : CallStages, to : Sockets \union {None}]]
    BY DEF CallStages, Idle
  <2>2. 0 \in 0..OutboundQueue
    OBVIOUS
  <2> QED
    BY <2>1, <2>2 DEF TypeOK, Reasons, ReaderStages, WriterStages
<1>2. ASSUME NEW s \in Sockets PROVE LifeOf(s) /\ FlushOf(s) /\ ToldOf(s) /\ ReasonOf(s)
  BY DEF LifeOf, FlushOf, ToldOf, ReasonOf, Ours, Theirs, Registered, Private, Unlisted, Early, Explained,
         Goodbye, Reasons
<1>3. ASSUME NEW c \in Callers PROVE CallOf(c)
  BY DEF CallOf, Idle
<1> QED
  BY <1>1, <1>2, <1>3 DEF IInv

-----------------------------------------------------------------------------
(* The steps                                                               *)

\* Every variable keeps its type.
LEMMA TypeStep == IInv /\ [Next]_vars => TypeOK'
<1> SUFFICES ASSUME IInv, [Next]_vars PROVE TypeOK'
  BY DEF TypeOK
<1> USE ServerAssumption DEF IInv, TypeOK, Read, Write, serverVars, readerVars, writerVars,
   ghosts, Reasons, ReaderStages, WriterStages, CallStages, Idle
<1>1. CASE Next
  <2>1. ASSUME NEW s \in Sockets, RefuseHandshake(s) PROVE TypeOK'
    BY <2>1 DEF RefuseHandshake
  <2>2. ASSUME NEW s \in Sockets, Upgrade(s) PROVE TypeOK'
    BY <2>2 DEF Upgrade
  <2>3. ASSUME NEW s \in Sockets, Register(s) PROVE TypeOK'
    <3>1. perTenant' \in [Tenants -> Nat] /\ conns' \in SUBSET Sockets
      BY <2>3 DEF Register
    <3>2. reader' \in [Sockets -> ReaderStages]
      BY <2>3 DEF Register
    <3>3. unsaid' \in [Sockets -> BOOLEAN]
      BY <2>3 DEF Register
    <3> QED
      BY <2>3, <3>1, <3>2, <3>3 DEF Register
  <2>4. ASSUME NEW s \in Sockets, TellRefusal(s) PROVE TypeOK'
    BY <2>4 DEF TellRefusal, OwnSend, LifeOf
  <2>5. ASSUME NEW s \in Sockets, AnnounceRefusal(s) PROVE TypeOK'
    BY <2>5 DEF AnnounceRefusal, ConnectionClosed
  <2>6. ASSUME NEW s \in Sockets, ConnectionOpened(s) PROVE TypeOK'
    BY <2>6 DEF ConnectionOpened
  <2>7. ASSUME NEW s \in Sockets, OpenProtocol(s) PROVE TypeOK'
    <3>1. queue' \in [Sockets -> 0..OutboundQueue]
      BY <2>7 DEF OpenProtocol, OwnSend, LifeOf
    <3>2. reader' \in [Sockets -> ReaderStages]
      BY <2>7 DEF OpenProtocol
    <3>3. reason' \in [Sockets -> Reasons]
      BY <2>7 DEF OpenProtocol
    <3> QED
      BY <2>7, <3>1, <3>2, <3>3 DEF OpenProtocol
  <2>8. ASSUME NEW s \in Sockets, ReadTransport(s) PROVE TypeOK'
    BY <2>8 DEF ReadTransport
  <2>9. ASSUME NEW s \in Sockets, RecordReadCloseReason(s) PROVE TypeOK'
    BY <2>9 DEF RecordReadCloseReason
  <2>10. ASSUME NEW s \in Sockets, Unregister(s) PROVE TypeOK'
    BY <2>10 DEF Unregister
  <2>11. ASSUME NEW s \in Sockets, AnnounceClosed(s) PROVE TypeOK'
    BY <2>11 DEF AnnounceClosed, ConnectionClosed
  <2>12. ASSUME NEW s \in Sockets, ReaderEnds(s) PROVE TypeOK'
    BY <2>12 DEF ReaderEnds, CloseSink
  <2>13. ASSUME NEW s \in Sockets, WriteFrame(s) PROVE TypeOK'
    BY <2>13 DEF WriteFrame, WriteOne
  <2>14. ASSUME NEW s \in Sockets, WriteFails(s) PROVE TypeOK'
    BY <2>14 DEF WriteFails
  <2>15. ASSUME NEW s \in Sockets, FailRecords(s) PROVE TypeOK'
    BY <2>15 DEF FailRecords, RecordCloseReason
  <2>16. ASSUME NEW s \in Sockets, FailCloses(s) PROVE TypeOK'
    BY <2>16 DEF FailCloses, CloseSink
  <2>17. ASSUME NEW s \in Sockets, SeesDone(s) PROVE TypeOK'
    BY <2>17 DEF SeesDone
  <2>18. ASSUME NEW s \in Sockets, FlushOne(s) PROVE TypeOK'
    BY <2>18 DEF FlushOne, WriteOne, MayFlush
  <2>19. ASSUME NEW s \in Sockets, SaysGoodbye(s) PROVE TypeOK'
    BY <2>19 DEF SaysGoodbye, MayFlush
  <2>20. ASSUME NEW s \in Sockets, WriterEnds(s) PROVE TypeOK'
    BY <2>20 DEF WriterEnds
  <2>21. ASSUME NEW s \in Sockets, TerminateOne(s) PROVE TypeOK'
    BY <2>21 DEF TerminateOne, CloseSink
  <2>22. ASSUME NEW s \in Sockets, Admit(s) PROVE TypeOK'
    BY <2>22 DEF Admit
  <2>23. ASSUME NEW s \in Sockets, Lose(s) PROVE TypeOK'
    BY <2>23 DEF Lose
  <2>24. ASSUME NEW s \in Sockets, NEW why \in {"client", "timeout", "error"}, ReadKnown(s, why)
         PROVE  TypeOK'
    BY <2>24 DEF ReadKnown
  <2>25. ASSUME NEW s \in Sockets, NEW c \in Callers, SendBegins(c, s) PROVE TypeOK'
    BY <2>25 DEF SendBegins
  <2>26. ASSUME NEW c \in Callers, SendOffers(c) PROVE TypeOK'
    <3>1. call[c].to \in Sockets
      BY <2>26 DEF SendOffers, CallOf
    <3>2. queue' \in [Sockets -> 0..OutboundQueue]
      BY <2>26, <3>1 DEF SendOffers
    <3>3. call' \in [Callers -> [at : CallStages, to : Sockets \union {None}]]
      <4>1. \/ call' = [call EXCEPT ![c] = Idle]
            \/ call' = [call EXCEPT ![c].at = "full"]
        BY <2>26 DEF SendOffers
      <4> QED
        BY <4>1
    <3> QED
      BY <2>26, <3>2, <3>3 DEF SendOffers
  <2>27. ASSUME NEW c \in Callers, SendRecords(c) PROVE TypeOK'
    BY <2>27 DEF SendRecords, RecordCloseReason, CallOf
  <2>28. ASSUME NEW c \in Callers, SendCloses(c) PROVE TypeOK'
    BY <2>28 DEF SendCloses, CloseSink, CallOf
  <2>29. ASSUME NEW t \in Tenants, NEW subject \in Subjects, Terminate(t, subject) PROVE TypeOK'
    BY <2>29 DEF Terminate
  <2>30. ASSUME Close PROVE TypeOK'
    BY <2>30 DEF Close
  <2> HIDE DEF IInv, TypeOK
  <2> QED
    BY <1>1, <2>1, <2>2, <2>3, <2>4, <2>5, <2>6, <2>7, <2>8, <2>9, <2>10, <2>11, <2>12, <2>13,
       <2>14, <2>15, <2>16, <2>17, <2>18, <2>19, <2>20, <2>21, <2>22, <2>23, <2>24, <2>25,
       <2>26, <2>27, <2>28, <2>29, <2>30 DEF Next, Reader, Writer, Environment, Sending,
       Operator
<1>2. CASE UNCHANGED vars
  BY <1>2 DEF vars
<1> QED
  BY <1>1, <1>2

\* The stage of a reader keeps saying what it says about its socket: a socket
\* is in the registry exactly while registered, and one whose connection is shut,
\* or whose sink is closed, before its reader noticed has its end explained.
LEMMA LifeStep == IInv /\ [Next]_vars => \A r \in Sockets : LifeOf(r)'
<1> SUFFICES ASSUME IInv, [Next]_vars, NEW r \in Sockets PROVE LifeOf(r)'
  BY DEF TypeOK
<1> USE ServerAssumption DEF IInv, TypeOK, Read, Write, serverVars, readerVars, writerVars,
   ghosts, ReaderStages, LifeOf, CallOf, Registered, Private, Unlisted, Early, Explained
<1>1. CASE Next
  <2>1. ASSUME NEW s \in Sockets, RefuseHandshake(s) PROVE LifeOf(r)'
    BY <2>1 DEF RefuseHandshake
  <2>2. ASSUME NEW s \in Sockets, Upgrade(s) PROVE LifeOf(r)'
    BY <2>2 DEF Upgrade
  <2>3. ASSUME NEW s \in Sockets, Register(s) PROVE LifeOf(r)'
    BY <2>3 DEF Register
  <2>4. ASSUME NEW s \in Sockets, TellRefusal(s) PROVE LifeOf(r)'
    BY <2>4 DEF TellRefusal, OwnSend
  <2>5. ASSUME NEW s \in Sockets, AnnounceRefusal(s) PROVE LifeOf(r)'
    BY <2>5 DEF AnnounceRefusal, ConnectionClosed
  <2>6. ASSUME NEW s \in Sockets, ConnectionOpened(s) PROVE LifeOf(r)'
    BY <2>6 DEF ConnectionOpened
  <2>7. ASSUME NEW s \in Sockets, OpenProtocol(s) PROVE LifeOf(r)'
    BY <2>7 DEF OpenProtocol, OwnSend
  <2>8. ASSUME NEW s \in Sockets, ReadTransport(s) PROVE LifeOf(r)'
    BY <2>8 DEF ReadTransport
  <2>9. ASSUME NEW s \in Sockets, RecordReadCloseReason(s) PROVE LifeOf(r)'
    BY <2>9 DEF RecordReadCloseReason
  <2>10. ASSUME NEW s \in Sockets, Unregister(s) PROVE LifeOf(r)'
    BY <2>10 DEF Unregister
  <2>11. ASSUME NEW s \in Sockets, AnnounceClosed(s) PROVE LifeOf(r)'
    BY <2>11 DEF AnnounceClosed, ConnectionClosed
  <2>12. ASSUME NEW s \in Sockets, ReaderEnds(s) PROVE LifeOf(r)'
    BY <2>12 DEF ReaderEnds, CloseSink
  <2>13. ASSUME NEW s \in Sockets, WriteFrame(s) PROVE LifeOf(r)'
    BY <2>13 DEF WriteFrame, WriteOne
  <2>14. ASSUME NEW s \in Sockets, WriteFails(s) PROVE LifeOf(r)'
    BY <2>14 DEF WriteFails
  <2>15. ASSUME NEW s \in Sockets, FailRecords(s) PROVE LifeOf(r)'
    BY <2>15 DEF FailRecords, RecordCloseReason
  <2>16. ASSUME NEW s \in Sockets, FailCloses(s) PROVE LifeOf(r)'
    BY <2>16 DEF FailCloses, CloseSink
  <2>17. ASSUME NEW s \in Sockets, SeesDone(s) PROVE LifeOf(r)'
    BY <2>17 DEF SeesDone
  <2>18. ASSUME NEW s \in Sockets, FlushOne(s) PROVE LifeOf(r)'
    BY <2>18 DEF FlushOne, WriteOne, MayFlush
  <2>19. ASSUME NEW s \in Sockets, SaysGoodbye(s) PROVE LifeOf(r)'
    BY <2>19 DEF SaysGoodbye, MayFlush
  <2>20. ASSUME NEW s \in Sockets, WriterEnds(s) PROVE LifeOf(r)'
    BY <2>20 DEF WriterEnds
  <2>21. ASSUME NEW s \in Sockets, TerminateOne(s) PROVE LifeOf(r)'
    BY <2>21 DEF TerminateOne, CloseSink, ReasonOf
  <2>22. ASSUME NEW s \in Sockets, Admit(s) PROVE LifeOf(r)'
    BY <2>22 DEF Admit
  <2>23. ASSUME NEW s \in Sockets, Lose(s) PROVE LifeOf(r)'
    BY <2>23 DEF Lose
  <2>24. ASSUME NEW s \in Sockets, NEW why \in {"client", "timeout", "error"}, ReadKnown(s, why)
         PROVE  LifeOf(r)'
    BY <2>24 DEF ReadKnown
  <2>25. ASSUME NEW s \in Sockets, NEW c \in Callers, SendBegins(c, s) PROVE LifeOf(r)'
    BY <2>25 DEF SendBegins
  <2>26. ASSUME NEW c \in Callers, SendOffers(c) PROVE LifeOf(r)'
    BY <2>26 DEF SendOffers
  <2>27. ASSUME NEW c \in Callers, SendRecords(c) PROVE LifeOf(r)'
    BY <2>27 DEF SendRecords, RecordCloseReason
  <2>28. ASSUME NEW c \in Callers, SendCloses(c) PROVE LifeOf(r)'
    BY <2>28 DEF SendCloses, CloseSink
  <2>29. ASSUME NEW t \in Tenants, NEW subject \in Subjects, Terminate(t, subject) PROVE LifeOf(r)'
    BY <2>29 DEF Terminate, Reasons
  <2>30. ASSUME Close PROVE LifeOf(r)'
    BY <2>30 DEF Close, Reasons
  <2> HIDE DEF IInv, TypeOK, LifeOf, CallOf
  <2> QED
    BY <1>1, <2>1, <2>2, <2>3, <2>4, <2>5, <2>6, <2>7, <2>8, <2>9, <2>10, <2>11, <2>12, <2>13,
       <2>14, <2>15, <2>16, <2>17, <2>18, <2>19, <2>20, <2>21, <2>22, <2>23, <2>24, <2>25,
       <2>26, <2>27, <2>28, <2>29, <2>30 DEF Next, Reader, Writer, Environment, Sending,
       Operator
<1>2. CASE UNCHANGED vars
  BY <1>2 DEF vars
<1> QED
  BY <1>1, <1>2

\* The flush keeps turns enough for what is owed, and what is owed is queued.
LEMMA FlushStep == IInv /\ [Next]_vars => \A r \in Sockets : FlushOf(r)'
<1> SUFFICES ASSUME IInv, [Next]_vars, NEW r \in Sockets PROVE FlushOf(r)'
  BY DEF TypeOK
<1> USE ServerAssumption DEF IInv, TypeOK, Read, Write, serverVars, readerVars, writerVars,
   ghosts, FlushOf, Goodbye
<1>1. CASE Next
  <2>1. ASSUME NEW s \in Sockets, RefuseHandshake(s) PROVE FlushOf(r)'
    BY <2>1 DEF RefuseHandshake
  <2>2. ASSUME NEW s \in Sockets, Upgrade(s) PROVE FlushOf(r)'
    BY <2>2 DEF Upgrade, LifeOf
  <2>3. ASSUME NEW s \in Sockets, Register(s) PROVE FlushOf(r)'
    BY <2>3 DEF Register
  <2>4. ASSUME NEW s \in Sockets, TellRefusal(s) PROVE FlushOf(r)'
    BY <2>4 DEF TellRefusal, OwnSend
  <2>5. ASSUME NEW s \in Sockets, AnnounceRefusal(s) PROVE FlushOf(r)'
    BY <2>5 DEF AnnounceRefusal, ConnectionClosed
  <2>6. ASSUME NEW s \in Sockets, ConnectionOpened(s) PROVE FlushOf(r)'
    BY <2>6 DEF ConnectionOpened
  <2>7. ASSUME NEW s \in Sockets, OpenProtocol(s) PROVE FlushOf(r)'
    BY <2>7 DEF OpenProtocol, OwnSend
  <2>8. ASSUME NEW s \in Sockets, ReadTransport(s) PROVE FlushOf(r)'
    BY <2>8 DEF ReadTransport
  <2>9. ASSUME NEW s \in Sockets, RecordReadCloseReason(s) PROVE FlushOf(r)'
    BY <2>9 DEF RecordReadCloseReason
  <2>10. ASSUME NEW s \in Sockets, Unregister(s) PROVE FlushOf(r)'
    BY <2>10 DEF Unregister
  <2>11. ASSUME NEW s \in Sockets, AnnounceClosed(s) PROVE FlushOf(r)'
    BY <2>11 DEF AnnounceClosed, ConnectionClosed
  <2>12. ASSUME NEW s \in Sockets, ReaderEnds(s) PROVE FlushOf(r)'
    BY <2>12 DEF ReaderEnds, CloseSink
  <2>13. ASSUME NEW s \in Sockets, WriteFrame(s) PROVE FlushOf(r)'
    BY <2>13 DEF WriteFrame, WriteOne
  <2>14. ASSUME NEW s \in Sockets, WriteFails(s) PROVE FlushOf(r)'
    BY <2>14 DEF WriteFails
  <2>15. ASSUME NEW s \in Sockets, FailRecords(s) PROVE FlushOf(r)'
    BY <2>15 DEF FailRecords, RecordCloseReason
  <2>16. ASSUME NEW s \in Sockets, FailCloses(s) PROVE FlushOf(r)'
    BY <2>16 DEF FailCloses, CloseSink
  <2>17. ASSUME NEW s \in Sockets, SeesDone(s) PROVE FlushOf(r)'
    BY <2>17 DEF SeesDone
  <2>18. ASSUME NEW s \in Sockets, FlushOne(s) PROVE FlushOf(r)'
    BY <2>18 DEF FlushOne, WriteOne, MayFlush
  <2>19. ASSUME NEW s \in Sockets, SaysGoodbye(s) PROVE FlushOf(r)'
    <3>1. CASE r # s
      BY <2>19, <3>1 DEF SaysGoodbye
    <3>2. CASE r = s
      BY <2>19, <3>2 DEF SaysGoodbye, MayFlush
    <3> QED
      BY <3>1, <3>2
  <2>20. ASSUME NEW s \in Sockets, WriterEnds(s) PROVE FlushOf(r)'
    BY <2>20 DEF WriterEnds
  <2>21. ASSUME NEW s \in Sockets, TerminateOne(s) PROVE FlushOf(r)'
    BY <2>21 DEF TerminateOne, CloseSink
  <2>22. ASSUME NEW s \in Sockets, Admit(s) PROVE FlushOf(r)'
    BY <2>22 DEF Admit
  <2>23. ASSUME NEW s \in Sockets, Lose(s) PROVE FlushOf(r)'
    BY <2>23 DEF Lose
  <2>24. ASSUME NEW s \in Sockets, NEW why \in {"client", "timeout", "error"}, ReadKnown(s, why)
         PROVE  FlushOf(r)'
    BY <2>24 DEF ReadKnown
  <2>25. ASSUME NEW s \in Sockets, NEW c \in Callers, SendBegins(c, s) PROVE FlushOf(r)'
    BY <2>25 DEF SendBegins
  <2>26. ASSUME NEW c \in Callers, SendOffers(c) PROVE FlushOf(r)'
    BY <2>26 DEF SendOffers
  <2>27. ASSUME NEW c \in Callers, SendRecords(c) PROVE FlushOf(r)'
    BY <2>27 DEF SendRecords, RecordCloseReason
  <2>28. ASSUME NEW c \in Callers, SendCloses(c) PROVE FlushOf(r)'
    BY <2>28 DEF SendCloses, CloseSink
  <2>29. ASSUME NEW t \in Tenants, NEW subject \in Subjects, Terminate(t, subject) PROVE FlushOf(r)'
    BY <2>29 DEF Terminate
  <2>30. ASSUME Close PROVE FlushOf(r)'
    BY <2>30 DEF Close
  <2> HIDE DEF IInv, TypeOK, FlushOf
  <2> QED
    BY <1>1, <2>1, <2>2, <2>3, <2>4, <2>5, <2>6, <2>7, <2>8, <2>9, <2>10, <2>11, <2>12, <2>13,
       <2>14, <2>15, <2>16, <2>17, <2>18, <2>19, <2>20, <2>21, <2>22, <2>23, <2>24, <2>25,
       <2>26, <2>27, <2>28, <2>29, <2>30 DEF Next, Reader, Writer, Environment, Sending,
       Operator
<1>2. CASE UNCHANGED vars
  BY <1>2 DEF vars
<1> QED
  BY <1>1, <1>2

\* The refusal of a socket over the limit is on its way until it is written.
LEMMA ToldStep == IInv /\ [Next]_vars => \A r \in Sockets : ToldOf(r)'
<1> SUFFICES ASSUME IInv, [Next]_vars, NEW r \in Sockets PROVE ToldOf(r)'
  BY DEF TypeOK
<1> USE ServerAssumption DEF IInv, TypeOK, Read, Write, serverVars, readerVars, writerVars,
   ghosts, ToldOf, LifeOf, FlushOf, Goodbye, Registered, Private, Unlisted, Early, Explained
<1>1. CASE Next
  <2>1. ASSUME NEW s \in Sockets, RefuseHandshake(s) PROVE ToldOf(r)'
    BY <2>1 DEF RefuseHandshake
  <2>2. ASSUME NEW s \in Sockets, Upgrade(s) PROVE ToldOf(r)'
    BY <2>2 DEF Upgrade
  <2>3. ASSUME NEW s \in Sockets, Register(s) PROVE ToldOf(r)'
    BY <2>3 DEF Register
  <2>4. ASSUME NEW s \in Sockets, TellRefusal(s) PROVE ToldOf(r)'
    BY <2>4 DEF TellRefusal, OwnSend
  <2>5. ASSUME NEW s \in Sockets, AnnounceRefusal(s) PROVE ToldOf(r)'
    BY <2>5 DEF AnnounceRefusal, ConnectionClosed
  <2>6. ASSUME NEW s \in Sockets, ConnectionOpened(s) PROVE ToldOf(r)'
    BY <2>6 DEF ConnectionOpened
  <2>7. ASSUME NEW s \in Sockets, OpenProtocol(s) PROVE ToldOf(r)'
    BY <2>7 DEF OpenProtocol, OwnSend
  <2>8. ASSUME NEW s \in Sockets, ReadTransport(s) PROVE ToldOf(r)'
    BY <2>8 DEF ReadTransport
  <2>9. ASSUME NEW s \in Sockets, RecordReadCloseReason(s) PROVE ToldOf(r)'
    BY <2>9 DEF RecordReadCloseReason
  <2>10. ASSUME NEW s \in Sockets, Unregister(s) PROVE ToldOf(r)'
    BY <2>10 DEF Unregister
  <2>11. ASSUME NEW s \in Sockets, AnnounceClosed(s) PROVE ToldOf(r)'
    BY <2>11 DEF AnnounceClosed, ConnectionClosed
  <2>12. ASSUME NEW s \in Sockets, ReaderEnds(s) PROVE ToldOf(r)'
    BY <2>12 DEF ReaderEnds, CloseSink
  <2>13. ASSUME NEW s \in Sockets, WriteFrame(s) PROVE ToldOf(r)'
    BY <2>13 DEF WriteFrame, WriteOne
  <2>14. ASSUME NEW s \in Sockets, WriteFails(s) PROVE ToldOf(r)'
    BY <2>14 DEF WriteFails
  <2>15. ASSUME NEW s \in Sockets, FailRecords(s) PROVE ToldOf(r)'
    BY <2>15 DEF FailRecords, RecordCloseReason
  <2>16. ASSUME NEW s \in Sockets, FailCloses(s) PROVE ToldOf(r)'
    BY <2>16 DEF FailCloses, CloseSink
  <2>17. ASSUME NEW s \in Sockets, SeesDone(s) PROVE ToldOf(r)'
    BY <2>17 DEF SeesDone
  <2>18. ASSUME NEW s \in Sockets, FlushOne(s) PROVE ToldOf(r)'
    BY <2>18 DEF FlushOne, WriteOne, MayFlush
  <2>19. ASSUME NEW s \in Sockets, SaysGoodbye(s) PROVE ToldOf(r)'
    BY <2>19 DEF SaysGoodbye, MayFlush
  <2>20. ASSUME NEW s \in Sockets, WriterEnds(s) PROVE ToldOf(r)'
    BY <2>20 DEF WriterEnds
  <2>21. ASSUME NEW s \in Sockets, TerminateOne(s) PROVE ToldOf(r)'
    BY <2>21 DEF TerminateOne, CloseSink
  <2>22. ASSUME NEW s \in Sockets, Admit(s) PROVE ToldOf(r)'
    BY <2>22 DEF Admit
  <2>23. ASSUME NEW s \in Sockets, Lose(s) PROVE ToldOf(r)'
    BY <2>23 DEF Lose
  <2>24. ASSUME NEW s \in Sockets, NEW why \in {"client", "timeout", "error"}, ReadKnown(s, why)
         PROVE  ToldOf(r)'
    BY <2>24 DEF ReadKnown
  <2>25. ASSUME NEW s \in Sockets, NEW c \in Callers, SendBegins(c, s) PROVE ToldOf(r)'
    BY <2>25 DEF SendBegins
  <2>26. ASSUME NEW c \in Callers, SendOffers(c) PROVE ToldOf(r)'
    BY <2>26 DEF SendOffers
  <2>27. ASSUME NEW c \in Callers, SendRecords(c) PROVE ToldOf(r)'
    BY <2>27 DEF SendRecords, RecordCloseReason
  <2>28. ASSUME NEW c \in Callers, SendCloses(c) PROVE ToldOf(r)'
    BY <2>28 DEF SendCloses, CloseSink, CallOf
  <2>29. ASSUME NEW t \in Tenants, NEW subject \in Subjects, Terminate(t, subject) PROVE ToldOf(r)'
    BY <2>29 DEF Terminate
  <2>30. ASSUME Close PROVE ToldOf(r)'
    BY <2>30 DEF Close
  <2> HIDE DEF IInv, TypeOK, ToldOf, LifeOf, FlushOf
  <2> QED
    BY <1>1, <2>1, <2>2, <2>3, <2>4, <2>5, <2>6, <2>7, <2>8, <2>9, <2>10, <2>11, <2>12, <2>13,
       <2>14, <2>15, <2>16, <2>17, <2>18, <2>19, <2>20, <2>21, <2>22, <2>23, <2>24, <2>25,
       <2>26, <2>27, <2>28, <2>29, <2>30 DEF Next, Reader, Writer, Environment, Sending,
       Operator
<1>2. CASE UNCHANGED vars
  BY <1>2 DEF vars
<1> QED
  BY <1>1, <1>2

\* The reason of a socket's end is the right one wherever it is kept: in the
\* registry, in the reader's variable, or still to be recorded.
LEMMA ReasonStep == IInv /\ [Next]_vars => \A r \in Sockets : ReasonOf(r)'
<1> SUFFICES ASSUME IInv, [Next]_vars, NEW r \in Sockets PROVE ReasonOf(r)'
  BY DEF TypeOK
<1> USE ServerAssumption DEF IInv, TypeOK, Read, Write, serverVars, readerVars, writerVars,
   ghosts, Reasons, ReasonOf, Ours, Theirs, LifeOf, Registered, Private, Unlisted, Early, Explained
<1>1. CASE Next
  <2>1. ASSUME NEW s \in Sockets, RefuseHandshake(s) PROVE ReasonOf(r)'
    BY <2>1 DEF RefuseHandshake
  <2>2. ASSUME NEW s \in Sockets, Upgrade(s) PROVE ReasonOf(r)'
    BY <2>2 DEF Upgrade
  <2>3. ASSUME NEW s \in Sockets, Register(s) PROVE ReasonOf(r)'
    BY <2>3 DEF Register
  <2>4. ASSUME NEW s \in Sockets, TellRefusal(s) PROVE ReasonOf(r)'
    BY <2>4 DEF TellRefusal, OwnSend
  <2>5. ASSUME NEW s \in Sockets, AnnounceRefusal(s) PROVE ReasonOf(r)'
    BY <2>5 DEF AnnounceRefusal, ConnectionClosed
  <2>6. ASSUME NEW s \in Sockets, ConnectionOpened(s) PROVE ReasonOf(r)'
    BY <2>6 DEF ConnectionOpened
  <2>7. ASSUME NEW s \in Sockets, OpenProtocol(s) PROVE ReasonOf(r)'
    BY <2>7 DEF OpenProtocol, OwnSend
  <2>8. ASSUME NEW s \in Sockets, ReadTransport(s) PROVE ReasonOf(r)'
    BY <2>8 DEF ReadTransport
  <2>9. ASSUME NEW s \in Sockets, RecordReadCloseReason(s) PROVE ReasonOf(r)'
    BY <2>9 DEF RecordReadCloseReason
  <2>10. ASSUME NEW s \in Sockets, Unregister(s) PROVE ReasonOf(r)'
    BY <2>10 DEF Unregister
  <2>11. ASSUME NEW s \in Sockets, AnnounceClosed(s) PROVE ReasonOf(r)'
    BY <2>11 DEF AnnounceClosed, ConnectionClosed
  <2>12. ASSUME NEW s \in Sockets, ReaderEnds(s) PROVE ReasonOf(r)'
    BY <2>12 DEF ReaderEnds, CloseSink
  <2>13. ASSUME NEW s \in Sockets, WriteFrame(s) PROVE ReasonOf(r)'
    BY <2>13 DEF WriteFrame, WriteOne
  <2>14. ASSUME NEW s \in Sockets, WriteFails(s) PROVE ReasonOf(r)'
    BY <2>14 DEF WriteFails
  <2>15. ASSUME NEW s \in Sockets, FailRecords(s) PROVE ReasonOf(r)'
    BY <2>15 DEF FailRecords, RecordCloseReason
  <2>16. ASSUME NEW s \in Sockets, FailCloses(s) PROVE ReasonOf(r)'
    BY <2>16 DEF FailCloses, CloseSink
  <2>17. ASSUME NEW s \in Sockets, SeesDone(s) PROVE ReasonOf(r)'
    BY <2>17 DEF SeesDone
  <2>18. ASSUME NEW s \in Sockets, FlushOne(s) PROVE ReasonOf(r)'
    BY <2>18 DEF FlushOne, WriteOne, MayFlush
  <2>19. ASSUME NEW s \in Sockets, SaysGoodbye(s) PROVE ReasonOf(r)'
    BY <2>19 DEF SaysGoodbye, MayFlush
  <2>20. ASSUME NEW s \in Sockets, WriterEnds(s) PROVE ReasonOf(r)'
    BY <2>20 DEF WriterEnds
  <2>21. ASSUME NEW s \in Sockets, TerminateOne(s) PROVE ReasonOf(r)'
    BY <2>21 DEF TerminateOne, CloseSink
  <2>22. ASSUME NEW s \in Sockets, Admit(s) PROVE ReasonOf(r)'
    BY <2>22 DEF Admit
  <2>23. ASSUME NEW s \in Sockets, Lose(s) PROVE ReasonOf(r)'
    BY <2>23 DEF Lose
  <2>24. ASSUME NEW s \in Sockets, NEW why \in {"client", "timeout", "error"}, ReadKnown(s, why)
         PROVE  ReasonOf(r)'
    BY <2>24 DEF ReadKnown
  <2>25. ASSUME NEW s \in Sockets, NEW c \in Callers, SendBegins(c, s) PROVE ReasonOf(r)'
    BY <2>25 DEF SendBegins
  <2>26. ASSUME NEW c \in Callers, SendOffers(c) PROVE ReasonOf(r)'
    BY <2>26 DEF SendOffers
  <2>27. ASSUME NEW c \in Callers, SendRecords(c) PROVE ReasonOf(r)'
    BY <2>27 DEF SendRecords, RecordCloseReason
  <2>28. ASSUME NEW c \in Callers, SendCloses(c) PROVE ReasonOf(r)'
    BY <2>28 DEF SendCloses, CloseSink
  <2>29. ASSUME NEW t \in Tenants, NEW subject \in Subjects, Terminate(t, subject)
         PROVE  ReasonOf(r)'
    BY <2>29 DEF Terminate
  <2>30. ASSUME Close PROVE ReasonOf(r)'
    BY <2>30 DEF Close
  <2> HIDE DEF IInv, TypeOK, ReasonOf, LifeOf
  <2> QED
    BY <1>1, <2>1, <2>2, <2>3, <2>4, <2>5, <2>6, <2>7, <2>8, <2>9, <2>10, <2>11, <2>12, <2>13,
       <2>14, <2>15, <2>16, <2>17, <2>18, <2>19, <2>20, <2>21, <2>22, <2>23, <2>24, <2>25,
       <2>26, <2>27, <2>28, <2>29, <2>30 DEF Next, Reader, Writer, Environment, Sending,
       Operator
<1>2. CASE UNCHANGED vars
  BY <1>2 DEF vars
<1> QED
  BY <1>1, <1>2

\* A Send that is about to close a socket has recorded why.
LEMMA CallStep == IInv /\ [Next]_vars => \A d \in Callers : CallOf(d)'
<1> SUFFICES ASSUME IInv, [Next]_vars, NEW d \in Callers PROVE CallOf(d)'
  BY DEF TypeOK
<1> USE ServerAssumption DEF IInv, TypeOK, Read, Write, serverVars, readerVars, writerVars,
   ghosts, CallOf, Reasons, Idle, ReasonOf, LifeOf, Private, Registered
<1>1. CASE Next
  <2>1. ASSUME NEW s \in Sockets, RefuseHandshake(s) PROVE CallOf(d)'
    BY <2>1 DEF RefuseHandshake
  <2>2. ASSUME NEW s \in Sockets, Upgrade(s) PROVE CallOf(d)'
    BY <2>2 DEF Upgrade
  <2>3. ASSUME NEW s \in Sockets, Register(s) PROVE CallOf(d)'
    BY <2>3 DEF Register
  <2>4. ASSUME NEW s \in Sockets, TellRefusal(s) PROVE CallOf(d)'
    BY <2>4 DEF TellRefusal, OwnSend
  <2>5. ASSUME NEW s \in Sockets, AnnounceRefusal(s) PROVE CallOf(d)'
    BY <2>5 DEF AnnounceRefusal, ConnectionClosed
  <2>6. ASSUME NEW s \in Sockets, ConnectionOpened(s) PROVE CallOf(d)'
    BY <2>6 DEF ConnectionOpened
  <2>7. ASSUME NEW s \in Sockets, OpenProtocol(s) PROVE CallOf(d)'
    BY <2>7 DEF OpenProtocol, OwnSend
  <2>8. ASSUME NEW s \in Sockets, ReadTransport(s) PROVE CallOf(d)'
    BY <2>8 DEF ReadTransport
  <2>9. ASSUME NEW s \in Sockets, RecordReadCloseReason(s) PROVE CallOf(d)'
    BY <2>9 DEF RecordReadCloseReason
  <2>10. ASSUME NEW s \in Sockets, Unregister(s) PROVE CallOf(d)'
    BY <2>10 DEF Unregister
  <2>11. ASSUME NEW s \in Sockets, AnnounceClosed(s) PROVE CallOf(d)'
    BY <2>11 DEF AnnounceClosed, ConnectionClosed
  <2>12. ASSUME NEW s \in Sockets, ReaderEnds(s) PROVE CallOf(d)'
    BY <2>12 DEF ReaderEnds, CloseSink
  <2>13. ASSUME NEW s \in Sockets, WriteFrame(s) PROVE CallOf(d)'
    BY <2>13 DEF WriteFrame, WriteOne
  <2>14. ASSUME NEW s \in Sockets, WriteFails(s) PROVE CallOf(d)'
    BY <2>14 DEF WriteFails
  <2>15. ASSUME NEW s \in Sockets, FailRecords(s) PROVE CallOf(d)'
    BY <2>15 DEF FailRecords, RecordCloseReason
  <2>16. ASSUME NEW s \in Sockets, FailCloses(s) PROVE CallOf(d)'
    BY <2>16 DEF FailCloses, CloseSink
  <2>17. ASSUME NEW s \in Sockets, SeesDone(s) PROVE CallOf(d)'
    BY <2>17 DEF SeesDone
  <2>18. ASSUME NEW s \in Sockets, FlushOne(s) PROVE CallOf(d)'
    BY <2>18 DEF FlushOne, WriteOne, MayFlush
  <2>19. ASSUME NEW s \in Sockets, SaysGoodbye(s) PROVE CallOf(d)'
    BY <2>19 DEF SaysGoodbye, MayFlush
  <2>20. ASSUME NEW s \in Sockets, WriterEnds(s) PROVE CallOf(d)'
    BY <2>20 DEF WriterEnds
  <2>21. ASSUME NEW s \in Sockets, TerminateOne(s) PROVE CallOf(d)'
    BY <2>21 DEF TerminateOne, CloseSink
  <2>22. ASSUME NEW s \in Sockets, Admit(s) PROVE CallOf(d)'
    BY <2>22 DEF Admit
  <2>23. ASSUME NEW s \in Sockets, Lose(s) PROVE CallOf(d)'
    BY <2>23 DEF Lose
  <2>24. ASSUME NEW s \in Sockets, NEW why \in {"client", "timeout", "error"}, ReadKnown(s, why)
         PROVE  CallOf(d)'
    BY <2>24 DEF ReadKnown
  <2>25. ASSUME NEW s \in Sockets, NEW c \in Callers, SendBegins(c, s) PROVE CallOf(d)'
    BY <2>25 DEF SendBegins
  <2>26. ASSUME NEW c \in Callers, SendOffers(c) PROVE CallOf(d)'
    <3>1. CASE d # c
      BY <2>26, <3>1 DEF SendOffers
    <3>2. CASE d = c
      BY <2>26, <3>2 DEF SendOffers
    <3> QED
      BY <3>1, <3>2
  <2>27. ASSUME NEW c \in Callers, SendRecords(c) PROVE CallOf(d)'
    BY <2>27 DEF SendRecords, RecordCloseReason
  <2>28. ASSUME NEW c \in Callers, SendCloses(c) PROVE CallOf(d)'
    BY <2>28 DEF SendCloses, CloseSink
  <2>29. ASSUME NEW t \in Tenants, NEW subject \in Subjects, Terminate(t, subject) PROVE CallOf(d)'
    BY <2>29 DEF Terminate
  <2>30. ASSUME Close PROVE CallOf(d)'
    BY <2>30 DEF Close
  <2> HIDE DEF IInv, TypeOK, CallOf, ReasonOf, LifeOf
  <2> QED
    BY <1>1, <2>1, <2>2, <2>3, <2>4, <2>5, <2>6, <2>7, <2>8, <2>9, <2>10, <2>11, <2>12, <2>13,
       <2>14, <2>15, <2>16, <2>17, <2>18, <2>19, <2>20, <2>21, <2>22, <2>23, <2>24, <2>25,
       <2>26, <2>27, <2>28, <2>29, <2>30 DEF Next, Reader, Writer, Environment, Sending,
       Operator
<1>2. CASE UNCHANGED vars
  BY <1>2 DEF vars
<1> QED
  BY <1>1, <1>2

\* The invariant is inductive: it holds in every reachable state.
LEMMA Inductive == Spec => []IInv
<1>1. IInv /\ [Next]_vars => IInv'
  BY TypeStep, LifeStep, FlushStep, ToldStep, ReasonStep, CallStep DEF IInv
<1> QED
  BY InitIInv, <1>1, PTL DEF Spec

-----------------------------------------------------------------------------
(* The counts                                                              *)

\* Sockets are finitely many, and so is every part of them.
LEMMA Countable ==
    ASSUME NEW S \in SUBSET Sockets
    PROVE  IsFiniteSet(S) /\ Cardinality(S) \in Nat
BY ServerAssumption, FS_Subset, FS_CardinalityType

\* Only register and unregister touch the registry and its counts.
LEMMA RegistryTouched ==
    [Next]_vars =>
        \/ \E s \in Sockets : Register(s) \/ Unregister(s)
        \/ UNCHANGED <<conns, perTenant>>
<1> USE DEF Read, Write, serverVars, readerVars, writerVars, ghosts
<1> SUFFICES ASSUME Next PROVE \/ \E s \in Sockets : Register(s) \/ Unregister(s)
                               \/ UNCHANGED <<conns, perTenant>>
  BY DEF vars
<1>1. ASSUME NEW s \in Sockets, Reader(s), ~Register(s), ~Unregister(s)
      PROVE  UNCHANGED <<conns, perTenant>>
  BY <1>1 DEF Reader, RefuseHandshake, Upgrade, TellRefusal, AnnounceRefusal, ConnectionOpened,
              OpenProtocol, ReadTransport, RecordReadCloseReason, AnnounceClosed, ReaderEnds
<1>2. ASSUME NEW s \in Sockets, Writer(s) \/ TerminateOne(s)
      PROVE  UNCHANGED <<conns, perTenant>>
  BY <1>2 DEF Writer, TerminateOne, WriteFrame, WriteFails, FailRecords, FailCloses, SeesDone,
              FlushOne, SaysGoodbye, WriterEnds
<1>3. ASSUME NEW s \in Sockets, Environment(s) PROVE UNCHANGED <<conns, perTenant>>
  BY <1>3 DEF Environment, Admit, Lose, ReadKnown, SendBegins
<1>4. ASSUME NEW c \in Callers, Sending(c) PROVE UNCHANGED <<conns, perTenant>>
  BY <1>4 DEF Sending, SendOffers, SendRecords, SendCloses
<1>5. ASSUME Operator PROVE UNCHANGED <<conns, perTenant>>
  BY <1>5 DEF Operator, Terminate, Close
<1> QED
  BY <1>1, <1>2, <1>3, <1>4, <1>5 DEF Next

\* register and unregister keep the count equal to the registry and within the
\* limit: the check and the insert are one critical section.
LEMMA RegistryStep ==
    IInv /\ RegistryExact /\ WithinLimit /\ [Next]_vars => RegistryExact' /\ WithinLimit'
<1> SUFFICES ASSUME IInv, RegistryExact, WithinLimit, [Next]_vars
             PROVE  RegistryExact' /\ WithinLimit'
  OBVIOUS
<1> DEFINE Of(t) == {r \in conns : TenantOf[r] = t}
           Limit(n) == MaxConnections > 0 => n <= MaxConnections
<1>0. SUFFICES ASSUME NEW t \in Tenants
               PROVE  perTenant'[t] = Cardinality(Of(t)') /\ Limit(perTenant'[t])
  BY DEF RegistryExact, WithinLimit, Connections
<1>1. /\ conns \in SUBSET Sockets
      /\ perTenant \in [Tenants -> Nat]
      /\ TenantOf \in [Sockets -> Tenants]
      /\ MaxConnections \in Nat
  BY ServerAssumption DEF IInv, TypeOK
<1>2. perTenant[t] = Cardinality(Of(t)) /\ Limit(perTenant[t])
  BY DEF RegistryExact, WithinLimit, Connections
<1>3. IsFiniteSet(Of(t)) /\ Cardinality(Of(t)) \in Nat
  BY <1>1, Countable
<1>4. CASE UNCHANGED <<conns, perTenant>>
  BY <1>2, <1>4
<1>5. ASSUME NEW s \in Sockets, Register(s)
      PROVE  perTenant'[t] = Cardinality(Of(t)') /\ Limit(perTenant'[t])
  <2>1. CASE UNCHANGED <<conns, perTenant>>
    BY <1>2, <2>1
  <2>2. CASE /\ ~AtLimit(TenantOf[s])
             /\ conns' = conns \union {s}
             /\ perTenant' = [perTenant EXCEPT ![TenantOf[s]] = @ + 1]
    <3>1. s \notin conns
      BY <1>5 DEF Register, IInv, LifeOf, Registered
    <3>2. CASE TenantOf[s] = t
      <4>1. Of(t)' = Of(t) \union {s} /\ s \notin Of(t)
        BY <1>1, <2>2, <3>1, <3>2
      <4>2. Cardinality(Of(t)') = Cardinality(Of(t)) + 1
        BY <1>3, <4>1, FS_AddElement
      <4>3. perTenant'[t] = perTenant[t] + 1
        BY <1>1, <2>2, <3>2
      <4>4. Limit(perTenant[t] + 1)
        BY <1>1, <2>2, <3>2 DEF AtLimit
      <4> QED
        BY <1>2, <4>2, <4>3, <4>4
    <3>3. CASE TenantOf[s] # t
      <4>1. Of(t)' = Of(t)
        BY <1>1, <2>2, <3>3
      <4>2. perTenant'[t] = perTenant[t]
        BY <1>1, <2>2, <3>3
      <4> QED
        BY <1>2, <4>1, <4>2
    <3> QED
      BY <3>2, <3>3
  <2> QED
    BY <1>5, <2>1, <2>2 DEF Register
<1>6. ASSUME NEW s \in Sockets, Unregister(s)
      PROVE  perTenant'[t] = Cardinality(Of(t)') /\ Limit(perTenant'[t])
  <2>1. s \in conns /\ conns' = conns \ {s}
    BY <1>6 DEF Unregister, IInv, LifeOf, Registered
  <2>2. perTenant' = [perTenant EXCEPT ![TenantOf[s]] = IF @ <= 1 THEN 0 ELSE @ - 1]
    BY <1>6, <2>1 DEF Unregister
  <2>3. CASE TenantOf[s] = t
    <3>1. Of(t)' = Of(t) \ {s} /\ s \in Of(t)
      BY <1>1, <2>1, <2>3
    <3>0. Cardinality(Of(t) \ {s}) = Cardinality(Of(t)) - 1
      <4> HIDE DEF Of
      <4> QED
        BY <1>3, <3>1, FS_RemoveElement
    <3>2. Cardinality(Of(t)') = Cardinality(Of(t)) - 1
      BY <3>0, <3>1
    <3>3. Cardinality(Of(t)') \in Nat
      BY <1>1, <2>1, Countable, Of(t)' \in SUBSET Sockets
    <3>4. perTenant'[t] = perTenant[t] - 1
      BY <1>1, <1>2, <2>2, <2>3, <3>2, <3>3
    <3> QED
      BY <1>1, <1>2, <3>2, <3>4
  <2>4. CASE TenantOf[s] # t
    <3>1. Of(t)' = Of(t)
      BY <1>1, <2>1, <2>4
    <3>2. perTenant'[t] = perTenant[t]
      BY <1>1, <2>2, <2>4
    <3> QED
      BY <1>2, <3>1, <3>2
  <2> QED
    BY <2>3, <2>4
<1> QED
  BY <1>4, <1>5, <1>6, RegistryTouched

-----------------------------------------------------------------------------
(* The observer's count                                                    *)

\* The stages between ConnectionOpened and ConnectionClosed.
Announcing == {"opening", "reading", "recording", "unregistering", "announcing"}

\* A step other than these three moves nobody in or out of the announced sockets.
LEMMA AnnouncedTouched ==
    IInv /\ [Next]_vars =>
        \/ \E s \in Sockets : ConnectionOpened(s) \/ AnnounceClosed(s) \/ AnnounceRefusal(s)
        \/ /\ connections' = connections
           /\ \A r \in Sockets : reader'[r] \in Announcing <=> reader[r] \in Announcing
<1> USE DEF Read, Write, serverVars, readerVars, writerVars, ghosts, Announcing
<1> DEFINE Still == /\ connections' = connections
                    /\ \A r \in Sockets : reader'[r] \in Announcing <=> reader[r] \in Announcing
<1> SUFFICES ASSUME IInv, Next,

                       \A s \in Sockets : ~(ConnectionOpened(s) \/ AnnounceClosed(s) \/ AnnounceRefusal(s))
             PROVE  Still
  BY DEF vars
<1>0. reader \in [Sockets -> ReaderStages]
  BY DEF IInv, TypeOK
<1>1. ASSUME NEW s \in Sockets, Reader(s) PROVE Still
  BY <1>0, <1>1 DEF Reader, RefuseHandshake, Upgrade, Register, TellRefusal, OpenProtocol,
              ReadTransport, RecordReadCloseReason, Unregister, ReaderEnds
<1>2. ASSUME NEW s \in Sockets, Writer(s) \/ TerminateOne(s) PROVE Still
  BY <1>2 DEF Writer, TerminateOne, WriteFrame, WriteFails, FailRecords, FailCloses, SeesDone,
              FlushOne, SaysGoodbye, WriterEnds
<1>3. ASSUME NEW s \in Sockets, Environment(s) PROVE Still
  BY <1>0, <1>3 DEF Environment, Admit, Lose, ReadKnown, SendBegins
<1>4. ASSUME NEW c \in Callers, Sending(c) PROVE Still
  BY <1>4 DEF Sending, SendOffers, SendRecords, SendCloses
<1>5. ASSUME Operator PROVE Still
  BY <1>5 DEF Operator, Terminate, Close
<1> QED
  BY <1>1, <1>2, <1>3, <1>4, <1>5 DEF Next

\* The observer's count stays at or below the announced sockets.
LEMMA PhantomStep == IInv /\ NoPhantomConnection /\ [Next]_vars => NoPhantomConnection'
<1> SUFFICES ASSUME IInv, NoPhantomConnection, [Next]_vars, NEW t \in Tenants
             PROVE  connections'[t] <= Cardinality(Announced(t)')
  BY DEF NoPhantomConnection
<1>1. /\ connections \in [Tenants -> Nat]
      /\ reader \in [Sockets -> ReaderStages]
      /\ TenantOf \in [Sockets -> Tenants]
  BY ServerAssumption DEF IInv, TypeOK
<1>2. connections[t] <= Cardinality(Announced(t))
  BY DEF NoPhantomConnection
<1>3. IsFiniteSet(Announced(t)) /\ Cardinality(Announced(t)) \in Nat
  BY Countable, Announced(t) \in SUBSET Sockets DEF Announced
<1>4. ASSUME connections' = connections,
             \A r \in Sockets : reader'[r] \in Announcing <=> reader[r] \in Announcing
      PROVE  connections'[t] <= Cardinality(Announced(t)')
  <2>1. Announced(t)' = Announced(t)
    BY <1>4 DEF Announced, Announcing
  <2> QED
    BY <1>2, <1>4, <2>1
<1>5. ASSUME NEW s \in Sockets, ConnectionOpened(s)
      PROVE  connections'[t] <= Cardinality(Announced(t)')
  <2>1. CASE TenantOf[s] = t
    <3>1. Announced(t)' = Announced(t) \union {s} /\ s \notin Announced(t)
      BY <1>1, <1>5, <2>1 DEF ConnectionOpened, Announced, Read
    <3>2. Cardinality(Announced(t)') = Cardinality(Announced(t)) + 1
      BY <1>3, <3>1, FS_AddElement
    <3>3. connections'[t] = connections[t] + 1
      BY <1>1, <1>5, <2>1 DEF ConnectionOpened
    <3> QED
      BY <1>1, <1>2, <1>3, <3>2, <3>3
  <2>2. CASE TenantOf[s] # t
    <3>1. Announced(t)' = Announced(t)
      BY <1>1, <1>5, <2>2 DEF ConnectionOpened, Announced, Read
    <3>2. connections'[t] = connections[t]
      BY <1>1, <1>5, <2>2 DEF ConnectionOpened
    <3> QED
      BY <1>2, <3>1, <3>2
  <2> QED
    BY <2>1, <2>2
<1>6. ASSUME NEW s \in Sockets, AnnounceClosed(s)
      PROVE  connections'[t] <= Cardinality(Announced(t)')
  <2>1. CASE TenantOf[s] = t
    <3>1. Announced(t)' = Announced(t) \ {s} /\ s \in Announced(t)
      BY <1>1, <1>6, <2>1 DEF AnnounceClosed, Announced, Read
    <3>2. Cardinality(Announced(t) \ {s}) = Cardinality(Announced(t)) - 1
      BY <1>3, <3>1, FS_RemoveElement
    <3>3. Announced(t)' \in SUBSET Sockets
      BY <3>1 DEF Announced
    <3>4. Cardinality(Announced(t)') \in Nat
      BY <3>3, Countable
    <3>5. connections'[t] = IF connections[t] > 0 THEN connections[t] - 1 ELSE 0
      BY <1>1, <1>6, <2>1 DEF AnnounceClosed, ConnectionClosed
    <3> QED
      BY <1>1, <1>2, <1>3, <3>1, <3>2, <3>4, <3>5
  <2>2. CASE TenantOf[s] # t
    <3>1. Announced(t)' = Announced(t)
      BY <1>1, <1>6, <2>2 DEF AnnounceClosed, Announced, Read
    <3>2. connections'[t] = connections[t]
      BY <1>1, <1>6, <2>2 DEF AnnounceClosed, ConnectionClosed
    <3> QED
      BY <1>2, <3>1, <3>2
  <2> QED
    BY <2>1, <2>2
<1>7. ASSUME NEW s \in Sockets, AnnounceRefusal(s)
      PROVE  connections'[t] <= Cardinality(Announced(t)')
  <2>1. Announced(t)' = Announced(t)
    BY <1>1, <1>7 DEF AnnounceRefusal, Announced, Read
  <2>2. connections'[t] <= connections[t] /\ connections'[t] \in Nat
    BY <1>1, <1>7 DEF AnnounceRefusal, ConnectionClosed
  <2> QED
    BY <1>1, <1>2, <1>3, <2>1, <2>2
<1> QED
  BY <1>4, <1>5, <1>6, <1>7, AnnouncedTouched

-----------------------------------------------------------------------------
(* The theorems                                                            *)

\* Types, the registry, its limit and the observer's count (Server.register,
\* Server.unregister, Counter): perTenant is the number of registered sockets, no
\* tenant is over its limit, and the observer never reports a socket that has gone.
THEOREM RegistryHolds == Spec => []RegistrySound
<1> DEFINE Counts == IInv /\ RegistryExact /\ WithinLimit /\ NoPhantomConnection
<1>1. Init => Counts
  <2> SUFFICES ASSUME Init, NEW t \in Tenants
               PROVE  /\ perTenant[t] = Connections(t)
                      /\ MaxConnections > 0 => Connections(t) <= MaxConnections
                      /\ connections[t] <= Cardinality(Announced(t))
    BY InitIInv DEF RegistryExact, WithinLimit, NoPhantomConnection
  <2>1. {s \in conns : TenantOf[s] = t} = {} /\ Announced(t) = {}
    BY DEF Init, Announced
  <2> QED
    BY <2>1, FS_EmptySet, ServerAssumption DEF Init, Connections
<1>2. Counts /\ [Next]_vars => Counts'
  BY RegistryStep, PhantomStep, TypeStep, LifeStep, FlushStep, ToldStep, ReasonStep,
     CallStep DEF IInv
<1>3. Counts => RegistrySound
  BY DEF RegistrySound, IInv
<1> QED
  BY <1>1, <1>2, <1>3, PTL DEF Spec

\* A close reason is kept for a registered socket only, and none replaces the one
\* Server.Close gave (recordCloseReason, recordReadCloseReason, unregister).
THEOREM ReasonsStandAlways == Spec => []ReasonsStand
<1>1. IInv => ReasonsStand
  BY DEF IInv, TypeOK, ReasonOf, ReasonsStand, NoStaleReason, ShutdownStands
<1> QED
  BY <1>1, Inductive, PTL

\* The reason given to the observer is what an unprompted read error said or the
\* server's own decision, and "client" only when the client or the network ended the
\* socket, or when the client had fallen behind and answered the close that ended it,
\* in whatever order the goroutines noticed.
THEOREM ReasonReported == Spec => []ReasonTrue
<1>1. IInv => ReasonTrue
  BY DEF IInv, ReasonOf, Theirs, ReasonTrue, KnownReasonStands, ClientMeansClient
<1> QED
  BY <1>1, Inductive, PTL

\* A socket over the limit that gets a close frame has been sent its refusal
\* before it (handleSocket, sink.flush).
THEOREM RefusalsTold == Spec => []RefusalTold
<1>1. IInv => RefusalTold
  BY DEF IInv, TypeOK, FlushOf, ToldOf, RefusalTold, Goodbye
<1> QED
  BY <1>1, Inductive, PTL

\* Every frame in the queue when the sink closed is written before the close frame
\* on a connection that works: sink.flush's bound of one queue is enough.
THEOREM FlushPrecedesGoodbye == Spec => []FlushedBeforeGoodbye
<1>1. IInv => FlushedBeforeGoodbye
  BY DEF IInv, FlushOf, FlushedBeforeGoodbye
<1> QED
  BY <1>1, Inductive, PTL
=============================================================================
