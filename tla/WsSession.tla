------------------------------ MODULE WsSession ------------------------------
(***************************************************************************)
(* One WebSocket connection of the server (websocket/ws_server.cpp): the   *)
(* class WsSession between its start and its release.                      *)
(*                                                                         *)
(* Everything asynchronous has three moments: the session starts an        *)
(* operation ("pending"); the network or the clock completes it ("ok" or   *)
(* "error"), which queues its handler; the handler runs and the operation  *)
(* is "idle", or started again.  Handlers and calls from the host run on   *)
(* one thread, but in any order the completions allow: between completion  *)
(* and handler others may run, cancel what is pending and close the        *)
(* socket.  What is queued already keeps its result.                       *)
(*                                                                         *)
(* Outgoing messages are numbered: 0 is the initial Hello, n the n-th      *)
(* world state the host broadcast.  Incoming frames are "hello" (a binary  *)
(* frame the host accepts as Hello), "binary" (any other) and "text".      *)
(***************************************************************************)
EXTENDS Integers, Sequences

CONSTANTS
    MaxQueue,      \* the write in progress and one pending update
    MaxStates      \* bound on the broadcasts of a run

ASSUME SessionAssumption ==
    MaxQueue \in Nat /\ MaxQueue >= 2 /\ MaxStates \in Nat

VARIABLES
    accept, read, write, close,  \* the four operations of the stream
    timer,                       \* close_timer_
    frame,                       \* what a completed read delivered
    queue,                       \* write_queue_
    handshakeComplete, applicationReady, writeInProgress,
    closeRequested, closed,
    broadcasts,                  \* history: world states broadcast so far
    sent,                        \* history: messages written, in order
    lateFrames                   \* history: frames given to the host after
                                 \* the session was closing or closed

operations == <<accept, read, write, close, timer>>
flags == << handshakeComplete, applicationReady, writeInProgress,
            closeRequested, closed >>
history == <<broadcasts, sent, lateFrames>>
sessionVars == <<operations, frame, queue, flags, history>>

OpStates == {"idle", "pending", "ok", "error"}
Completed == {"ok", "error"}
FrameKinds == {"hello", "binary", "text"}

\* start() has called async_accept.
SessionInit ==
    /\ accept = "pending"
    /\ read = "idle" /\ write = "idle" /\ close = "idle" /\ timer = "idle"
    /\ frame = "text"
    /\ queue = <<>>
    /\ handshakeComplete = FALSE /\ applicationReady = FALSE
    /\ writeInProgress = FALSE
    /\ closeRequested = FALSE /\ closed = FALSE
    /\ broadcasts = 0 /\ sent = <<>> /\ lateFrames = 0

-----------------------------------------------------------------------------
(* The network and the clock complete what is pending.                     *)

AcceptCompletes ==
    /\ accept = "pending"
    /\ accept' \in Completed
    /\ UNCHANGED <<read, write, close, timer, frame, queue, flags, history>>

ReadCompletes ==
    /\ read = "pending"
    /\ read' \in Completed
    /\ frame' \in IF read' = "ok" THEN FrameKinds ELSE {frame}
    /\ UNCHANGED <<accept, write, close, timer, queue, flags, history>>

WriteCompletes ==
    /\ write = "pending"
    /\ write' \in Completed
    /\ sent' = IF write' = "ok" THEN Append(sent, queue[1]) ELSE sent
    /\ UNCHANGED << accept, read, close, timer, frame, queue, flags,
                    broadcasts, lateFrames >>

\* The close handshake is over, and a read that waits fails with it.
CloseCompletes ==
    /\ close = "pending"
    /\ close' \in Completed
    /\ read' = IF read = "pending" THEN "error" ELSE read
    /\ UNCHANGED <<accept, write, timer, frame, queue, flags, history>>

TimerExpires ==
    /\ timer = "pending"
    /\ timer' = "ok"
    /\ UNCHANGED <<accept, read, write, close, frame, queue, flags, history>>

-----------------------------------------------------------------------------
(* What handlers and calls have in common.                                 *)

\* cancel() of the timer, or cancel(), shutdown() and close() of the socket:
\* an operation that waits is aborted.
Aborted(op) == IF op = "pending" THEN "error" ELSE op

\* A read started on a closed socket, or on a stream that has completed its
\* close handshake, fails at once.
Started == IF closed \/ close \in Completed THEN "error" ELSE "pending"

\* The message that owns the buffer of async_write must stay in the queue.
KeepFront(q) == SubSeq(q, 1, 1)

\* send_initial_binary() of an open session after the handshake.  Latest
\* wins: a pending update is replaced.
Send(q, msg) ==
    /\ queue' = IF writeInProgress /\ Len(q) >= MaxQueue
                  THEN [q EXCEPT ![Len(q)] = msg]
                  ELSE Append(q, msg)
    /\ writeInProgress' = TRUE
    /\ write' = IF writeInProgress THEN write ELSE "pending"

\* Mutant of StartClose: the close frame does not wait for a running write.
StartCloseAtOnce(writing) == close' = IF closed THEN close ELSE "pending"

\* do_close(): nothing while a write is in progress, whose handler will call
\* it again.
StartClose(writing) ==
    close' = IF closed \/ writing THEN close ELSE "pending"

\* close(), leaving the read operation in state r.
RequestClose(r) ==
    \/ /\ closed \/ closeRequested
       /\ read' = r
       /\ UNCHANGED << accept, write, close, timer, queue, closeRequested,
                       closed >>
    \/ /\ ~closed /\ ~closeRequested /\ ~handshakeComplete
       /\ closeRequested' = TRUE
       /\ closed' = TRUE
       /\ accept' = Aborted(accept)
       /\ queue' = <<>>
       /\ read' = r
       /\ UNCHANGED <<write, close, timer>>
    \/ /\ ~closed /\ ~closeRequested /\ handshakeComplete
       /\ closeRequested' = TRUE
       /\ timer' = "pending"
       /\ read' = r
       /\ queue' = IF writeInProgress THEN KeepFront(queue) ELSE <<>>
       /\ StartClose(writeInProgress)
       /\ UNCHANGED <<accept, write, closed>>

\* Mutant of ForceClosedQueue: the queue is dropped whatever is running.
ForceClosedQueueEmpty == <<>>

\* The queue force_close() leaves: a write that completed already has its
\* handler queued, and that handler takes the front entry.
ForceClosedQueue == IF writeInProgress THEN KeepFront(queue) ELSE <<>>

-----------------------------------------------------------------------------
(* The handlers.                                                           *)

OnAccept ==
    /\ accept \in Completed
    /\ accept' = "idle"
    /\ \/ /\ accept = "error"
          /\ closed' = TRUE
          /\ queue' = <<>>
          /\ UNCHANGED <<read, write, close, handshakeComplete,
                         writeInProgress>>
       \/ /\ accept = "ok" /\ closeRequested
          /\ handshakeComplete' = TRUE
          /\ queue' = <<>>
          /\ StartClose(writeInProgress)
          /\ UNCHANGED <<read, write, writeInProgress, closed>>
       \/ /\ accept = "ok" /\ ~closeRequested
          /\ handshakeComplete' = TRUE
          /\ read' = "pending"
          /\ Send(<<>>, 0)
          /\ UNCHANGED <<close, closed>>
    /\ UNCHANGED <<timer, frame, applicationReady, closeRequested, history>>

OnReadError ==
    /\ read = "error"
    /\ read' = "idle"
    /\ timer' = Aborted(timer)
    /\ closed' = TRUE
    /\ IF closed
         THEN UNCHANGED <<write, close, queue>>
         ELSE /\ queue' = ForceClosedQueue
              /\ write' = Aborted(write)
              /\ close' = Aborted(close)
    /\ UNCHANGED << accept, frame, handshakeComplete, applicationReady,
                    writeInProgress, closeRequested, history >>

\* A text frame ends a session that has not sent its Hello and is ignored by
\* one that has.
OnReadText ==
    /\ read = "ok" /\ frame = "text"
    /\ IF applicationReady
         THEN read' = Started /\ UNCHANGED << accept, write, close, timer,
                                              queue, closeRequested, closed >>
         ELSE RequestClose("idle")
    /\ UNCHANGED << frame, handshakeComplete, applicationReady,
                    writeInProgress, history >>

\* Mutant of MayDispatch: the read handler does not look at close_requested_.
MayDispatchAlways == TRUE

\* The host sees no frame of a session it asked to close.
MayDispatch == ~closeRequested

OnReadDropped ==
    /\ read = "ok" /\ frame # "text" /\ ~MayDispatch
    /\ read' = "idle"
    /\ UNCHANGED <<accept, write, close, timer, frame, queue, flags, history>>

OnReadDispatched ==
    /\ read = "ok" /\ frame # "text" /\ MayDispatch
    /\ lateFrames' = IF closed \/ closeRequested
                       THEN lateFrames + 1 ELSE lateFrames
    /\ IF applicationReady \/ frame = "hello"
         THEN /\ read' = Started
              /\ applicationReady' = TRUE
              /\ UNCHANGED << accept, write, close, timer, queue,
                              closeRequested, closed >>
         ELSE RequestClose("idle") /\ UNCHANGED applicationReady
    /\ UNCHANGED << frame, handshakeComplete, writeInProgress, broadcasts,
                    sent >>

OnWriteError ==
    /\ write = "error"
    /\ write' = "idle"
    /\ writeInProgress' = FALSE
    /\ timer' = Aborted(timer)
    /\ closed' = TRUE
    /\ queue' = <<>>
    /\ IF closed
         THEN UNCHANGED <<read, close>>
         ELSE read' = Aborted(read) /\ close' = Aborted(close)
    /\ UNCHANGED << accept, frame, handshakeComplete, applicationReady,
                    closeRequested, history >>

\* Mutant of WritesNext: the last pending update is left in the queue.
WritesNextButLast(q) == Len(q) > 1 /\ ~closed

\* do_write() after a completed write.
WritesNext(q) == q # <<>> /\ ~closed

OnWriteDone ==
    /\ write = "ok"
    /\ \/ /\ closeRequested
          /\ queue' = <<>>
          /\ StartClose(FALSE)
          /\ write' = "idle" /\ writeInProgress' = FALSE
       \/ /\ ~closeRequested
          /\ queue' = Tail(queue)
          /\ writeInProgress' = WritesNext(queue')
          /\ write' = IF writeInProgress' THEN "pending" ELSE "idle"
          /\ UNCHANGED close
    /\ UNCHANGED << accept, read, timer, frame, handshakeComplete,
                    applicationReady, closeRequested, closed, history >>

OnClose ==
    /\ close \in Completed
    /\ close' = "idle"
    /\ closed' = TRUE
    /\ timer' = Aborted(timer)
    /\ queue' = <<>>
    /\ UNCHANGED << accept, read, write, frame, handshakeComplete,
                    applicationReady, writeInProgress, closeRequested,
                    history >>

\* Mutant of DeadlineIgnored: the deadline spares a running write.
DeadlineIgnoredWhileWriting ==
    timer = "error" \/ closed \/ writeInProgress

DeadlineIgnored == timer = "error" \/ closed

OnTimer ==
    /\ timer \in Completed
    /\ timer' = "idle"
    /\ IF DeadlineIgnored
         THEN UNCHANGED <<read, write, close, queue, closed>>
         ELSE /\ closed' = TRUE
              /\ queue' = ForceClosedQueue
              /\ read' = Aborted(read)
              /\ write' = Aborted(write)
              /\ close' = Aborted(close)
    /\ UNCHANGED << accept, frame, handshakeComplete, applicationReady,
                    writeInProgress, closeRequested, history >>

-----------------------------------------------------------------------------
(* Calls from the host.                                                    *)

\* broadcast_binary() reaches the sessions that are ready.
Broadcast ==
    /\ broadcasts < MaxStates
    /\ broadcasts' = broadcasts + 1
    /\ IF closed \/ closeRequested \/ ~applicationReady
         THEN UNCHANGED <<queue, writeInProgress, write>>
         ELSE Send(queue, broadcasts')
    /\ UNCHANGED << accept, read, close, timer, frame, handshakeComplete,
                    applicationReady, closeRequested, closed, sent,
                    lateFrames >>

\* close_all() after a hard timeout, a map reload, or at shutdown.
CloseAll ==
    /\ RequestClose(read)
    /\ UNCHANGED << frame, handshakeComplete, applicationReady,
                    writeInProgress, history >>

Completions ==
    AcceptCompletes \/ ReadCompletes \/ WriteCompletes \/ CloseCompletes
      \/ TimerExpires

Handlers ==
    \/ OnAccept
    \/ OnReadError \/ OnReadText \/ OnReadDropped \/ OnReadDispatched
    \/ OnWriteError \/ OnWriteDone
    \/ OnClose
    \/ OnTimer

SessionNext == Completions \/ Handlers \/ Broadcast \/ CloseAll

SessionSpec == SessionInit /\ [][SessionNext]_sessionVars

\* The event loop runs every queued handler and the clock runs.  Nothing is
\* assumed of the peer: a read, a write or a close may wait for ever.
SessionFairness ==
    /\ WF_sessionVars(TimerExpires)
    /\ WF_sessionVars(OnAccept)
    /\ WF_sessionVars(OnReadError)
    /\ WF_sessionVars(OnReadText \/ OnReadDropped \/ OnReadDispatched)
    /\ WF_sessionVars(OnWriteError)
    /\ WF_sessionVars(OnWriteDone)
    /\ WF_sessionVars(OnClose)
    /\ WF_sessionVars(OnTimer)

SessionFairSpec == SessionSpec /\ SessionFairness

-----------------------------------------------------------------------------
SessionTypeOK ==
    /\ {accept, read, write, close, timer} \subseteq OpStates
    /\ frame \in FrameKinds
    /\ queue \in Seq(0..MaxStates)
    /\ {handshakeComplete, applicationReady, writeInProgress,
        closeRequested, closed} \subseteq BOOLEAN
    /\ broadcasts \in 0..MaxStates
    /\ sent \in Seq(0..MaxStates)
    /\ lateFrames \in 0..1

\* The handler of a write always finds its message at the front of the queue,
\* whatever closed the session between the completion of the write and the
\* handler: pop_front() is never called on an empty queue, and the buffer of
\* a running write is never released.  What was written goes from the Hello to
\* newer and newer states.
WriteOwnsFront ==
    /\ writeInProgress = (write # "idle")
    /\ write # "idle" => queue # <<>>
    /\ write = "ok" => queue[1] = sent[Len(sent)]
    /\ \A i \in 1..Len(sent) : IF i = 1 THEN sent[i] = 0
                                         ELSE sent[i - 1] < sent[i]

\* No two operations that Beast forbids to overlap do: nothing is written
\* before the handshake is over, nor while the close frame is sent.
NoForbiddenOverlap ==
    /\ write # "idle" => handshakeComplete /\ close = "idle"
    /\ close # "idle" => closeRequested /\ handshakeComplete
    /\ accept # "idle" => read = "idle" /\ write = "idle" /\ close = "idle"

\* After close() has taken effect no frame reaches the host; of a session
\* that failed by itself at most the one frame that was read already does.
\* The host model's connection state "dying" rests on this.
AtMostOneLateFrame ==
    [][ lateFrames' # lateFrames
          => ~closeRequested /\ lateFrames = 0 ]_sessionVars

\* A close is over within the grace period, and a closed session lets go of
\* every operation, so that it is released: a peer that does not answer, a
\* write that hangs or a handler that comes late cannot keep it alive.
CloseTerminates ==
    /\ closeRequested ~> closed
    /\ closed ~> ( /\ accept = "idle" /\ read = "idle" /\ write = "idle"
                   /\ close = "idle" /\ timer = "idle" )

\* While the peer keeps reading, the newest world state a session accepted is
\* delivered, or a newer one, or the session closes: coalescing loses no last
\* state.
NewestStateDelivered ==
    WF_sessionVars(WriteCompletes) =>
      \A n \in 1..MaxStates :
        (queue # <<>> /\ queue[Len(queue)] = n)
          ~> (closed \/ closeRequested
                \/ \E i \in 1..Len(sent) : sent[i] >= n)
=============================================================================
