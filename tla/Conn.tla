-------------------------------- MODULE Conn --------------------------------
(***************************************************************************)
(* A WebSocket client (websocket/client.go) upgraded to a StructSpeaker    *)
(* (websocket/message.go): the goroutine of Start with the main loop of    *)
(* the connection, the goroutine that reads the socket, a goroutine that   *)
(* sends messages, the first of which is a Request that waits for its      *)
(* reply, and one that calls StopAndWait.                                  *)
(*                                                                         *)
(* A message from the peer is a "note", an "ask" whose handler answers on  *)
(* the same connection, or the "reply" to the Request.  The namespaces and *)
(* the encoding of the messages are left out.                              *)
(***************************************************************************)
EXTENDS Integers, Sequences

CONSTANTS QueueSize,      \* the capacity of the channels send and read
          MaxOut, MaxIn,  \* messages of the sender, and of the peer
          MaxBreaks,      \* sessions the peer ends, and refused sessions
          MaxErrors       \* writes that fail

ASSUME SizesAssumption == QueueSize \in Nat \ {0} /\ MaxOut \in Nat \ {0}

VARIABLES
    loop,       \* the goroutine of Start
    current,    \* the message it handles
    back,       \* where it goes on after handling it
    reader,     \* the goroutine that reads the socket
    held,       \* the message it has read
    stopper,    \* the caller of StopAndWait
    sender,     \* the goroutine that sends
    number,     \* the message it is at
    state,      \* ConnState
    running,
    quit,       \* the number of values in the channel quit
    send, read, \* the channels of messages
    replyChan,  \* the reply channel of the Request
    in, out,    \* the messages in the socket
    broken,     \* whether the peer is gone
    breaks, errors, sent,
    handled,    \* what was dispatched to the handlers
    timedOut    \* whether the Request ended without its reply

goroutine == <<loop, current, back>>
socket == <<in, out, broken, breaks, sent>>
request == <<sender, number, replyChan, timedOut>>
control == <<state, running, quit, stopper>>
vars == <<goroutine, reader, held, control, send, read, request, socket,
          errors, handled>>

Answer == 0   \* what the handler of an "ask" sends
QuitSize == 2

Init == /\ loop = "top" /\ current = "none" /\ back = "none"
        /\ reader = "none" /\ held = "none" /\ stopper = "idle"
        /\ sender = "register" /\ number = 1
        /\ state = "stopped" /\ running = TRUE /\ quit = 0
        /\ send = <<>> /\ read = <<>> /\ replyChan = "none"
        /\ in = <<>> /\ out = <<>> /\ broken = FALSE
        /\ breaks = 0 /\ errors = 0 /\ sent = 0
        /\ handled = {} /\ timedOut = FALSE

---------------------------------------------------------------------------
\* The goroutine of Client.Start: Connect, then the main loop.

Goto(l) == loop' = l /\ UNCHANGED <<current, back>>

Top == /\ loop = "top"
       /\ Goto(IF running THEN "dial" ELSE "ended")
       /\ UNCHANGED <<reader, held, control, send, read, request, socket,
                      errors, handled>>

\* Connect.
Dial == /\ loop = "dial"
        /\ Goto("run")
        /\ state' = "running"
        /\ in' = <<>> /\ out' = <<>> /\ broken' = FALSE
        /\ UNCHANGED <<running, quit, stopper, breaks, sent, reader, held,
                       send, read, request, errors, handled>>
DialFails == /\ loop = "dial" /\ breaks < MaxBreaks
             /\ Goto("top")
             /\ breaks' = breaks + 1
             /\ UNCHANGED <<in, out, broken, sent, reader, held, control, send,
                            read, request, errors, handled>>

Run == /\ loop = "run"
       /\ Goto("select")
       /\ reader' = "check"
       /\ UNCHANGED <<held, control, send, read, request, socket, errors,
                      handled>>

SelectQuit == /\ loop = "select" /\ quit > 0
              /\ Goto("close")
              /\ quit' = quit - 1
              /\ UNCHANGED <<state, running, stopper, reader, held, send, read,
                             request, socket, errors, handled>>

\* handleReceivedMessage takes the next message, in the loop or at its end.
Take(l) == /\ loop = l /\ read # <<>>
           /\ loop' = "handle" /\ current' = Head(read) /\ back' = l
           /\ read' = Tail(read)
           /\ UNCHANGED <<reader, held, control, send, request, socket, errors,
                          handled>>

\* write: a message to a peer that is gone is lost.
SelectSend == /\ loop = "select" /\ send # <<>>
              /\ Goto("select")
              /\ send' = Tail(send)
              /\ out' = IF broken THEN out ELSE Append(out, Head(send))
              /\ UNCHANGED <<in, broken, breaks, sent, reader, held, control,
                             read, request, errors, handled>>
WriteFails == /\ loop = "select" /\ send # <<>> /\ errors < MaxErrors
              /\ Goto("close")
              /\ send' = Tail(send) /\ errors' = errors + 1
              /\ UNCHANGED <<reader, held, control, read, request, socket,
                             handled>>

\* onReply and dispatchMessage.  The handler of an "ask" calls SendMessage in
\* the main loop: it tests the state, then waits for a place in the channel.
Answers == current = "ask" /\ state = "running"
Handle ==
    /\ loop = "handle"
    /\ loop' = IF Answers THEN "answer" ELSE back
    /\ back' = IF Answers THEN back ELSE "none"
    /\ current' = "none"
    /\ IF current = "reply" /\ replyChan = "empty"
       THEN replyChan' = "full" /\ UNCHANGED handled
       ELSE handled' = handled \cup {current} /\ UNCHANGED replyChan
    /\ UNCHANGED <<sender, number, timedOut, reader, held, control, send, read,
                   socket, errors>>
AnswerAsk ==
    /\ loop = "answer" /\ Len(send) < QueueSize
    /\ send' = Append(send, Answer)
    /\ loop' = back /\ back' = "none" /\ UNCHANGED current
    /\ UNCHANGED <<reader, held, control, read, request, socket, errors,
                   handled>>

\* The end of run: the connection is closed, the messages that were received
\* are handled, and OnDisconnected is called.  What the socket still holds is
\* lost; the message that the reader holds is not.
Close == /\ loop = "close"
         /\ Goto("drain")
         /\ state' = "stopped" /\ broken' = TRUE /\ in' = <<>> /\ out' = <<>>
         /\ UNCHANGED <<running, quit, stopper, breaks, sent, reader, held,
                        send, read, request, errors, handled>>
Disconnected == /\ loop = "drain" /\ read = <<>>
                /\ Goto("wait")
                /\ UNCHANGED <<reader, held, control, send, read, request,
                               socket, errors, handled>>

Wait == /\ loop = "wait"
        /\ running => reader = "done"
        /\ Goto("top")
        /\ UNCHANGED <<reader, held, control, send, read, request, socket,
                       errors, handled>>

---------------------------------------------------------------------------
\* The goroutine that reads the socket.

ReaderCheck == /\ reader = "check"
               /\ reader' = IF running THEN "read" ELSE "done"
               /\ UNCHANGED <<held, goroutine, control, send, read, request,
                              socket, errors, handled>>
ReadMessage == /\ reader = "read" /\ in # <<>>
               /\ reader' = "push" /\ held' = Head(in) /\ in' = Tail(in)
               /\ UNCHANGED <<out, broken, breaks, sent, goroutine, control,
                              send, read, request, errors, handled>>
ReaderPush == /\ reader = "push" /\ Len(read) < QueueSize
              /\ reader' = "check" /\ held' = "none"
              /\ read' = Append(read, held)
              /\ UNCHANGED <<goroutine, control, send, request, socket, errors,
                             handled>>
\* Mutant: a failed read does not end the main loop.
MutReadFails == /\ reader = "read" /\ in = <<>> /\ broken
                /\ reader' = "done"
                /\ UNCHANGED <<held, goroutine, control, send, read, request,
                               socket, errors, handled>>
ReadFails == /\ reader = "read" /\ in = <<>> /\ broken
             /\ reader' = IF running THEN "quit" ELSE "done"
             /\ UNCHANGED <<held, goroutine, control, send, read, request,
                            socket, errors, handled>>
ReaderQuit == /\ reader = "quit" /\ quit < QuitSize
              /\ reader' = "done" /\ quit' = quit + 1
              /\ UNCHANGED <<held, goroutine, state, running, stopper, send,
                             read, request, socket, errors, handled>>

---------------------------------------------------------------------------
\* StopAndWait.

Stop == /\ stopper = "idle"
        /\ running' = FALSE /\ stopper' = "swap"
        /\ UNCHANGED <<state, quit, goroutine, reader, held, send, read,
                       request, socket, errors, handled>>
\* Mutant: Stop leaves the main loop to the reader.
MutStopSwap == /\ stopper = "swap"
               /\ state' = IF state = "running" THEN "stopping" ELSE state
               /\ stopper' = "wait"
               /\ UNCHANGED <<running, quit, goroutine, reader, held, send,
                              read, request, socket, errors, handled>>
StopSwap == /\ stopper = "swap"
            /\ IF state = "running"
               THEN state' = "stopping" /\ stopper' = "quit"
               ELSE stopper' = "wait" /\ UNCHANGED state
            /\ UNCHANGED <<running, quit, goroutine, reader, held, send, read,
                           request, socket, errors, handled>>
StopQuit == /\ stopper = "quit" /\ quit < QuitSize
            /\ stopper' = "wait" /\ quit' = quit + 1
            /\ UNCHANGED <<state, running, goroutine, reader, held, send, read,
                           request, socket, errors, handled>>

\* The two goroutines that the WaitGroup counts have ended.
Ended == /\ loop \in {"top", "dial", "run", "wait", "ended"}
         /\ reader \in {"none", "done"}
StopReturn == /\ stopper = "wait" /\ Ended
              /\ stopper' = "returned"
              /\ UNCHANGED <<state, running, quit, goroutine, reader, held,
                             send, read, request, socket, errors, handled>>

---------------------------------------------------------------------------
\* The sender: a Request, then messages without a reply.

\* Mutant: the channel is not registered before the message is sent.
MutRegister == /\ sender = "register"
               /\ sender' = "check"
               /\ UNCHANGED <<number, replyChan, timedOut, goroutine, reader,
                              held, control, send, read, socket, errors,
                              handled>>
Register == /\ sender = "register"
            /\ sender' = "check" /\ replyChan' = "empty"
            /\ UNCHANGED <<number, timedOut, goroutine, reader, held, control,
                           send, read, socket, errors, handled>>

Following == IF number = MaxOut THEN "ended" ELSE "check"

\* SendMessage: the test of the state, then the channel.  Request ignores the
\* error of the test.
SendCheck == /\ sender = "check"
             /\ IF state = "running" THEN sender' = "push" /\ UNCHANGED number
                ELSE IF number = 1 THEN sender' = "waiting" /\ UNCHANGED number
                ELSE sender' = Following /\ number' = number + 1
             /\ UNCHANGED <<replyChan, timedOut, goroutine, reader, held,
                            control, send, read, socket, errors, handled>>
SendPush == /\ sender = "push" /\ Len(send) < QueueSize
            /\ send' = Append(send, number)
            /\ IF number = 1 THEN sender' = "waiting" /\ UNCHANGED number
               ELSE sender' = Following /\ number' = number + 1
            /\ UNCHANGED <<replyChan, timedOut, goroutine, reader, held,
                           control, read, socket, errors, handled>>

\* Mutant: Request waits for the reply without a timeout.
MutReturn(t) == /\ sender = "waiting"
                /\ ~t /\ replyChan = "full"
                /\ timedOut' = t /\ replyChan' = "none"
                /\ sender' = Following /\ number' = number + 1
                /\ UNCHANGED <<goroutine, reader, held, control, send, read,
                               socket, errors, handled>>

\* Request returns with the reply or after the timeout.
Return(t) == /\ sender = "waiting"
             /\ t \/ replyChan = "full"
             /\ timedOut' = t /\ replyChan' = "none"
             /\ sender' = Following /\ number' = number + 1
             /\ UNCHANGED <<goroutine, reader, held, control, send, read,
                            socket, errors, handled>>

---------------------------------------------------------------------------
\* The peer (external).

PeerRead == /\ out # <<>> /\ ~broken
            /\ out' = Tail(out)
            /\ in' = IF Head(out) = 1 THEN Append(in, "reply") ELSE in
            /\ UNCHANGED <<broken, breaks, sent, goroutine, reader, held,
                           control, send, read, request, errors, handled>>
PeerSend(m) == /\ loop \notin {"top", "dial"} /\ ~broken /\ sent < MaxIn
               /\ sent' = sent + 1 /\ in' = Append(in, m)
               /\ UNCHANGED <<out, broken, breaks, goroutine, reader, held,
                              control, send, read, request, errors, handled>>
Break == /\ loop \notin {"top", "dial"} /\ ~broken /\ breaks < MaxBreaks
         /\ broken' = TRUE /\ breaks' = breaks + 1 /\ out' = <<>>
         /\ UNCHANGED <<in, sent, goroutine, reader, held, control, send, read,
                        request, errors, handled>>

---------------------------------------------------------------------------
LoopStep == \/ Top \/ Dial \/ Run \/ SelectQuit \/ Take("select")
            \/ SelectSend \/ Handle \/ AnswerAsk \/ Close \/ Take("drain")
            \/ Disconnected \/ Wait
ReaderStep == ReaderCheck \/ ReadMessage \/ ReaderPush \/ ReadFails \/ ReaderQuit
StopStep == StopSwap \/ StopQuit \/ StopReturn
SendStep == Register \/ SendCheck \/ SendPush \/ Return(TRUE) \/ Return(FALSE)
Fault == DialFails \/ WriteFails \/ Break
Next == \/ LoopStep \/ ReaderStep \/ Stop \/ StopStep \/ SendStep
        \/ PeerRead \/ (\E m \in {"note", "ask"} : PeerSend(m)) \/ Fault

Fairness == /\ WF_vars(LoopStep) /\ WF_vars(ReaderStep) /\ WF_vars(StopStep)
            /\ WF_vars(SendStep) /\ WF_vars(PeerRead)
Spec == Init /\ [][Next]_vars /\ Fairness

TypeOK ==
    /\ loop \in {"top", "dial", "run", "select", "handle", "answer", "close",
                 "drain", "wait", "ended"}
    /\ reader \in {"none", "check", "read", "push", "quit", "done"}
    /\ stopper \in {"idle", "swap", "quit", "wait", "returned"}
    /\ sender \in {"register", "check", "push", "waiting", "ended"}
    /\ state \in {"stopped", "running", "stopping"} /\ running \in BOOLEAN
    /\ quit \in 0..QuitSize /\ Len(send) <= QueueSize /\ Len(read) <= QueueSize
    /\ replyChan \in {"none", "empty", "full"}

---------------------------------------------------------------------------
\* A handler waits for a place in the channel that its own goroutine empties.
SelfBlocked == loop = "answer" /\ Len(send) = QueueSize

\* Stop tested the state before Connect set it.
StopLost == stopper \in {"wait", "returned"} /\ state = "running"

\* A reply is never given to the handlers while its Request is still waiting:
\* Request registers the channel before it sends.
ReplyReachesRequest == "reply" \in handled => timedOut

\* StopAndWait returns, whatever the peer, the reader and the senders do, as
\* long as Stop does not race Connect, no handler blocks the main loop, and
\* the channel quit does not fill up with the values of two failed writes.
StopReturns == [](~SelfBlocked /\ ~StopLost /\ errors < 2)
                   => ((stopper = "swap") ~> (stopper = "returned"))

\* A client that is not stopped is connected again after each loss of the
\* connection, and stays connected once the peer stays up, as long as no write
\* failed and no handler blocks the main loop.
Connected == state = "running" /\ ~broken
Reconnects == [](running /\ errors = 0 /\ ~SelfBlocked) => <>[]Connected

\* No sender stays blocked on the full queue: what waits during a loss of the
\* connection is sent by the next session, and a Request always returns.
SendersEnd == [](running /\ errors = 0 /\ ~SelfBlocked) => <>(sender = "ended")

\* What "Start connects to the server - and reconnect if necessary" says.
AlwaysReconnects == [](running /\ ~SelfBlocked) => <>[]Connected

\* What "StopAndWait disconnect the speaker and wait for the goroutine to end"
\* says: nothing is handled afterwards.
NothingAfterStop == [][stopper = "returned" => UNCHANGED handled]_vars

\* What "Stop disconnect the speaker" says.
StopDisconnects == (stopper = "swap") ~> [](state # "running")

\* What "handle all the pending received messages" says: OnDisconnected is the
\* last event of a session.
PendingHandled == loop = "wait" => read = <<>>
=============================================================================
