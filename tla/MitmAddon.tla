------------------------------ MODULE MitmAddon ------------------------------
(***************************************************************************)
(* The life of the connection to the add-on that decrypts TLS: a service   *)
(* of another process, which the capture binds when it starts.  Once bound *)
(* it is asked for its certificate, and then to start the proxy with one   *)
(* end of a socket pair; a receiver thread reads the other end.  The       *)
(* callbacks of the service run on the main thread, MitmReceiver.stop on   *)
(* the capture thread, and nothing but the order of their steps keeps them *)
(* apart.                                                                  *)
(*                                                                         *)
(* The model is of one MitmReceiver, from start to after stop, when the    *)
(* next capture may be running.  The add-on and the system are external:   *)
(* messages to the add-on are handled in order, it may die or close its    *)
(* end of the socket at any time, and a service that nobody binds is       *)
(* destroyed.  No callback comes from a binding after it was unbound.      *)
(***************************************************************************)
EXTENDS Naturals, Sequences

VARIABLES
    binding,        \* of the service: asked, bound, null, unbound
    mService,       \* whether it is set
    mStopRequested,
    inbox,          \* messages that the add-on has not handled
    addon,          \* the process of the add-on: alive, dead
    peer,           \* the add-on's end of the socket: none, open, closed
    socket,         \* our end of it
    mSocketFd,      \* whether it is set
    mThread,        \* whether it is set
    thread,         \* the receiver thread: none, new, checked, loop, reading, ended
    main,           \* what the main thread is in the middle of
    reply,          \* a certificate waits on the main looper
    stopper,        \* the capture thread: off, then the steps of stop
    fd,             \* its local fd, of stop
    slips           \* history: interleavings that leave something behind, see StoppedIsReleased

addonVars == <<binding, mService, mStopRequested, inbox, addon, peer, socket, mSocketFd, mThread,
               thread, main, reply, stopper, fd, slips>>

\* MitmReceiver.start has bound the service.
AddonInit ==
    /\ binding = "asked" /\ mService = FALSE /\ mStopRequested = FALSE
    /\ inbox = <<>> /\ addon = "alive" /\ peer = "none" /\ socket = "none"
    /\ mSocketFd = FALSE /\ mThread = FALSE /\ thread = "none"
    /\ main = "idle" /\ reply = FALSE
    /\ stopper = "off" /\ fd = FALSE
    /\ slips = {}

\* CaptureService.stopService.  While this capture runs it makes the capture loop
\* end; once stop is done it ends the next capture.
stopService(why) ==
    /\ stopper' = IF stopper = "off" THEN "begin" ELSE stopper
    /\ slips' = IF stopper = "done" THEN slips \cup {why} ELSE slips

\* A message can be sent to a service that is set and whose process is alive.
CanSend == mService /\ addon = "alive"

\* MitmAddon.stopProxy: without a service, the stop is postponed.
SendStop ==
    /\ inbox' = IF CanSend THEN Append(inbox, "stop") ELSE inbox
    /\ mStopRequested' = IF CanSend THEN FALSE ELSE mStopRequested \/ ~mService

\* MitmAddon.disconnect: only a service that has connected is unbound.
disconnect ==
    /\ binding' = IF mService THEN "unbound" ELSE binding
    /\ mService' = FALSE

-----------------------------------------------------------------------------
(* The main thread.                                                        *)

\* mService is set, and mStopRequested is read.
onServiceConnected ==
    /\ main = "idle" /\ binding = "asked"
    /\ binding' = "bound" /\ mService' = TRUE
    /\ main' = IF mStopRequested THEN "stopProxy" ELSE "onMitmServiceConnect"
    /\ UNCHANGED <<mStopRequested, inbox, addon, peer, socket, mSocketFd, mThread, thread, reply,
                   stopper, fd, slips>>

\* stopProxy by this thread, after a stop that came first, or before the request
\* of the certificate.
StopProxyOnConnect ==
    /\ main \in {"stopProxy", "onMitmServiceConnect"}
    /\ SendStop
    /\ main' = IF main = "stopProxy" THEN "idle" ELSE "requestCaCertificate"
    /\ UNCHANGED <<binding, mService, addon, peer, socket, mSocketFd, mThread, thread, reply,
                   stopper, fd, slips>>

\* The message is sent; when it cannot be, the service is disconnected.
requestCaCertificate ==
    /\ main = "requestCaCertificate"
    /\ \/ CanSend /\ inbox' = Append(inbox, "getCA") /\ UNCHANGED <<binding, mService>>
       \/ disconnect /\ UNCHANGED inbox
    /\ main' = "idle"
    /\ UNCHANGED <<mStopRequested, addon, peer, socket, mSocketFd, mThread, thread, reply,
                   stopper, fd, slips>>

\* onMitmGetCaCertificateResult, when the certificate is not installed any more.
CertificateMissing ==
    /\ main = "idle" /\ reply
    /\ reply' = FALSE
    /\ stopService("late reply")
    /\ UNCHANGED <<binding, mService, mStopRequested, inbox, addon, peer, socket, mSocketFd, mThread,
                   thread, main, fd>>

\* Otherwise startProxy: the socket pair and the message with its other end. It
\* fails when the service is gone, or the message cannot be sent.
startProxy ==
    /\ main = "idle" /\ reply
    /\ reply' = FALSE
    /\ \/ /\ CanSend
          /\ inbox' = Append(inbox, "start") /\ socket' = "open" /\ main' = "setFd"
          /\ UNCHANGED <<binding, mService>>
       \/ disconnect /\ UNCHANGED <<inbox, socket, main>>
    /\ UNCHANGED <<mStopRequested, addon, peer, mSocketFd, mThread, thread, stopper, fd, slips>>

\* The result is assigned...
SetFd ==
    /\ main = "setFd"
    /\ mSocketFd' = TRUE
    /\ slips' = IF stopper = "clear" THEN slips \cup {"fd"} ELSE slips
    /\ main' = "createThread"
    /\ UNCHANGED <<binding, mService, mStopRequested, inbox, addon, peer, socket, mThread, thread, reply,
                   stopper, fd>>

\* ...the receiver thread is created...
CreateThread ==
    /\ main = "createThread"
    /\ mThread' = TRUE
    /\ main' = "startThread"
    /\ UNCHANGED <<binding, mService, mStopRequested, inbox, addon, peer, socket, mSocketFd, thread,
                   reply, stopper, fd, slips>>

\* ...and started.  mThread is read again: an exception, which ends the app, if stop
\* has cleared it.
StartThread ==
    /\ main = "startThread"
    /\ thread' = IF mThread THEN "new" ELSE thread
    /\ slips' = IF mThread THEN slips ELSE slips \cup {"null thread"}
    /\ main' = "idle"
    /\ UNCHANGED <<binding, mService, mStopRequested, inbox, addon, peer, socket, mSocketFd, mThread,
                   reply, stopper, fd>>

\* onServiceDisconnected and onBindingDied: the capture is stopped.
onServiceDisconnected ==
    /\ main = "idle" /\ binding = "bound" /\ addon = "dead"
    /\ disconnect
    /\ stopService("leaked binding")
    /\ UNCHANGED <<mStopRequested, inbox, addon, peer, socket, mSocketFd, mThread, thread, main, reply, fd>>

\* onNullBinding: the add-on refuses the binding.  There is no service yet to
\* disconnect, and the capture is stopped.
onNullBinding ==
    /\ main = "idle" /\ binding = "asked"
    /\ binding' = "null"
    /\ stopService("leaked binding")
    /\ UNCHANGED <<mService, mStopRequested, inbox, addon, peer, socket, mSocketFd, mThread, thread,
                   main, reply, fd>>

-----------------------------------------------------------------------------
(* The add-on, and the system.                                             *)

HandleInbox ==
    /\ addon = "alive" /\ inbox # <<>>
    /\ inbox' = Tail(inbox)
    /\ reply' = (reply \/ Head(inbox) = "getCA")
    /\ peer' = CASE Head(inbox) = "start" -> "open"
                 [] Head(inbox) = "stop" /\ peer = "open" -> "closed"
                 [] OTHER -> peer
    /\ UNCHANGED <<binding, mService, mStopRequested, addon, socket, mSocketFd, mThread, thread,
                   main, stopper, fd, slips>>

\* The proxy fails, and closes the socket.
ProxyEnds ==
    /\ peer = "open"
    /\ peer' = "closed"
    /\ UNCHANGED <<binding, mService, mStopRequested, inbox, addon, socket, mSocketFd, mThread,
                   thread, main, reply, stopper, fd, slips>>

\* The process dies, or the system destroys it when it is bound no more: what it
\* had not handled is lost, and its sockets are closed, those in its inbox too.
Vanish ==
    /\ addon' = "dead"
    /\ inbox' = <<>>
    /\ peer' = IF socket = "none" THEN peer ELSE "closed"
    /\ UNCHANGED <<binding, mService, mStopRequested, socket, mSocketFd, mThread, thread,
                   main, reply, stopper, fd, slips>>

Die == addon = "alive" /\ binding = "bound" /\ Vanish
Destroy == addon = "alive" /\ binding = "unbound" /\ Vanish

-----------------------------------------------------------------------------
(* The receiver thread, MitmReceiver.run.                                  *)

Ends == thread' = "ended" /\ socket' = "closed"

CheckFd ==
    /\ thread = "new"
    /\ thread' = IF mSocketFd THEN "checked" ELSE "ended"
    /\ UNCHANGED <<binding, mService, mStopRequested, inbox, addon, peer, socket, mSocketFd, mThread,
                   main, reply, stopper, fd, slips>>

\* mSocketFd is read again for the stream: an exception if it has been cleared.
OpenStream ==
    /\ thread = "checked"
    /\ thread' = IF mSocketFd THEN "loop" ELSE "ended"
    /\ slips' = IF mSocketFd THEN slips ELSE slips \cup {"null stream"}
    /\ UNCHANGED <<binding, mService, mStopRequested, inbox, addon, peer, socket, mSocketFd, mThread,
                   main, reply, stopper, fd>>

\* while(mAddon.isConnected())
Loop ==
    /\ thread = "loop"
    /\ IF mService THEN thread' = "reading" /\ UNCHANGED socket ELSE Ends
    /\ UNCHANGED <<binding, mService, mStopRequested, inbox, addon, peer, mSocketFd, mThread,
                   main, reply, stopper, fd, slips>>

\* A message is read, and handled.
ReadMessage ==
    /\ thread = "reading" /\ peer = "open" /\ socket = "open"
    /\ thread' = "loop"
    /\ UNCHANGED <<binding, mService, mStopRequested, inbox, addon, peer, socket, mSocketFd, mThread,
                   main, reply, stopper, fd, slips>>

\* A header that is not one: the capture is stopped.
BadHeader ==
    /\ thread = "reading" /\ peer = "open" /\ socket = "open"
    /\ Ends
    /\ stopService("stray thread")
    /\ UNCHANGED <<binding, mService, mStopRequested, inbox, addon, peer, mSocketFd, mThread,
                   main, reply, fd>>

\* So it is at the end of the stream.
ReadEnd ==
    /\ thread = "reading" /\ peer = "closed" /\ socket = "open"
    /\ Ends
    /\ stopService("stray thread")
    /\ UNCHANGED <<binding, mService, mStopRequested, inbox, addon, peer, mSocketFd, mThread,
                   main, reply, fd>>

\* An exception, of a socket that stop has closed, or of a stream that ends in
\* the middle of a message: the thread ends, and only it.  Our close may wake the
\* thread, the other end's close does.
ReadThrows ==
    /\ thread = "reading" /\ "closed" \in {socket, peer}
    /\ Ends
    /\ UNCHANGED <<binding, mService, mStopRequested, inbox, addon, peer, mSocketFd, mThread,
                   main, reply, stopper, fd, slips>>

-----------------------------------------------------------------------------
(* MitmReceiver.stop, on the capture thread.                               *)

\* The capture loop ends, on a request of the user or of this component.
UserStop ==
    /\ stopper = "off"
    /\ stopper' = "begin"
    /\ UNCHANGED <<binding, mService, mStopRequested, inbox, addon, peer, socket, mSocketFd, mThread,
                   thread, main, reply, fd, slips>>

TakeFd ==
    /\ stopper = "begin"
    /\ fd' = mSocketFd
    /\ stopper' = "clear"
    /\ UNCHANGED <<binding, mService, mStopRequested, inbox, addon, peer, socket, mSocketFd, mThread,
                   thread, main, reply, slips>>

CloseFd ==
    /\ stopper = "clear"
    /\ mSocketFd' = FALSE
    /\ socket' = IF fd THEN "closed" ELSE socket
    /\ stopper' = "stopProxy"
    /\ UNCHANGED <<binding, mService, mStopRequested, inbox, addon, peer, mThread,
                   thread, main, reply, fd, slips>>

stopProxy ==
    /\ stopper = "stopProxy"
    /\ SendStop
    /\ stopper' = "disconnect"
    /\ UNCHANGED <<binding, mService, addon, peer, socket, mSocketFd, mThread,
                   thread, main, reply, fd, slips>>

\* Mutant: the service is left bound, as if the closed socket were enough.
NoDisconnectOnStop ==
    /\ stopper = "disconnect"
    /\ stopper' = "join"
    /\ UNCHANGED <<binding, mService, mStopRequested, inbox, addon, peer, socket, mSocketFd, mThread,
                   thread, main, reply, fd, slips>>

\* Mutant: the thread is joined before the service is disconnected.
DisconnectAfterJoin ==
    /\ stopper = "disconnect"
    /\ mThread => thread \in {"none", "ended"}
    /\ disconnect
    /\ slips' = IF binding \in {"asked", "null"} THEN slips \cup {"early"} ELSE slips
    /\ stopper' = "join"
    /\ UNCHANGED <<mStopRequested, inbox, addon, peer, socket, mSocketFd, mThread,
                   thread, main, reply, fd>>

DisconnectOnStop ==
    /\ stopper = "disconnect"
    /\ disconnect
    /\ slips' = IF binding \in {"asked", "null"} THEN slips \cup {"early"} ELSE slips
    /\ stopper' = "join"
    /\ UNCHANGED <<mStopRequested, inbox, addon, peer, socket, mSocketFd, mThread,
                   thread, main, reply, fd>>

\* A thread that was created and not started is not alive, and is not joined.
Join ==
    /\ stopper = "join"
    /\ mThread => thread \in {"none", "ended"}
    /\ stopper' = "forget"
    /\ UNCHANGED <<binding, mService, mStopRequested, inbox, addon, peer, socket, mSocketFd, mThread,
                   thread, main, reply, fd, slips>>

ForgetThread ==
    /\ stopper = "forget"
    /\ mThread' = FALSE
    /\ stopper' = "done"
    /\ UNCHANGED <<binding, mService, mStopRequested, inbox, addon, peer, socket, mSocketFd,
                   thread, main, reply, fd, slips>>

-----------------------------------------------------------------------------
MainStep == StopProxyOnConnect \/ requestCaCertificate \/ SetFd \/ CreateThread \/ StartThread
ThreadStep == CheckFd \/ OpenStream \/ Loop \/ ReadEnd
StopStep == TakeFd \/ CloseFd \/ stopProxy \/ DisconnectOnStop \/ Join \/ ForgetThread

AddonNext ==
    \/ onServiceConnected \/ StopProxyOnConnect \/ requestCaCertificate \/ CertificateMissing
    \/ startProxy \/ SetFd \/ CreateThread \/ StartThread \/ onServiceDisconnected \/ onNullBinding
    \/ HandleInbox \/ ProxyEnds \/ Die \/ Destroy
    \/ CheckFd \/ OpenStream \/ Loop \/ ReadMessage \/ BadHeader \/ ReadEnd \/ ReadThrows
    \/ UserStop \/ TakeFd \/ CloseFd \/ stopProxy \/ DisconnectOnStop \/ Join \/ ForgetThread

\* The three threads finish what they have begun, but nobody has to connect, to
\* send a message or to stop.  The add-on handles its messages, and is destroyed
\* when it is bound no more; a read of a closed socket ends at the latest when the
\* other end is closed too.
AddonFairness ==
    /\ WF_addonVars(MainStep) /\ WF_addonVars(ThreadStep) /\ WF_addonVars(StopStep)
    /\ WF_addonVars(HandleInbox) /\ WF_addonVars(Destroy)
    /\ WF_addonVars(ReadThrows /\ peer = "closed")

-----------------------------------------------------------------------------
(* What is left after stop, once the threads have run out: the service is  *)
(* not bound, our end of the socket is closed, and no callback of this     *)
(* receiver has stopped a later capture.  The exceptions are a stop that   *)
(* comes before the service has connected, or after it refused, which      *)
(* leaves it bound, and its death then stops whatever runs; the answer     *)
(* about a missing certificate that comes after stop; a socket that the    *)
(* main thread assigns between stop's two accesses to mSocketFd; and a     *)
(* thread that stop forgets between its creation and its start, where the  *)
(* main thread's exception ends the app.                                   *)
StoppedIsReleased ==
    /\ stopper = "done" /\ main = "idle" /\ thread \in {"none", "ended"} =>
          /\ binding = "unbound" \/ "early" \in slips
          /\ socket # "open" \/ slips \cap {"fd", "null thread"} # {}
    /\ "leaked binding" \in slips => "early" \in slips
    /\ "stray thread" \notin slips

(* stop ends, and with it the receiver thread, which may be blocked on the *)
(* socket or not have been started yet.                                    *)
ReceiverStops ==
    stopper # "off" ~> stopper = "done" /\ thread \in {"none", "ended"}
=============================================================================
