------------------------------ MODULE UdsServe ------------------------------
(***************************************************************************)
(* The AnyConnect-CSTP hand-off in -mode uds: the SOCK_STREAM framework    *)
(* (internal/udshandoff/listener.go), the queue that feeds its connections *)
(* to one http.Server (internal/udsserve), and the shutdown of runUDS      *)
(* (cmd/era-ocserv/main.go).                                               *)
(*                                                                         *)
(*   accept  the accept loop; a handler goroutine per connection;          *)
(*   serve   http.Server.Serve, and what it does with a connection;        *)
(*   watch   the goroutine that closes the socket when ctx is cancelled;   *)
(*   owner   runUDS's shutdown goroutine: cstp.Server.Close, Server.Close. *)
(*                                                                         *)
(* http.Server.Serve has been entered before the first step.               *)
(***************************************************************************)
EXTENDS Wire

CONSTANTS
    Conn,       \* connections the facade dials
    Stream,     \* what they may send: name -> [wire, avail]
    Cap,        \* of connQueue.ch
    None

ASSUME CapType == Cap \in Nat \ {0}

VARIABLES
    ctx,        \* is the context cancelled?
    socket,     \* "open" | "closed"
    closing,    \* StreamListener.closing
    accept,     \* "run" | "done"
    hand,       \* connection -> pc of its handler goroutine
    sent,       \* connection -> what its stream is good for (Verdict)
    live,       \* connections whose socket is open
    done,       \* connections whose wrapper has been closed
    place,      \* connection -> who has its wrapper
    queue,      \* connQueue.ch
    qClosed,    \* connQueue.closed, and its channel
    serve,      \* "run" | "done"
    srvClosed,  \* cstp.Server.Close has run
    watch,      \* pc of the ctx watcher
    owner       \* pc of the shutdown goroutine

vars == <<ctx, socket, closing, accept, hand, sent, live, done, place, queue,
          qClosed, serve, srvClosed, watch, owner>>

stopping == <<ctx, socket, closing, srvClosed, watch, owner>>

Init ==
    /\ ctx = FALSE /\ socket = "open" /\ closing = FALSE
    /\ accept = "run" /\ serve = "run"
    /\ hand = [c \in Conn |-> "none"]
    /\ sent = [c \in Conn |-> None]
    /\ live = {} /\ done = {}
    /\ place = [c \in Conn |-> "none"]
    /\ queue = <<>> /\ qClosed = FALSE
    /\ srvClosed = FALSE
    /\ watch = "wait" /\ owner = "run"

-----------------------------------------------------------------------------
(* The stream, as the handler sees it: the header, the CSTP row of the     *)
(* matrix, the fields a HandoffInfo needs.                                 *)
Header == [n \in DOMAIN Stream |->
              ReadHeaderV2WithTLVs(Stream[n].wire, Stream[n].avail)] @@ <<>>

buildHandoffInfo(h) ==
    [SubjectDN |-> Lookup(h.tlvs, EraTLVMTLSSubjectDN, None),
     DeviceID |-> Lookup(h.tlvs, EraTLVDeviceID, None),
     Token |-> Lookup(h.tlvs, EraTLVToken, None),
     SourceHintV6 |-> Lookup(h.tlvs, EraTLVSourceHintV6, None),
     OrigSNI |-> Lookup(h.tlvs, EraTLVOrigSNI, None),
     ALPNDetail |-> Lookup(h.tlvs, EraTLVALPNDetail, None)]

(* handle until it pushes, and wrapHandler later on: "refused", the device *)
(* a request is served for, or the DN error it is answered with (400, 401).*)
Verdict ==
    [n \in DOMAIN Stream |->
        IF /\ Header[n].err = "none"
           /\ Validate(matrix.anyconnect_cstp, Header[n].tlvs)
           /\ buildHandoffInfo(Header[n]).SubjectDN # None
        THEN DeviceIDFromSubjectDN(buildHandoffInfo(Header[n]).SubjectDN)
        ELSE "refused"] @@ <<>>

-----------------------------------------------------------------------------
(* acceptLoop.                                                             *)

Accept(c, n) ==
    /\ accept = "run" /\ socket = "open" /\ hand[c] = "none"
    /\ sent' = [sent EXCEPT ![c] = Verdict[n]]
    /\ hand' = [hand EXCEPT ![c] = "header"]
    /\ live' = live \cup {c}
    /\ UNCHANGED <<stopping, accept, done, place, queue, qClosed, serve>>

(* Any Accept error ends the loop, the closed socket's and every other.    *)
AcceptFails ==
    /\ accept = "run"
    /\ accept' = "done"
    /\ UNCHANGED <<stopping, hand, sent, live, done, place, queue, qClosed, serve>>

-----------------------------------------------------------------------------
(* StreamListener.handle around Server.handle.                             *)

Hand(c, pc) == hand' = [hand EXCEPT ![c] = pc]

(* The deferred conn.Close and wg.Done.                                    *)
Return(c) == Hand(c, "done") /\ live' = live \ {c}

Refused(c) ==
    /\ hand[c] = "header" /\ sent[c] = "refused"
    /\ Return(c)
    /\ UNCHANGED <<stopping, accept, sent, done, place, queue, qClosed, serve>>

Validated(c) ==
    /\ hand[c] = "header" /\ sent[c] # "refused"
    /\ Hand(c, "push")
    /\ UNCHANGED <<stopping, accept, sent, live, done, place, queue, qClosed, serve>>

(* Mutant: the socket is closed and done is not.                           *)
CloseUnsignalled(c) == live' = live \ {c} /\ UNCHANGED done

(* handoffConn.Close; the first one closes the socket and signals done.    *)
CloseConn(c) == live' = live \ {c} /\ done' = done \cup {c}

(* push: the test of closed ...                                            *)
PushTests(c) ==
    /\ hand[c] = "push"
    /\ IF qClosed THEN CloseConn(c) /\ Hand(c, "done")
                  ELSE Hand(c, "send") /\ UNCHANGED <<live, done>>
    /\ UNCHANGED <<stopping, accept, sent, place, queue, qClosed, serve>>

(* The buffered channel cannot take another connection.                    *)
Full == Len(queue) >= Cap

(* ... and the send: it panics if the channel was closed in between (the   *)
(* panic ends in handlerStreamSafe), gives up on a full buffer, or leaves  *)
(* the handler waiting for the consumer.                                   *)
PushSends(c) ==
    /\ hand[c] = "send"
    /\ \/ /\ qClosed
          /\ Return(c)
          /\ UNCHANGED <<done, place, queue>>
       \/ /\ ~qClosed /\ Full
          /\ CloseConn(c) /\ Hand(c, "done")
          /\ UNCHANGED <<place, queue>>
       \/ /\ ~qClosed /\ ~Full
          /\ Hand(c, "wait")
          /\ queue' = Append(queue, c)
          /\ place' = [place EXCEPT ![c] = "queue"]
          /\ UNCHANGED <<live, done>>
    /\ UNCHANGED <<stopping, accept, sent, qClosed, serve>>

(* Mutant: the handler returns once its connection is queued.              *)
WaitUntilPushed(c) ==
    /\ hand[c] = "wait"
    /\ Return(c)
    /\ UNCHANGED <<stopping, accept, sent, done, place, queue, qClosed, serve>>

(* The handler returns when the consumer has closed the wrapper.           *)
waitClosed(c) ==
    /\ hand[c] = "wait" /\ c \in done
    /\ Return(c)
    /\ UNCHANGED <<stopping, accept, sent, done, place, queue, qClosed, serve>>

-----------------------------------------------------------------------------
(* http.Server.  Serve drains a closed channel before Accept fails.        *)

Takes ==
    /\ serve = "run" /\ queue # <<>>
    /\ queue' = Tail(queue)
    /\ place' = [place EXCEPT ![Head(queue)] = "http"]
    /\ UNCHANGED <<stopping, accept, hand, sent, live, done, qClosed, serve>>

(* Mutant: Accept fails although connections are queued.                   *)
ServeReturnsAtOnce ==
    /\ serve = "run" /\ qClosed
    /\ serve' = "done"
    /\ UNCHANGED <<stopping, accept, hand, sent, live, done, place, queue, qClosed>>

ServeReturns ==
    /\ serve = "run" /\ qClosed /\ queue = <<>>
    /\ serve' = "done"
    /\ UNCHANGED <<stopping, accept, hand, sent, live, done, place, queue, qClosed>>

(* External: the server closes a connection, after a response, at the end  *)
(* of the stream, on ReadHeaderTimeout or in Shutdown.  Nothing bounds the *)
(* time until then: the handlers read the body without a deadline.         *)
HTTPCloses(c) ==
    /\ place[c] = "http"
    /\ CloseConn(c)
    /\ place' = [place EXCEPT ![c] = "over"]
    /\ UNCHANGED <<stopping, accept, hand, sent, queue, qClosed, serve>>

(* A CONNECT of a device is hijacked.  Once cstp.Server is closed, its     *)
(* publish fails and closes the tunnel, or panics and leaves it to nobody. *)
Hijacks(c) ==
    /\ place[c] = "http"
    /\ sent[c] \notin {ErrInvalidSubjectDN, ErrNoDeviceID}
    /\ \/ /\ ~srvClosed
          /\ place' = [place EXCEPT ![c] = "tunnel"]
          /\ UNCHANGED <<live, done>>
       \/ /\ srvClosed
          /\ place' = [place EXCEPT ![c] = "orphan"]
          /\ UNCHANGED <<live, done>>
       \/ /\ srvClosed
          /\ place' = [place EXCEPT ![c] = "over"]
          /\ CloseConn(c)
    /\ UNCHANGED <<stopping, accept, hand, sent, queue, qClosed, serve>>

(* The end of a tunnel (module Tunnel): end of stream, idle timeout, its   *)
(* pump.  The first two end one that nobody owns as well.                  *)
TunnelCloses(c) ==
    /\ place[c] \in {"tunnel", "orphan"}
    /\ CloseConn(c)
    /\ place' = [place EXCEPT ![c] = "over"]
    /\ UNCHANGED <<stopping, accept, hand, sent, queue, qClosed, serve>>

-----------------------------------------------------------------------------
(* Shutdown.                                                               *)

flow == <<accept, hand, sent, live, done, place, queue, serve>>

CtxCancelled ==
    /\ ~ctx /\ ctx' = TRUE
    /\ UNCHANGED <<flow, qClosed, socket, closing, srvClosed, watch, owner>>

(* Mutant: the handlers are not in the wait group.                         *)
LoopOnly == accept = "done"

(* wg.Wait: the accept loop and every handler have returned.               *)
Joined == accept = "done" /\ \A c \in Conn : hand[c] \in {"none", "done"}

(* The watcher's StreamListener.Close.                                     *)
WatchCloses ==
    /\ watch = "wait" /\ ctx
    /\ IF closing THEN watch' = "skipped" /\ UNCHANGED closing
                  ELSE watch' = "socket" /\ closing' = TRUE
    /\ UNCHANGED <<flow, qClosed, ctx, socket, srvClosed, owner>>

WatchClosesSocket ==
    /\ watch = "socket"
    /\ watch' = "join" /\ socket' = "closed"
    /\ UNCHANGED <<flow, qClosed, ctx, closing, srvClosed, owner>>

WatchJoins ==
    /\ watch = "join" /\ Joined
    /\ watch' = "returned"
    /\ UNCHANGED <<flow, qClosed, ctx, socket, closing, srvClosed, owner>>

(* runUDS: cstp.Server.Close, which closes its channels and no tunnel.     *)
CloseCSTP ==
    /\ owner = "run" /\ ctx
    /\ owner' = "queue" /\ srvClosed' = TRUE
    /\ UNCHANGED <<flow, qClosed, ctx, socket, closing, watch>>

(* Server.Close: the queue ...                                             *)
CloseQueue ==
    /\ owner = "queue"
    /\ owner' = "shutdown" /\ qClosed' = TRUE
    /\ UNCHANGED <<flow, ctx, socket, closing, srvClosed, watch>>

(* ... Shutdown, which returns after 5 s at the latest ...                 *)
Shutdown ==
    /\ owner = "shutdown"
    /\ owner' = "uds"
    /\ UNCHANGED <<flow, qClosed, ctx, socket, closing, srvClosed, watch>>

(* ... StreamListener.Close, which returns at once if the watcher is       *)
(* already in it ...                                                       *)
CloseUDS ==
    /\ owner = "uds"
    /\ IF closing THEN owner' = "serve" /\ UNCHANGED closing
                  ELSE owner' = "socket" /\ closing' = TRUE
    /\ UNCHANGED <<flow, qClosed, ctx, socket, srvClosed, watch>>

CloseSocket ==
    /\ owner = "socket"
    /\ owner' = "join" /\ socket' = "closed"
    /\ UNCHANGED <<flow, qClosed, ctx, closing, srvClosed, watch>>

CloseJoins ==
    /\ owner = "join" /\ Joined
    /\ owner' = "serve"
    /\ UNCHANGED <<flow, qClosed, ctx, socket, closing, srvClosed, watch>>

(* ... and s.wg.Wait for Serve.                                            *)
CloseReturnsFrom ==
    /\ owner = "serve" /\ serve = "done"
    /\ owner' = "returned"
    /\ UNCHANGED <<flow, qClosed, ctx, socket, closing, srvClosed, watch>>

-----------------------------------------------------------------------------
Handler(c) == Refused(c) \/ Validated(c)
              \/ PushTests(c) \/ PushSends(c) \/ waitClosed(c)
WatchStep == WatchCloses \/ WatchClosesSocket \/ WatchJoins
OwnerStep == CloseCSTP \/ CloseQueue \/ Shutdown \/ CloseUDS \/ CloseSocket
             \/ CloseJoins \/ CloseReturnsFrom

Next == \/ \E c \in Conn : \/ Handler(c)
                           \/ \E n \in DOMAIN Stream : Accept(c, n)
                           \/ HTTPCloses(c) \/ Hijacks(c) \/ TunnelCloses(c)
        \/ AcceptFails \/ Takes \/ ServeReturns
        \/ CtxCancelled \/ WatchStep \/ OwnerStep

Spec == Init /\ [][Next]_vars

(* Runnable goroutines run: a handler (the header read ends at its         *)
(* deadline), the two loops, the shutdown.  Nothing is assumed of what a   *)
(* request or a tunnel does with its connection, nor of the facade.        *)
Fairness == /\ \A c \in Conn : WF_vars(Handler(c))
            /\ WF_vars(socket = "closed" /\ AcceptFails)
            /\ WF_vars(Takes \/ ServeReturns)
            /\ WF_vars(WatchStep) /\ WF_vars(OwnerStep)

FairSpec == Spec /\ Fairness

-----------------------------------------------------------------------------
HandPC == {"none", "header", "push", "send", "wait", "done"}
Place == {"none", "queue", "http", "tunnel", "orphan", "over"}

(* Types; and the handler, the wrapper and the queue agree on where a      *)
(* connection is.                                                          *)
TypeOK ==
    /\ {ctx, closing, qClosed, srvClosed} \subseteq BOOLEAN
    /\ socket \in {"open", "closed"} /\ (socket = "closed" => closing)
    /\ accept \in {"run", "done"} /\ serve \in {"run", "done"}
    /\ hand \in [Conn -> HandPC]
    /\ DOMAIN sent = Conn
    /\ live \subseteq Conn /\ done \subseteq Conn
    /\ place \in [Conn -> Place]
    /\ queue \in Seq(Conn) /\ Len(queue) <= Cap
    /\ watch \in {"wait", "socket", "join", "skipped", "returned"}
    /\ owner \in {"run", "queue", "shutdown", "uds", "socket", "join", "serve",
                  "returned"}
    /\ \A c \in Conn : (place[c] = "queue") <=> \E i \in 1..Len(queue) : queue[i] = c

(* The framework never closes a connection under its consumer: while the   *)
(* queue, the http.Server or a tunnel has it, its socket is open and its   *)
(* handler waits (waitClosed, "defers that to the moment the consumer is   *)
(* done"); and no handler leaves one open behind, whether it returns, is   *)
(* refused, or panics on the closed channel.                               *)
ConnOwned ==
    /\ TypeOK
    /\ \A c \in Conn :
        /\ place[c] \in {"queue", "http", "tunnel", "orphan"} =>
              c \in live /\ hand[c] = "wait"
        /\ hand[c] = "done" => c \notin live

(* When the StreamListener.Close that found closing unset has returned,    *)
(* the accept loop and every handler have returned and every accepted      *)
(* connection is closed ("waits for in-flight handler goroutines to        *)
(* return").  The other caller of the two may return before.               *)
CloseWaits ==
    \/ watch = "returned"
    \/ owner \in {"serve", "returned"} /\ watch \in {"wait", "skipped"}
    => accept = "done" /\ live = {} /\ \A c \in Conn : hand[c] \in {"none", "done"}

(* Every connection that passed the matrix reaches the http.Server or is   *)
(* closed, so that the facade can dial again: none stays in the queue that *)
(* Close has closed.                                                       *)
ServedOrClosed == \A c \in Conn :
    hand[c] = "push" ~> (place[c] \in {"http", "tunnel", "orphan", "over"}
                         \/ c \notin live)

(* Server.Close returns if every request and every tunnel lets go of its   *)
(* connection sooner or later: nothing else, neither a full queue, nor a   *)
(* send that panics, nor the watcher being first, keeps it.                *)
CloseReturns ==
    <>[](\A c \in Conn : place[c] \notin {"http", "tunnel", "orphan"})
        => (owner = "queue" ~> owner = "returned")

(* What the comment in runUDS says: "cstp.Server.Close terminates any      *)
(* in-flight hijacked tunnels ... Only then does udsserve.Close return     *)
(* promptly"; given that every request ends and no CONNECT is hijacked     *)
(* too late.  It does not hold: Close ends no tunnel, and the join waits   *)
(* for every one that its client keeps.                                    *)
CloseEndsTunnels ==
    <>[](\A c \in Conn : place[c] \notin {"http", "orphan"})
        => (owner = "queue" ~> owner = "returned")
=============================================================================
