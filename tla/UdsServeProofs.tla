--------------------------- MODULE UdsServeProofs ---------------------------
(***************************************************************************)
(* UdsServe, for any set of connections, any streams and any capacity of   *)
(* the queue.  The inductive invariant has three parts: the shape of the   *)
(* queue (Types), what the program counter of a connection's handler says  *)
(* of its socket, its wrapper and its place (Stage), and which of the two  *)
(* callers of StreamListener.Close has set closing (Closers).              *)
(***************************************************************************)
EXTENDS UdsServe, TLAPS

(* Membership in a queue, and a queue without duplicates.                  *)
In(c, q) == \E i \in 1..Len(q) : q[i] = c
Uniq(q) == \A i, j \in 1..Len(q) : q[i] = q[j] => i = j

(* Who has the wrapper may still use the connection.                       *)
Held == {"queue", "http", "tunnel", "orphan"}

Types ==
    /\ {ctx, closing, qClosed, srvClosed} \subseteq BOOLEAN
    /\ socket \in {"open", "closed"} /\ (socket = "closed" => closing)
    /\ accept \in {"run", "done"} /\ serve \in {"run", "done"}
    /\ hand \in [Conn -> HandPC]
    /\ DOMAIN sent = Conn
    /\ live \subseteq Conn /\ done \subseteq Conn
    /\ place \in [Conn -> Place]
    /\ watch \in {"wait", "socket", "join", "skipped", "returned"}
    /\ owner \in {"run", "queue", "shutdown", "uds", "socket", "join", "serve",
                  "returned"}

QueueOK ==
    /\ queue \in Seq(Conn) /\ Len(queue) <= Cap
    /\ Uniq(queue)
    /\ \A c \in Conn : (place[c] = "queue") <=> In(c, queue)

(* What a handler's program counter says of its connection.                *)
Stage(c) ==
    /\ hand[c] \in {"none", "header", "push", "send"} =>
          place[c] = "none" /\ c \notin done
    /\ hand[c] = "none" => c \notin live
    /\ hand[c] \in {"header", "push", "send"} => c \in live
    /\ hand[c] = "wait" =>
          \/ place[c] \in Held /\ c \in live /\ c \notin done
          \/ place[c] = "over" /\ c \notin live /\ c \in done
    /\ hand[c] = "done" => place[c] \in {"none", "over"} /\ c \notin live

(* One of the two callers set closing; that one returns only after the     *)
(* join, and until the owner reaches Close only the watcher can have.      *)
Closers ==
    /\ watch \in {"socket", "join", "skipped", "returned"} => closing
    /\ owner \in {"socket", "join"} => closing /\ watch \in {"wait", "skipped"}
    /\ owner \in {"run", "queue", "shutdown", "uds"} /\ closing =>
          watch \in {"socket", "join", "returned"}
    /\ owner \in {"serve", "returned"} /\ watch \in {"wait", "skipped"} => Joined
    /\ watch = "returned" => Joined

IInv == Types /\ QueueOK /\ (\A c \in Conn : Stage(c)) /\ Closers

-----------------------------------------------------------------------------
(* Appending a connection that is not queued adds it and keeps the queue   *)
(* without duplicates.                                                     *)
LEMMA AppendQueue ==
    ASSUME NEW q \in Seq(Conn), NEW c \in Conn, Uniq(q), ~In(c, q)
    PROVE  /\ Append(q, c) \in Seq(Conn)
           /\ Len(Append(q, c)) = Len(q) + 1
           /\ Uniq(Append(q, c))
           /\ \A d : In(d, Append(q, c)) <=> (d = c \/ In(d, q))
<1>1. /\ Append(q, c) \in Seq(Conn) /\ Len(q) \in Nat
      /\ Len(Append(q, c)) = Len(q) + 1
      /\ \A i \in 1..Len(q) : Append(q, c)[i] = q[i]
      /\ Append(q, c)[Len(q) + 1] = c
  OBVIOUS
<1>2. \A i \in 1..(Len(q) + 1) : i \in 1..Len(q) \/ i = Len(q) + 1
  BY <1>1
<1>3. Uniq(Append(q, c))
  BY <1>1, <1>2 DEF Uniq, In
<1>4. \A d : In(d, Append(q, c)) <=> (d = c \/ In(d, q))
  BY <1>1, <1>2 DEF In
<1> QED BY <1>1, <1>3, <1>4

(* Taking the head of a queue without duplicates takes out exactly it.     *)
LEMMA TailQueue ==
    ASSUME NEW q \in Seq(Conn), q # <<>>, Uniq(q)
    PROVE  /\ Tail(q) \in Seq(Conn) /\ Head(q) \in Conn
           /\ Len(Tail(q)) = Len(q) - 1
           /\ Uniq(Tail(q))
           /\ In(Head(q), q)
           /\ \A d : In(d, Tail(q)) <=> (d # Head(q) /\ In(d, q))
<1>1. /\ Len(q) \in Nat \ {0} /\ Tail(q) \in Seq(Conn)
      /\ Head(q) = q[1] /\ Head(q) \in Conn
      /\ Len(Tail(q)) = Len(q) - 1
      /\ \A i \in 1..(Len(q) - 1) : Tail(q)[i] = q[i + 1]
  OBVIOUS
<1>2. Uniq(Tail(q))
  BY <1>1 DEF Uniq
<1>3. In(Head(q), q)
  BY <1>1 DEF In
<1>4. ASSUME NEW d, In(d, Tail(q)) PROVE d # Head(q) /\ In(d, q)
  BY <1>1, <1>4 DEF In, Uniq
<1>5. ASSUME NEW d, d # Head(q), In(d, q) PROVE In(d, Tail(q))
  <2>1. PICK i \in 1..Len(q) : q[i] = d
    BY <1>5 DEF In
  <2>2. i - 1 \in 1..(Len(q) - 1) /\ Tail(q)[i - 1] = d
    BY <1>1, <1>5, <2>1
  <2> QED BY <1>1, <2>2 DEF In
<1> QED BY <1>1, <1>2, <1>3, <1>4, <1>5

(* An empty queue holds nothing.                                           *)
LEMMA EmptyQueue == <<>> \in Seq(Conn) /\ Uniq(<<>>) /\ \A d : ~In(d, <<>>)
BY DEF Uniq, In

-----------------------------------------------------------------------------
(* At the start nothing is queued, accepted or closing.                    *)
LEMMA InitIInv == Init => IInv
<1> SUFFICES ASSUME Init PROVE IInv
  OBVIOUS
<1> USE DEF Init
<1>1. Types
  BY DEF Types, HandPC, Place
<1>2. QueueOK
  BY EmptyQueue, CapType DEF QueueOK
<1>3. \A c \in Conn : Stage(c)
  BY DEF Stage
<1>4. Closers
  BY DEF Closers
<1> QED BY <1>1, <1>2, <1>3, <1>4 DEF IInv

(* A handler that has begun has not returned, so nobody has joined.        *)
LEMMA NotJoined ==
    ASSUME NEW c \in Conn, hand[c] \notin {"none", "done"}
    PROVE  ~Joined
BY DEF Joined

(* A handler's step that leaves the queue alone, as the other connections  *)
(* see it: only c's handler, socket and wrapper change.                    *)
LEMMA OthersKeep ==
    ASSUME IInv, NEW c \in Conn, NEW pc \in HandPC,
           hand' = [hand EXCEPT ![c] = pc],
           live' \in {live, live \cup {c}, live \ {c}}, done' \in {done, done \cup {c}},
           UNCHANGED <<place, queue>>
    PROVE  /\ hand' \in [Conn -> HandPC] /\ hand'[c] = pc
           /\ live' \subseteq Conn /\ done' \subseteq Conn
           /\ QueueOK'
           /\ \A d \in Conn \ {c} : Stage(d)' /\ hand'[d] = hand[d]
<1>1. /\ hand \in [Conn -> HandPC] /\ live \subseteq Conn /\ done \subseteq Conn
      /\ QueueOK /\ \A d \in Conn : Stage(d)
  BY DEF IInv, Types
<1>2. hand' \in [Conn -> HandPC] /\ hand'[c] = pc
      /\ \A d \in Conn \ {c} : hand'[d] = hand[d]
  BY <1>1
<1>3. \A d \in Conn \ {c} : (d \in live' <=> d \in live) /\ (d \in done' <=> d \in done)
  OBVIOUS
<1>4. QueueOK'
  BY <1>1 DEF QueueOK
<1>5. \A d \in Conn \ {c} : Stage(d)'
  BY <1>1, <1>2, <1>3 DEF Stage
<1> QED BY <1>1, <1>2, <1>4, <1>5

(* The shutdown is where it was and a handler that had not returned moved: *)
(* nobody had joined, so nobody has returned from the join.                *)
LEMMA ClosersKept ==
    ASSUME Closers, ~Joined, UNCHANGED <<closing, watch, owner>>
    PROVE  Closers'
BY DEF Closers

(* acceptLoop takes a connection: the listener is not joined while it runs. *)
LEMMA AcceptStep ==
    ASSUME IInv, NEW c \in Conn, NEW n \in DOMAIN Stream, Accept(c, n)
    PROVE  IInv'
<1> USE DEF Accept, stopping
<1>1. /\ QueueOK' /\ \A d \in Conn \ {c} : Stage(d)'
      /\ hand' \in [Conn -> HandPC] /\ hand'[c] = "header"
      /\ live' \subseteq Conn /\ done' \subseteq Conn
  BY OthersKeep DEF HandPC
<1>2. Types'
  BY <1>1 DEF IInv, Types
<1>3. Stage(c)'
  BY <1>1 DEF IInv, Stage, Types
<1>4. Closers'
  BY ClosersKept DEF IInv, Joined
<1> QED BY <1>1, <1>2, <1>3, <1>4 DEF IInv

(* The steps of a handler before its connection has a consumer, and its    *)
(* return.                                                                 *)
LEMMA HandlerKeeps ==
    ASSUME IInv, NEW c \in Conn,
           Refused(c) \/ Validated(c) \/ PushTests(c) \/ waitClosed(c)
    PROVE  IInv'
<1>1. PICK pc \in {"push", "send", "done"} :
        /\ hand' = [hand EXCEPT ![c] = pc]
        /\ live' \in {live, live \cup {c}, live \ {c}} /\ done' \in {done, done \cup {c}}
        /\ UNCHANGED <<place, queue, stopping, accept, sent, qClosed, serve>>
        /\ pc = "done" => c \notin live'
        /\ pc # "done" => hand[c] # "wait" /\ live' = live /\ done' = done
        /\ hand[c] \in {"header", "push", "wait"}
        /\ hand[c] = "wait" => c \in done
  BY DEF Refused, Validated, PushTests, waitClosed, Return, Hand, CloseConn
<1>2. /\ QueueOK' /\ \A d \in Conn \ {c} : Stage(d)'
      /\ hand' \in [Conn -> HandPC] /\ hand'[c] = pc
      /\ live' \subseteq Conn /\ done' \subseteq Conn
  BY <1>1, OthersKeep DEF HandPC
<1>3. Types'
  BY <1>1, <1>2 DEF IInv, Types, stopping
<1>4. Stage(c)'
  BY <1>1, <1>2 DEF IInv, Stage, Held
<1>5. Closers'
  <2>1. ~Joined
    BY <1>1, NotJoined
  <2> QED BY <1>1, <2>1, ClosersKept DEF IInv, stopping
<1> QED BY <1>2, <1>3, <1>4, <1>5 DEF IInv

(* The send: on the closed channel it panics, on a full buffer it gives    *)
(* up, and otherwise the connection, which is not queued, goes to the end. *)
LEMMA PushSendsKeeps ==
    ASSUME IInv, NEW c \in Conn, PushSends(c)
    PROVE  IInv'
<1>1. hand[c] = "send" /\ UNCHANGED <<stopping, accept, sent, qClosed, serve>>
  BY DEF PushSends
<1>2. Closers'
  BY <1>1, NotJoined, ClosersKept DEF IInv, stopping
<1>3. CASE UNCHANGED <<place, queue>>
  <2>1. /\ hand' = [hand EXCEPT ![c] = "done"]
        /\ live' = live \ {c} /\ done' \in {done, done \cup {c}}
    BY <1>3, <1>1 DEF PushSends, Return, CloseConn, Hand, IInv, Types, HandPC, QueueOK
  <2>2. /\ QueueOK' /\ \A d \in Conn \ {c} : Stage(d)'
        /\ hand' \in [Conn -> HandPC] /\ hand'[c] = "done"
        /\ live' \subseteq Conn /\ done' \subseteq Conn
    BY <1>3, <2>1, OthersKeep DEF HandPC
  <2>3. Types'
    BY <1>1, <1>3, <2>2 DEF IInv, Types, stopping
  <2>4. Stage(c)'
    BY <1>1, <1>3, <2>1, <2>2 DEF IInv, Stage
  <2> QED BY <1>2, <2>2, <2>3, <2>4 DEF IInv
<1>4. CASE /\ ~qClosed /\ ~Full /\ Hand(c, "wait")
           /\ queue' = Append(queue, c)
           /\ place' = [place EXCEPT ![c] = "queue"]
           /\ UNCHANGED <<live, done>>
  <2>1. /\ queue \in Seq(Conn) /\ Uniq(queue) /\ ~In(c, queue) /\ Len(queue) < Cap
        /\ place \in [Conn -> Place] /\ hand \in [Conn -> HandPC]
        /\ \A d \in Conn : (place[d] = "queue") <=> In(d, queue)
        /\ c \in live /\ c \notin done /\ place[c] = "none"
    <3>1. place[c] = "none" /\ c \in live /\ c \notin done
      BY <1>1 DEF IInv, Stage
    <3>2. queue \in Seq(Conn) /\ Cap \in Nat /\ Len(queue) \in Nat /\ ~(Len(queue) >= Cap)
      BY <1>4, CapType DEF IInv, QueueOK, Full
    <3> QED BY <3>1, <3>2 DEF IInv, QueueOK, Types
  <2>2. /\ hand' \in [Conn -> HandPC] /\ hand'[c] = "wait"
        /\ place' \in [Conn -> Place] /\ place'[c] = "queue"
        /\ \A d \in Conn \ {c} : hand'[d] = hand[d] /\ place'[d] = place[d]
    BY <1>4, <2>1 DEF Hand, HandPC, Place
  <2>3. QueueOK'
    <3>1. queue' \in Seq(Conn) /\ Len(queue') <= Cap /\ Uniq(queue')
      BY <1>4, <2>1, AppendQueue, CapType
    <3>2. \A d \in Conn : In(d, queue') <=> (d = c \/ In(d, queue))
      BY <1>4, <2>1, AppendQueue
    <3> QED BY <2>1, <2>2, <3>1, <3>2 DEF QueueOK
  <2>4. Types'
    BY <1>1, <1>4, <2>2 DEF IInv, Types, stopping
  <2>5. \A d \in Conn : Stage(d)'
    BY <1>4, <2>1, <2>2 DEF IInv, Stage, Held
  <2> QED BY <1>2, <2>3, <2>4, <2>5 DEF IInv
<1> QED BY <1>3, <1>4 DEF PushSends

(* http.Server takes the head of the queue: the rest stays in place.       *)
LEMMA TakesKeeps ==
    ASSUME IInv, Takes
    PROVE  IInv'
<1> DEFINE h == Head(queue)
<1>1. /\ queue \in Seq(Conn) /\ queue # <<>> /\ Uniq(queue) /\ Len(queue) <= Cap
      /\ \A c \in Conn : (place[c] = "queue") <=> In(c, queue)
      /\ queue' = Tail(queue) /\ place' = [place EXCEPT ![h] = "http"]
      /\ UNCHANGED <<stopping, accept, hand, sent, live, done, qClosed, serve>>
      /\ place \in [Conn -> Place]
  BY DEF Takes, IInv, QueueOK, Types
<1>2. /\ Tail(queue) \in Seq(Conn) /\ h \in Conn
      /\ Len(Tail(queue)) = Len(queue) - 1
      /\ Uniq(Tail(queue)) /\ In(h, queue)
      /\ \A d : In(d, Tail(queue)) <=> (d # h /\ In(d, queue))
  BY <1>1, TailQueue
<1>3. place[h] = "queue"
  BY <1>1, <1>2
<1> HIDE DEF h
<1>4. /\ place' \in [Conn -> Place] /\ place'[h] = "http"
      /\ \A d \in Conn \ {h} : place'[d] = place[d]
  BY <1>1, <1>2 DEF Place
<1>5. QueueOK'
  <2>1. Len(Tail(queue)) <= Cap
    <3>1. Len(queue) \in Nat /\ Cap \in Nat
      BY <1>1, CapType
    <3> QED BY <1>1, <1>2, <3>1
  <2> QED BY <1>1, <1>2, <1>4, <2>1 DEF QueueOK
<1>6. Types'
  BY <1>1, <1>4 DEF IInv, Types, stopping
<1>7. \A d \in Conn : Stage(d)'
  BY <1>1, <1>2, <1>3, <1>4 DEF IInv, Stage, Held
<1>8. Closers'
  BY <1>1 DEF IInv, Closers, Joined, stopping
<1> QED BY <1>5, <1>6, <1>7, <1>8 DEF IInv

(* A consumer that passes a connection on or closes it: its handler waits, *)
(* and only the http.Server or a tunnel had it.                            *)
LEMMA ConsumerKeeps ==
    ASSUME IInv, NEW c \in Conn, HTTPCloses(c) \/ Hijacks(c) \/ TunnelCloses(c)
    PROVE  IInv'
<1>1. PICK p \in {"tunnel", "orphan", "over"} :
        /\ place[c] \in {"http", "tunnel", "orphan"}
        /\ place' = [place EXCEPT ![c] = p]
        /\ p = "over" => live' = live \ {c} /\ done' = done \cup {c}
        /\ p # "over" => UNCHANGED <<live, done>>
        /\ UNCHANGED <<stopping, accept, hand, sent, queue, qClosed, serve>>
  BY DEF HTTPCloses, Hijacks, TunnelCloses, CloseConn
<1>2. /\ place' \in [Conn -> Place] /\ place'[c] = p
      /\ \A d \in Conn \ {c} : place'[d] = place[d]
      /\ hand \in [Conn -> HandPC] /\ live' \subseteq Conn /\ done' \subseteq Conn
      /\ \A d \in Conn \ {c} : (d \in live' <=> d \in live) /\ (d \in done' <=> d \in done)
  BY <1>1 DEF IInv, Types, Place
<1>3. hand[c] = "wait" /\ c \in live /\ c \notin done
  BY <1>1 DEF IInv, Types, Stage, HandPC
<1>4. QueueOK'
  BY <1>1, <1>2 DEF IInv, QueueOK
<1>5. Types'
  BY <1>1, <1>2 DEF IInv, Types, stopping
<1>6. \A d \in Conn : Stage(d)'
  <2>1. Stage(c)'
    BY <1>1, <1>2, <1>3 DEF Stage, Held
  <2>2. \A d \in Conn \ {c} : Stage(d)'
    BY <1>1, <1>2 DEF IInv, Stage
  <2> QED BY <2>1, <2>2
<1>7. Closers'
  BY <1>1, <1>3, NotJoined, ClosersKept DEF IInv, stopping
<1> QED BY <1>4, <1>5, <1>6, <1>7 DEF IInv

(* The loops' ends and the shutdown: the connections stay as they are.     *)
LEMMA ShutdownKeeps ==
    ASSUME IInv,
           \/ AcceptFails \/ ServeReturns \/ CtxCancelled \/ WatchStep \/ OwnerStep
    PROVE  IInv'
<1> USE DEF IInv, flow, stopping
<1>1. UNCHANGED <<hand, live, done, place, queue, sent>>
  BY DEF AcceptFails, ServeReturns, CtxCancelled, WatchStep, WatchCloses,
         WatchClosesSocket, WatchJoins, OwnerStep, CloseCSTP, CloseQueue, Shutdown,
         CloseUDS, CloseSocket, CloseJoins, CloseReturnsFrom
<1>2. QueueOK' /\ \A c \in Conn : Stage(c)'
  BY <1>1 DEF QueueOK, Stage
<1>3. CASE AcceptFails \/ ServeReturns \/ CtxCancelled
  <2>1. UNCHANGED <<socket, closing, watch, owner>> /\ (accept = "done" => accept' = "done")
    BY <1>3 DEF AcceptFails, ServeReturns, CtxCancelled
  <2>2. Types'
    BY <1>1, <1>3, <2>1 DEF AcceptFails, ServeReturns, CtxCancelled, Types
  <2>3. Closers'
    BY <1>1, <2>1 DEF Closers, Joined
  <2> QED BY <1>2, <2>2, <2>3
<1>4. CASE WatchStep
  <2>1. UNCHANGED <<accept, owner>> /\ (Joined' <=> Joined)
    BY <1>1, <1>4 DEF WatchStep, WatchCloses, WatchClosesSocket, WatchJoins, Joined
  <2>2. Types'
    BY <1>1, <1>4 DEF WatchStep, WatchCloses, WatchClosesSocket, WatchJoins, Types, Closers
  <2>3. Closers'
    BY <2>1, <1>4 DEF WatchStep, WatchCloses, WatchClosesSocket, WatchJoins, Closers, Types
  <2> QED BY <1>2, <2>2, <2>3
<1>5. CASE OwnerStep
  <2> USE DEF OwnerStep, CloseCSTP, CloseQueue, Shutdown, CloseUDS, CloseSocket,
              CloseJoins, CloseReturnsFrom
  <2>1. UNCHANGED <<accept, watch>> /\ (Joined' <=> Joined)
    BY <1>1, <1>5 DEF Joined
  <2>2. Types'
    BY <1>1, <1>5 DEF Types, Closers
  <2>3. Closers'
    BY <2>1, <1>5 DEF Closers, Types
  <2> QED BY <1>2, <2>2, <2>3
<1> QED BY <1>3, <1>4, <1>5

-----------------------------------------------------------------------------
(* Every step of the hand-off preserves the invariant.                     *)
LEMMA NextIInv == IInv /\ [Next]_vars => IInv'
<1> SUFFICES ASSUME IInv, [Next]_vars PROVE IInv'
  OBVIOUS
<1>1. ASSUME NEW c \in Conn, Handler(c) PROVE IInv'
  BY <1>1, HandlerKeeps, PushSendsKeeps DEF Handler
<1>2. ASSUME NEW c \in Conn, NEW n \in DOMAIN Stream, Accept(c, n) PROVE IInv'
  BY <1>2, AcceptStep
<1>3. ASSUME NEW c \in Conn, HTTPCloses(c) \/ Hijacks(c) \/ TunnelCloses(c) PROVE IInv'
  BY <1>3, ConsumerKeeps
<1>4. CASE Takes
  BY <1>4, TakesKeeps
<1>5. CASE AcceptFails \/ ServeReturns \/ CtxCancelled \/ WatchStep \/ OwnerStep
  BY <1>5, ShutdownKeeps
<1>6. CASE UNCHANGED vars
  BY <1>6 DEF vars, IInv, Types, QueueOK, Stage, Closers, Joined
<1> QED BY <1>1, <1>2, <1>3, <1>4, <1>5, <1>6 DEF Next

(* A connection the queue, the http.Server or a tunnel has is open, its    *)
(* handler waits in waitClosed, and no handler returns leaving one open,   *)
(* for any number of connections racing the closing of the queue.          *)
THEOREM ConnOwnedHolds == Spec => []ConnOwned
<1>1. IInv => ConnOwned
  <2> SUFFICES ASSUME IInv PROVE ConnOwned
    OBVIOUS
  <2>1. TypeOK
    BY DEF IInv, Types, QueueOK, In, TypeOK
  <2>2. \A c \in Conn : /\ place[c] \in Held => c \in live /\ hand[c] = "wait"
                        /\ hand[c] = "done" => c \notin live
    BY DEF IInv, Types, Stage, Held, HandPC
  <2> QED BY <2>1, <2>2 DEF ConnOwned, Held
<1> QED BY <1>1, InitIInv, NextIInv, PTL DEF Spec

(* The StreamListener.Close that found closing unset returns only after    *)
(* the accept loop and every handler, with every accepted socket closed.   *)
THEOREM CloseWaitsHolds == Spec => []CloseWaits
<1>1. IInv => CloseWaits
  <2> SUFFICES ASSUME IInv, Joined PROVE live = {}
    BY DEF IInv, Closers, CloseWaits, Joined
  <2> QED BY DEF IInv, Types, Stage, Joined
<1> QED BY <1>1, InitIInv, NextIInv, PTL DEF Spec
=============================================================================
