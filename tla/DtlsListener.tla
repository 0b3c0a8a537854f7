---------------------------- MODULE DtlsListener ----------------------------
(***************************************************************************)
(* The AnyConnect-DTLS listener: internal/dtlsuds (listener.go, table.go,  *)
(* session.go) on top of the SOCK_DGRAM framework of                       *)
(* internal/udshandoff/datagram_listener.go.                               *)
(*                                                                         *)
(*   recv    the receive goroutine: one datagram after the other, the      *)
(*           handler inline;                                               *)
(*   hb      the heartbeat goroutine: a DPD request to a snapshot of the   *)
(*           table;                                                        *)
(*   walk    the eviction goroutine of the table;                          *)
(*   watch   the goroutine that closes the socket when ctx is cancelled;   *)
(*   owner   the caller of Listener.Close (run in cmd/era-ocserv/main.go). *)
(*                                                                         *)
(* Sessions are numbered in the order of their admission.  What the bridge *)
(* does in OnAdmit and OnEvict is module Bridge; here the callbacks are    *)
(* only recorded.                                                          *)
(***************************************************************************)
EXTENDS Wire

CONSTANTS
    Datagram,       \* the datagrams the facade may send: name -> bytes
    Key,            \* the 4-tuples they announce
    Unmap,          \* address -> the address with IPv4-in-IPv6 undone
    IdleTimeout,    \* ticks without a datagram before a session is evicted
    MaxSess,        \* bound: sessions admitted in a behaviour
    MaxNow,         \* bound: ticks of the clock
    None

ASSUME BoundTypes ==
    /\ IdleTimeout \in Nat \ {0}
    /\ MaxSess \in Nat \ {0}
    /\ MaxNow \in Nat
    /\ None \notin Nat

(* The records of a datagram's header are a sequence, lengths are counts.  *)
ASSUME DatagramTypes == \A d \in DOMAIN Datagram :
    LET recs == Datagram[d].pp2.tlvs IN
    /\ recs \in Seq({recs[i] : i \in 1..Len(recs)})
    /\ \A i \in 1..Len(recs) : recs[i].len \in Nat
    /\ {Datagram[d].tlvLen, Datagram[d].pp2.alen, Datagram[d].pay.len} \subseteq Nat

Session == 1..MaxSess
Spec_DTLS == matrix.anyconnect_dtls

VARIABLES
    now,        \* the clock
    ctx,        \* is the context cancelled?
    socket,     \* "open" | "closed"
    closing,    \* DatagramListener.closing
    table,      \* 4-tuple -> session | None
    sess,       \* session -> its record; its domain: the sessions made so far
    recv,       \* [pc, f: the datagram, s: the session]
    hb,         \* [pc, snap, todo, cur, told]: a sweep's snapshot, what is
                \*   left of it, the session at hand, the sessions served
    walk,       \* [pc, dl, todo, cur, got]: the deadline computed before the
                \*   lock, what is left of the pass, the session found idle;
                \*   got: the session that a datagram had looked up, and not yet
                \*   touched, when the pass took the lock
    watch,      \* pc of the ctx watcher
    owner,      \* pc of Listener.Close
    stop,       \* the stop channels that are closed: "hb", "table"
    stalled,    \* is the facade's receive queue full and not being read?
    admitted,   \* sessions OnAdmit was called for
    evicted     \* sessions OnEvict was called for

vars == <<now, ctx, socket, closing, table, sess, recv, hb, walk, watch,
          owner, stop, stalled, admitted, evicted>>

net == <<ctx, socket, closing, watch, owner, stop, stalled>>

(* The datagrams, decoded.                                                 *)
Frame == [d \in DOMAIN Datagram |-> DecodeDGramFrame(Datagram[d])]

(* What processFrame lets through to the handler.                          *)
Accepted ==
    {d \in DOMAIN Datagram :
        /\ Frame[d].err = "none"
        /\ Frame[d].Direction = DirFacadeToBackend
        /\ Validate(Spec_DTLS, AllTLVs(Frame[d]))}

normalised(f) == <<Unmap[f.Inner.src], Unmap[f.Inner.dst]>>

(* stringTLV: the header's own TLVs first, then the ERA block.             *)
FrameTLV(f, t) == Lookup(AllTLVs(f), t, None)

(* What the handler reads of the accepted datagrams.                       *)
Read ==
    {[name |-> d, key |-> normalised(Frame[d]),
      dev |-> DeviceIDFromSubjectDN(FrameTLV(Frame[d], EraTLVMTLSSubjectDN)),
      typ |-> Frame[d].Payload.typ] : d \in Accepted}

ASSUME KeysCover == \A f \in Read : f.key \in Key

Idle == [pc |-> "read", f |-> None, s |-> None]
Asleep == [pc |-> "wait", snap |-> {}, todo |-> {}, cur |-> None, told |-> {}]
NoPass == [pc |-> "wait", dl |-> 0, todo |-> {}, cur |-> None, got |-> {}]

Init ==
    /\ now = 0
    /\ ctx = FALSE
    /\ socket = "open" /\ closing = FALSE
    /\ table = [k \in Key |-> None]
    /\ sess = <<>>
    /\ recv = Idle
    /\ hb = Asleep
    /\ walk = NoPass
    /\ watch = "wait" /\ owner = "run"
    /\ stop = {} /\ stalled = FALSE
    /\ admitted = {} /\ evicted = {}

InTable == {table[k] : k \in Key} \ {None}
Attached(s) == sess[s].reply

-----------------------------------------------------------------------------
(* Table operations; each runs under table.mu, and waits while an eviction *)
(* pass holds it.  lastSeen and the reply closure are atomics: to touch a  *)
(* session or to load its closure needs no lock.                           *)

(* Mutant: a pass looks for idle sessions under no lock and takes it to    *)
(* delete one.                                                             *)
LockedToDelete == walk.pc # "evict"

TableFree == walk.pc \notin {"pass", "evict"}

(* Remove, RemoveAll and a pass: delete, detach, OnEvict.                  *)
Remove(S) ==
    /\ table' = [k \in Key |-> IF table[k] \in S THEN None ELSE table[k]]
    /\ sess' = [s \in DOMAIN sess |->
                   IF s \in S THEN [sess[s] EXCEPT !.reply = FALSE] ELSE sess[s]]
    /\ evicted' = evicted \cup S

newSession(f) ==
    [key |-> f.key, dev |-> f.dev, first |-> f.name, last |-> now, reply |-> TRUE]

-----------------------------------------------------------------------------
(* replyAnyConnect loads the closure in one step and writes in the next;   *)
(* what the goroutines are about to write for a session.  An oversize      *)
(* frame is an error instead of a write, and so is a closed socket; a      *)
(* write to a facade that does not read has no deadline and waits.         *)
Typed(typ, n) == [typ |-> typ, len |-> 1 + n]

Reply(s, pay) == [s |-> s, fits |-> ReplyFits(Frame[sess[s].first], pay),
                  frame |-> ReplyFrame(Frame[sess[s].first], pay)]

WriteTo == ~stalled \/ socket = "closed"

Writing ==
    {Reply(s, Typed("dpd_resp", Frame[recv.f.name].Payload.len - 1)) :
        s \in {x \in {recv.s} : recv.pc = "echo"}}
    \cup {Reply(s, Typed("dpd_out", 8)) : s \in {x \in {hb.cur} : hb.pc = "send"}}

-----------------------------------------------------------------------------
(* recvLoop and processFrame.                                              *)

SetRecv(pc, f, s) == recv' = [pc |-> pc, f |-> f, s |-> s]

(* A datagram that does not decode, runs the wrong way or fails the matrix *)
(* is dropped: nothing changes and the loop reads on.                      *)
Drop ==
    /\ recv.pc = "read" /\ socket = "open"
    /\ Accepted # DOMAIN Frame
    /\ UNCHANGED vars

(* handle: an accepted datagram; Get under the read lock.                  *)
Handle(f) ==
    /\ recv.pc = "read" /\ socket = "open" /\ TableFree
    /\ IF table[f.key] # None
         THEN SetRecv("touch", f, table[f.key])
         ELSE IF f.dev \in {ErrInvalidSubjectDN, ErrNoDeviceID}
         THEN UNCHANGED recv
         ELSE Len(sess) < MaxSess /\ SetRecv("resolve", f, None)
    /\ UNCHANGED <<now, net, table, sess, hb, walk, admitted, evicted>>

Touch ==
    /\ recv.pc = "touch"
    /\ sess' = [sess EXCEPT ![recv.s].last = now]
    /\ SetRecv("forward", recv.f, recv.s)
    /\ UNCHANGED <<now, net, table, hb, walk, admitted, evicted>>

(* Resolve under ResolveTimeout: an identity, or an error (a timeout, an   *)
(* unknown device, a cancelled context) that drops the datagram.           *)
Resolved ==
    /\ recv.pc = "resolve"
    /\ \/ SetRecv("admit", recv.f, None)
       \/ recv' = Idle
    /\ UNCHANGED <<now, net, table, sess, hb, walk, admitted, evicted>>

(* Only this goroutine creates sessions, so the key is still free.         *)
LoadOrCreate ==
    /\ recv.pc = "admit" /\ TableFree
    /\ LET s == Len(sess) + 1 IN
       /\ sess' = Append(sess, newSession(recv.f))
       /\ table' = [table EXCEPT ![recv.f.key] = s]
       /\ SetRecv("notify", recv.f, s)
    /\ UNCHANGED <<now, net, hb, walk, admitted, evicted>>

OnAdmit ==
    /\ recv.pc = "notify"
    /\ admitted' = admitted \cup {recv.s}
    /\ SetRecv("forward", recv.f, recv.s)
    /\ UNCHANGED <<now, net, table, sess, hb, walk, evicted>>

RemoveByKey(k) == Remove({table[k]} \ {None})

(* forwardPacket on the payload's type byte.                               *)
Forward ==
    LET typ == recv.f.typ IN
    /\ recv.pc = "forward"
    /\ \/ /\ typ \in {"none", "data", "dpd_resp", "keepalive", "unknown"}
          /\ UNCHANGED <<table, sess, evicted>>
          /\ recv' = Idle
       \/ /\ typ = "dpd_out"
          /\ IF Attached(recv.s) THEN SetRecv("echo", recv.f, recv.s)
                                 ELSE recv' = Idle
          /\ UNCHANGED <<table, sess, evicted>>
       \/ /\ typ = "disconnect" /\ TableFree
          /\ RemoveByKey(sess[recv.s].key)
          /\ recv' = Idle
    /\ UNCHANGED <<now, net, hb, walk, admitted>>

Echo ==
    /\ recv.pc = "echo" /\ WriteTo
    /\ recv' = Idle
    /\ UNCHANGED <<now, net, table, sess, hb, walk, admitted, evicted>>

(* ReadFrom fails once the socket is closed.                               *)
RecvReturns ==
    /\ recv.pc = "read" /\ socket = "closed"
    /\ SetRecv("done", None, None)
    /\ UNCHANGED <<now, net, table, sess, hb, walk, admitted, evicted>>

-----------------------------------------------------------------------------
(* heartbeatLoop.                                                          *)

SetHb(pc, todo, cur, told) ==
    hb' = [hb EXCEPT !.pc = pc, !.todo = todo, !.cur = cur, !.told = told]

HbSnapshot ==
    /\ hb.pc = "wait" /\ TableFree /\ InTable # {}
    /\ hb' = [Asleep EXCEPT !.pc = "load", !.snap = InTable, !.todo = InTable]
    /\ UNCHANGED <<now, net, table, sess, recv, walk, admitted, evicted>>

(* Mutant: the sweep ends at the first evicted session.                    *)
HbLoadBreaks(s) ==
    /\ hb.pc = "load" /\ s \in hb.todo
    /\ IF Attached(s) THEN SetHb("send", hb.todo \ {s}, s, hb.told)
                      ELSE SetHb("load", {}, None, hb.told)
    /\ UNCHANGED <<now, net, table, sess, recv, walk, admitted, evicted>>

(* replyAnyConnect loads the closure; a session evicted meanwhile is       *)
(* skipped and the sweep goes on.                                          *)
HbLoad(s) ==
    /\ hb.pc = "load" /\ s \in hb.todo
    /\ IF Attached(s) THEN SetHb("send", hb.todo \ {s}, s, hb.told)
                      ELSE SetHb("load", hb.todo \ {s}, None, hb.told)
    /\ UNCHANGED <<now, net, table, sess, recv, walk, admitted, evicted>>

HbSend ==
    /\ hb.pc = "send" /\ WriteTo
    /\ SetHb("load", hb.todo, None, hb.told \cup {hb.cur})
    /\ UNCHANGED <<now, net, table, sess, recv, walk, admitted, evicted>>

HbSwept ==
    /\ hb.pc = "load" /\ hb.todo = {}
    /\ hb' = Asleep
    /\ UNCHANGED <<now, net, table, sess, recv, walk, admitted, evicted>>

(* Mutant: stop is only looked at after a sweep with sessions.             *)
HbStopsIfBusy ==
    /\ hb.pc = "wait" /\ "hb" \in stop /\ InTable # {}
    /\ SetHb("done", {}, None, {})
    /\ UNCHANGED <<now, net, table, sess, recv, walk, admitted, evicted>>

HbReturns ==
    /\ hb.pc = "wait" /\ "hb" \in stop
    /\ SetHb("done", {}, None, {})
    /\ UNCHANGED <<now, net, table, sess, recv, walk, admitted, evicted>>

-----------------------------------------------------------------------------
(* evictLoop and runEvictionPass: the deadline is computed before the lock *)
(* is taken; each session's lastSeen is loaded in one step and, if it is   *)
(* older, the session deleted in the next.                                 *)

WalkTick ==
    /\ walk.pc = "wait" /\ now > IdleTimeout
    /\ walk' = [NoPass EXCEPT !.pc = "lock", !.dl = now - IdleTimeout]
    /\ UNCHANGED <<now, net, table, sess, recv, hb, admitted, evicted>>

PassLocks ==
    /\ walk.pc = "lock"
    /\ walk' = [walk EXCEPT !.pc = "pass", !.todo = InTable,
                            !.got = {s \in {recv.s} : recv.pc = "touch"}]
    /\ UNCHANGED <<now, net, table, sess, recv, hb, admitted, evicted>>

PassLoads(s) ==
    /\ walk.pc = "pass" /\ s \in walk.todo
    /\ IF sess[s].last < walk.dl
         THEN walk' = [walk EXCEPT !.pc = "evict", !.todo = @ \ {s}, !.cur = s]
         ELSE walk' = [walk EXCEPT !.todo = @ \ {s}]
    /\ UNCHANGED <<now, net, table, sess, recv, hb, admitted, evicted>>

PassEvicts ==
    /\ walk.pc = "evict"
    /\ Remove({walk.cur})
    /\ walk' = [walk EXCEPT !.pc = "pass", !.cur = None]
    /\ UNCHANGED <<now, net, recv, hb, admitted>>

PassUnlocks ==
    /\ walk.pc = "pass" /\ walk.todo = {}
    /\ walk' = NoPass
    /\ UNCHANGED <<now, net, table, sess, recv, hb, admitted, evicted>>

runEvictionPass ==
    PassLocks \/ (\E s \in walk.todo : PassLoads(s)) \/ PassEvicts \/ PassUnlocks

WalkReturns ==
    /\ walk.pc = "wait" /\ "table" \in stop
    /\ walk' = [NoPass EXCEPT !.pc = "done"]
    /\ UNCHANGED <<now, net, table, sess, recv, hb, admitted, evicted>>

-----------------------------------------------------------------------------
(* Shutdown.                                                               *)

rest == <<now, table, sess, recv, hb, walk, stalled, admitted, evicted>>

CtxCancelled ==
    /\ ~ctx /\ ctx' = TRUE
    /\ UNCHANGED <<rest, socket, closing, watch, owner, stop>>

(* The watcher tests closing and calls DatagramListener.Close, whose own   *)
(* test decides.                                                           *)
WatchCloses ==
    /\ watch = "wait" /\ ctx
    /\ IF closing THEN watch' = "skipped" /\ UNCHANGED closing
                  ELSE watch' = "socket" /\ closing' = TRUE
    /\ UNCHANGED <<rest, ctx, socket, owner, stop>>

WatchClosesSocket ==
    /\ watch = "socket"
    /\ watch' = "join" /\ socket' = "closed"
    /\ UNCHANGED <<rest, ctx, closing, owner, stop>>

WatchJoins ==
    /\ watch = "join" /\ recv.pc = "done"
    /\ watch' = "returned"
    /\ UNCHANGED <<rest, ctx, socket, closing, owner, stop>>

(* Listener.Close: stop the heartbeat and wait for it ...                  *)
CloseBegins ==
    /\ owner = "run"
    /\ owner' = "hb" /\ stop' = stop \cup {"hb"}
    /\ UNCHANGED <<rest, ctx, socket, closing, watch>>

(* ... close the UDS listener, which returns at once when the watcher has  *)
(* already begun to close it ...                                           *)
CloseUDS ==
    /\ owner = "hb" /\ hb.pc = "done"
    /\ IF closing THEN owner' = "table" /\ UNCHANGED closing
                  ELSE owner' = "socket" /\ closing' = TRUE
    /\ UNCHANGED <<rest, ctx, socket, watch, stop>>

CloseSocket ==
    /\ owner = "socket"
    /\ owner' = "join" /\ socket' = "closed"
    /\ UNCHANGED <<rest, ctx, closing, watch, stop>>

(* Mutant: Close does not wait for the receive loop.                       *)
CloseSkipsJoin ==
    /\ owner = "join" /\ owner' = "table"
    /\ UNCHANGED <<rest, ctx, socket, closing, watch, stop>>

CloseJoins ==
    /\ owner = "join" /\ recv.pc = "done"
    /\ owner' = "table"
    /\ UNCHANGED <<rest, ctx, socket, closing, watch, stop>>

(* ... and stop the table: the walker, then every session.                 *)
TableStop ==
    /\ owner = "table"
    /\ owner' = "walker" /\ stop' = stop \cup {"table"}
    /\ UNCHANGED <<rest, ctx, socket, closing, watch>>

RemoveAll ==
    /\ owner = "walker" /\ walk.pc = "done"
    /\ Remove(InTable)
    /\ owner' = "returned"
    /\ UNCHANGED <<now, ctx, socket, closing, watch, stop, stalled, recv, hb,
                   walk, admitted>>

-----------------------------------------------------------------------------
(* The facade's queue is full, which only a goroutine about to write finds *)
(* out, or the facade reads again.                                         *)
FacadeStalls ==
    /\ Writing # {} /\ socket = "open"
    /\ ~stalled /\ stalled' = TRUE
    /\ UNCHANGED <<now, ctx, socket, closing, watch, owner, stop, table, sess,
                   recv, hb, walk, admitted, evicted>>

FacadeReads ==
    /\ stalled /\ stalled' = FALSE
    /\ UNCHANGED <<now, ctx, socket, closing, watch, owner, stop, table, sess,
                   recv, hb, walk, admitted, evicted>>

(* The time a new session gets is read before LoadOrCreate; the step that  *)
(* reads it is merged with it, so no tick comes in between.                *)
Tick ==
    /\ now < MaxNow
    /\ recv.pc # "admit"
    /\ now' = now + 1
    /\ UNCHANGED <<net, table, sess, recv, hb, walk, admitted, evicted>>

Receive == \E f \in Read : Handle(f)
RecvStep == \/ Touch \/ Resolved \/ LoadOrCreate \/ OnAdmit \/ Forward \/ Echo
            \/ RecvReturns
HbStep == (\E s \in hb.todo : HbLoad(s)) \/ HbSend \/ HbSwept
WatchStep == WatchCloses \/ WatchClosesSocket \/ WatchJoins
OwnerStep == CloseUDS \/ CloseSocket \/ CloseJoins \/ TableStop \/ RemoveAll

(* Everything has returned.                                                *)
Stopped ==
    /\ owner = "returned" /\ recv.pc = "done"
    /\ UNCHANGED vars

Next == \/ Receive \/ Drop \/ RecvStep
        \/ HbSnapshot \/ HbStep \/ HbReturns
        \/ WalkTick \/ runEvictionPass \/ WalkReturns
        \/ CtxCancelled \/ WatchStep
        \/ CloseBegins \/ OwnerStep
        \/ FacadeStalls \/ FacadeReads
        \/ Tick \/ Stopped

Spec == Init /\ [][Next]_vars

(* Runnable goroutines run: a handler that has begun goes on (Resolve is   *)
(* bounded by ResolveTimeout), and so do a sweep, a pass and a Close; a    *)
(* write is only runnable while the facade reads or the socket is closed.  *)
(* Strong fairness where a ready step may be overtaken for a while: a      *)
(* waiter gets table.mu in the end although passes come again and again    *)
(* (a sync.RWMutex starves nobody), and a select whose stop channel is     *)
(* closed takes it in the end although the ticker may be ready too (the    *)
(* choice between ready cases is random).  Nothing makes the facade read.  *)
Fairness == /\ WF_vars(RecvStep) /\ SF_vars(LoadOrCreate) /\ SF_vars(Forward)
            /\ WF_vars(HbStep) /\ WF_vars(runEvictionPass)
            /\ SF_vars(HbReturns) /\ SF_vars(WalkReturns)
            /\ WF_vars(WatchStep) /\ WF_vars(OwnerStep)

FairSpec == Spec /\ Fairness

-----------------------------------------------------------------------------
RecvPC == {"read", "touch", "resolve", "admit", "notify", "forward", "echo",
           "done"}

(* Types; a goroutine that works on a session works on one that exists, and *)
(* a session is in the table exactly while its reply closure is installed. *)
TypeOK ==
    /\ now \in 0..MaxNow
    /\ ctx \in BOOLEAN /\ closing \in BOOLEAN
    /\ socket \in {"open", "closed"} /\ (socket = "closed" => closing)
    /\ Len(sess) <= MaxSess
    /\ table \in [Key -> DOMAIN sess \cup {None}]
    /\ \A k \in Key : table[k] # None => sess[table[k]].key = k
    /\ \A s \in DOMAIN sess : Attached(s) <=> s \in InTable
    /\ recv.pc \in RecvPC
    /\ recv.pc \in {"touch", "notify", "forward", "echo"} => recv.s \in DOMAIN sess
    /\ hb.pc \in {"wait", "load", "send", "done"} /\ hb.todo \subseteq DOMAIN sess
    /\ walk.pc \in {"wait", "lock", "pass", "evict", "done"}
    /\ walk.dl \in 0..MaxNow /\ walk.todo \subseteq DOMAIN sess
    /\ walk.pc = "evict" => walk.cur \in DOMAIN sess
    /\ watch \in {"wait", "socket", "join", "skipped", "returned"}
    /\ owner \in {"run", "hb", "socket", "join", "table", "walker", "returned"}
    /\ stop \subseteq {"hb", "table"} /\ stalled \in BOOLEAN
    /\ admitted \cup evicted \subseteq DOMAIN sess

(* Every frame written for a session, by the DPD echo or by the heartbeat, *)
(* decodes at the facade to a backend-to-facade frame with the PROXY-v2    *)
(* envelope and the ERA TLVs of the datagram that admitted that session:   *)
(* the facade routes replies by that 4-tuple (datagram_listener.go         *)
(* writeReply, reader.go Encode).                                          *)
ReplyRoutable ==
    /\ TypeOK
    /\ \A w \in Writing : w.fits =>
        LET f == DecodeDGramFrame(w.frame) IN
        /\ f.err = "none"
        /\ f.Direction = DirBackendToFacade
        /\ f.Inner = Frame[sess[w.s].first].Inner
        /\ f.ERA = Frame[sess[w.s].first].ERA
        /\ normalised(f) = sess[w.s].key

(* At every moment of a heartbeat sweep, the sessions of its snapshot that *)
(* were taken up and are still in the table were sent a DPD request: a     *)
(* session evicted during the sweep does not silence the others            *)
(* (heartbeatLoop's continue).                                             *)
SweepCoversLive ==
    (hb.snap \ (hb.todo \cup {hb.cur})) \cap InTable \subseteq hb.told

(* A session leaves the table only when it has not been heard of for       *)
(* longer than IdleTimeout, when its own 4-tuple sent a disconnect, when   *)
(* the listener closes, or when it is the one session whose datagram had   *)
(* looked it up, and not yet touched it, as the pass took the lock: touch  *)
(* takes no lock, so it may come between the pass's load of lastSeen and   *)
(* its delete.  No other datagram is overtaken: the deadline is computed   *)
(* before the lock, so it is never too young, and no lookup succeeds while *)
(* a pass runs (runEvictionPass, Get, touch).                              *)
EvictedForCause ==
    [][\A s \in InTable \ InTable' :
          \/ now - sess[s].last > IdleTimeout
          \/ walk.pc = "evict" /\ walk.got = {s}
          \/ /\ recv.pc = "forward" /\ recv.f.typ = "disconnect"
             /\ recv.f.key = sess[s].key
          \/ owner = "walker" /\ owner' = "returned"]_vars

(* Once Listener.Close has returned, the heartbeat and the walker are gone; *)
(* and unless the ctx watcher began to close the UDS listener first (then  *)
(* Close does not wait for the receive loop), the receive loop is gone, no *)
(* session is left, and OnEvict was called for exactly the sessions that   *)
(* OnAdmit was called for (Listener.Close, DatagramListener.Close,         *)
(* Table.Stop).                                                            *)
CloseEvicts ==
    owner = "returned" =>
      /\ hb.pc = "done" /\ walk.pc = "done" /\ closing
      /\ watch \in {"wait", "skipped"} =>
            recv.pc = "done" /\ InTable = {} /\ admitted = evicted

(* Listener.Close returns if the facade reads its socket in the end or ctx *)
(* is cancelled: Close waits for the heartbeat before it closes the        *)
(* socket, and a heartbeat's write to a facade that does not read ends     *)
(* only when the ctx watcher closes the socket under it (Listener.Close,   *)
(* heartbeatLoop, writeReply).                                             *)
CloseReturns ==
    <>[](~stalled \/ ctx) => (owner = "hb" ~> owner = "returned")
=============================================================================
