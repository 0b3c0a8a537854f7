------------------------------- MODULE Bridge -------------------------------
(***************************************************************************)
(* The TUN bridge of cmd/era-ocserv/bridge.go: the registry that maps an   *)
(* inner /128 (native and CLAT) to an activeClient, and every goroutine    *)
(* that changes it.                                                        *)
(*                                                                         *)
(*   - one pumpTunnel goroutine per accepted CSTP tunnel;                  *)
(*   - Recv, the dtlsuds receive goroutine: it admits sessions (OnAdmit),  *)
(*     forwards their datagrams and evicts on AC_PKT_DISCONN (OnEvict);    *)
(*   - Walker, the dtlsuds eviction goroutine (OnEvict under table.mu);    *)
(*   - one pumpTunQueue goroutine per tun queue.                           *)
(*                                                                         *)
(* A region under activeClient.mu, and one sync.Map operation, is one      *)
(* step; everything the code does between two of them is a state of the    *)
(* goroutine's pc.  An activeClient is named by the transport whose        *)
(* loadOrCreateClient stored it: each transport runs it once, so the name  *)
(* is unique.                                                              *)
(***************************************************************************)
EXTENDS Naturals

CONSTANTS
    Tunnel,         \* *cstp.Tunnel values, one per CONNECT
    Session,        \* *dtlsuds.Session values, one per admitted 4-tuple
    Queue,          \* tun queues
    Recv, Walker,   \* the two dtlsuds goroutines that run callbacks
    Addr,           \* inner /128 addresses
    None,           \* nil pointer / zero netip.Addr
    Native,         \* transport -> its identity's native /128
    Clat,           \* transport -> its identity's CLAT /128, or None
    Of,             \* session -> the tunnel whose CONNECT keyed its DTLS leg
    Size,           \* lengths of packets read from the tun
    HandlerStalls   \* may handle() be descheduled for a whole IdleTimeout?

Transport == Tunnel \cup Session
Client == Transport
Dtls == {Recv, Walker}
Proc == Tunnel \cup Dtls

(* ptb.go pins both caps; the CLAT one is taken before the -20 of SIIT64.  *)
ptbCapNative == 1400
ptbCapCLAT == 1420

ASSUME KindsDisjoint ==
    /\ Tunnel \cap Session = {}
    /\ Recv # Walker
    /\ Recv \notin Tunnel /\ Walker \notin Tunnel
    /\ None \notin Transport /\ None \notin Addr

ASSUME IdentityTypes ==
    /\ Native \in [Transport -> Addr]
    /\ Clat \in [Transport -> Addr \cup {None}]
    /\ Of \in [Session -> Tunnel]
    /\ Size \subseteq Nat
    /\ HandlerStalls \in BOOLEAN

(* TPM never hands an address of one device to another device.             *)
ASSUME AddressesPerDevice ==
    \A x, y \in Transport :
        Native[x] # Native[y] =>
            /\ Clat[x] # Native[y]
            /\ Clat[x] = Clat[y] => Clat[x] = None

VARIABLES
    clients,    \* bridge.clients : Addr -> activeClient
    cstp, dtls, \* activeClient.cstp, activeClient.dtls
    clatV6,     \* activeClient.clatV6; xlat is non-nil exactly when it is set
    pc,         \* where each goroutine is
    ac,         \* the local variable ac of each goroutine
    sess,       \* the session a dtlsuds goroutine is working on
    prev,       \* pumpTunnel's local prev
    xlat,       \* pumpTunnel's snapshot of the translator
    closed,     \* tunnels whose Close has run
    table,      \* dtlsuds.Table: sessions in it, their reply still attached
    made,       \* sessions ever created
    cancelled,  \* the process context
    tun         \* pumpTunQueue locals

shared == <<clients, cstp, dtls, clatV6>>
vars == <<clients, cstp, dtls, clatV6, pc, ac, sess, prev, xlat, closed,
          table, made, cancelled, tun>>

TunnelPC == {"unborn", "start", "attach", "closePrev", "clatLock", "clatStore",
             "pump", "deregNative", "deregClat", "final", "done"}
DtlsPC == {"idle", "start", "attach", "clatLock", "clatStore", "touch",
           "forward", "evict", "detach", "deregNative", "deregClat"}
(* Where the local variable ac points at a client.                         *)
BoundPC == {"attach", "closePrev", "clatLock", "clatStore", "pump", "detach",
            "deregNative", "deregClat", "final"}

TunLocals == [pc : {"read", "choose", "clat", "write", "exit"},
              dst : Addr \cup {None}, ac : Client \cup {None},
              tr : Transport \cup {None}, n : Nat, xlat : Addr \cup {None}]

IdleTun == [pc |-> "read", dst |-> None, ac |-> None, tr |-> None,
            n |-> 0, xlat |-> None]

Init ==
    /\ clients = [a \in Addr |-> None]
    /\ cstp = [c \in Client |-> None]
    /\ dtls = [c \in Client |-> None]
    /\ clatV6 = [c \in Client |-> None]
    /\ pc = [p \in Proc |-> IF p \in Tunnel THEN "unborn" ELSE "idle"]
    /\ ac = [p \in Proc |-> None]
    /\ sess = [p \in Dtls |-> None]
    /\ prev = [t \in Tunnel |-> None]
    /\ xlat = [t \in Tunnel |-> None]
    /\ closed = {}
    /\ table = {}
    /\ made = {}
    /\ cancelled = FALSE
    /\ tun = [q \in Queue |-> IdleTun]

(***************************************************************************)
(* What the goroutines share.                                              *)
(***************************************************************************)
(* The transport a goroutine works for.                                    *)
Xport(p) == IF p \in Tunnel THEN p ELSE sess[p]

Goto(p, l) == pc' = [pc EXCEPT ![p] = l]

(* installCLAT's first test: no CLAT /128, or the native one repeated.     *)
HasCLAT(x) == Clat[x] # None /\ Clat[x] # Native[x]

(* OnEvict runs inside table.mu, so it holds the lock at all its steps.    *)
HoldsTable(p) == pc[p] \in {"evict", "detach", "deregNative", "deregClat"}
TableFree == \A p \in Dtls : ~HoldsTable(p)

(* A dtlsuds goroutine returns to its loop and drops its locals.           *)
Rest(p) ==
    /\ Goto(p, "idle")
    /\ ac' = [ac EXCEPT ![p] = None]
    /\ sess' = [sess EXCEPT ![p] = None]

(* Mutant: activeClients are recycled through a pool of empty ones.        *)
PooledLoadOrCreate(p) ==
    LET a == Native[Xport(p)] IN
    /\ pc[p] = "start"
    /\ \/ /\ clients[a] # None
          /\ ac' = [ac EXCEPT ![p] = clients[a]]
          /\ UNCHANGED clients
       \/ /\ clients[a] = None
          /\ \E c \in Client :
                /\ cstp[c] = None /\ dtls[c] = None
                /\ \A b \in Addr : clients[b] # c
                /\ clients' = [clients EXCEPT ![a] = c]
                /\ ac' = [ac EXCEPT ![p] = c]
    /\ Goto(p, "attach")
    /\ UNCHANGED <<cstp, dtls, clatV6, sess, prev, xlat, closed, table, made,
                   cancelled, tun>>

(* loadOrCreateClient: Load, else LoadOrStore of a fresh activeClient.     *)
LoadOrCreateClient(p) ==
    LET a == Native[Xport(p)] IN
    /\ pc[p] = "start"
    /\ \/ /\ clients[a] # None
          /\ ac' = [ac EXCEPT ![p] = clients[a]]
          /\ UNCHANGED clients
       \/ /\ clients[a] = None
          /\ clients' = [clients EXCEPT ![a] = Xport(p)]
          /\ ac' = [ac EXCEPT ![p] = Xport(p)]
    /\ Goto(p, "attach")
    /\ UNCHANGED <<cstp, dtls, clatV6, sess, prev, xlat, closed, table, made,
                   cancelled, tun>>

(* Where installCLAT's caller continues; pumpTunnel snapshots ac.xlat.     *)
AfterCLAT(p, v) ==
    IF p \in Tunnel THEN /\ Goto(p, "pump")
                         /\ xlat' = [xlat EXCEPT ![p] = v]
                    ELSE /\ Goto(p, "forward")
                         /\ UNCHANGED xlat

(* Mutant: only the goroutine that created the client builds a translator. *)
CreatorInstallsXlat(p) ==
    /\ pc[p] = "clatLock"
    /\ clatV6' = IF HasCLAT(Xport(p)) /\ ac[p] = Xport(p)
                   THEN [clatV6 EXCEPT ![ac[p]] = Clat[Xport(p)]] ELSE clatV6
    /\ IF HasCLAT(Xport(p)) THEN Goto(p, "clatStore") /\ UNCHANGED xlat
                            ELSE AfterCLAT(p, clatV6[ac[p]])
    /\ UNCHANGED <<clients, cstp, dtls, ac, sess, prev, closed, table, made,
                   cancelled, tun>>

(* Mutant: only a CSTP tunnel builds a translator.                         *)
TunnelInstallsXlat(p) ==
    /\ pc[p] = "clatLock"
    /\ clatV6' = IF HasCLAT(Xport(p)) /\ p \in Tunnel
                   THEN [clatV6 EXCEPT ![ac[p]] = Clat[Xport(p)]] ELSE clatV6
    /\ IF HasCLAT(Xport(p)) THEN Goto(p, "clatStore") /\ UNCHANGED xlat
                            ELSE AfterCLAT(p, clatV6[ac[p]])
    /\ UNCHANGED <<clients, cstp, dtls, ac, sess, prev, closed, table, made,
                   cancelled, tun>>

(* installCLAT, the region under ac.mu: the translator is set only once.   *)
InstallXlat(p) ==
    /\ pc[p] = "clatLock"
    /\ \/ /\ ~HasCLAT(Xport(p))
          /\ AfterCLAT(p, clatV6[ac[p]])
          /\ UNCHANGED clatV6
       \/ /\ HasCLAT(Xport(p))
          /\ clatV6' = [clatV6 EXCEPT ![ac[p]] =
                            IF @ = None THEN Clat[Xport(p)] ELSE @]
          /\ Goto(p, "clatStore")
          /\ UNCHANGED xlat
    /\ UNCHANGED <<clients, cstp, dtls, ac, sess, prev, closed, table, made,
                   cancelled, tun>>

(* installCLAT, after the unlock: LoadOrStore of the second key.           *)
InstallKey(p) ==
    /\ pc[p] = "clatStore"
    /\ clients' = [clients EXCEPT ![Clat[Xport(p)]] =
                       IF @ = None THEN ac[p] ELSE @]
    /\ AfterCLAT(p, clatV6[ac[p]])
    /\ UNCHANGED <<cstp, dtls, clatV6, ac, sess, prev, closed, table, made,
                   cancelled, tun>>

(* Mutant: sync.Map.Delete, whoever holds the key.                         *)
Delete(a, c) == clients' = [clients EXCEPT ![a] = None]

(* sync.Map.CompareAndDelete(a, c).                                        *)
CompareAndDelete(a, c) ==
    clients' = [clients EXCEPT ![a] = IF @ = c THEN None ELSE @]

(* deregisterKeys, first CompareAndDelete.                                 *)
DeregNative(p) ==
    /\ pc[p] = "deregNative"
    /\ CompareAndDelete(Native[Xport(p)], ac[p])
    /\ Goto(p, "deregClat")
    /\ UNCHANGED <<cstp, dtls, clatV6, ac, sess, prev, xlat, closed, table,
                   made, cancelled, tun>>

(* deregisterKeys, the CLAT key.  ac.clatV6 never changes once set, so     *)
(* reading it under the lock and deleting after it is one step.            *)
DeregClat(p) ==
    LET c == clatV6[ac[p]] IN
    /\ pc[p] = "deregClat"
    /\ IF c # None /\ c # Native[Xport(p)]
         THEN CompareAndDelete(c, ac[p])
         ELSE UNCHANGED clients
    /\ IF p \in Tunnel
         THEN Goto(p, "final") /\ UNCHANGED <<ac, sess>>
         ELSE Rest(p)
    /\ UNCHANGED <<cstp, dtls, clatV6, prev, xlat, closed, table, made,
                   cancelled, tun>>

(***************************************************************************)
(* pumpTunnel                                                              *)
(***************************************************************************)
(* handleConnect: the response is on the wire (the client may open its     *)
(* DTLS leg) before the tunnel is published to Accept and pumped.          *)
Connect(t) ==
    /\ pc[t] = "unborn"
    /\ ~cancelled
    /\ Goto(t, "start")
    /\ UNCHANGED <<clients, cstp, dtls, clatV6, ac, sess, prev, xlat, closed,
                   table, made, cancelled, tun>>

(* The peer goes away, a frame is bad, or the idle timer fires.            *)
TunnelCloses(t) ==
    /\ pc[t] # "unborn"
    /\ t \notin closed
    /\ closed' = closed \cup {t}
    /\ UNCHANGED <<shared, pc, ac, sess, prev, xlat, table, made, cancelled, tun>>

(* A fresh CSTP tunnel takes the cstp slot and clears the dtls slot.       *)
AttachCSTP(t) ==
    /\ pc[t] = "attach"
    /\ prev' = [prev EXCEPT ![t] = cstp[ac[t]]]
    /\ cstp' = [cstp EXCEPT ![ac[t]] = t]
    /\ dtls' = [dtls EXCEPT ![ac[t]] = None]
    /\ Goto(t, "closePrev")
    /\ UNCHANGED <<clients, clatV6, ac, sess, xlat, closed, table, made,
                   cancelled, tun>>

(* Mutant: the displaced tunnel is logged but not closed.                  *)
ForgetPrev(t) ==
    /\ pc[t] = "closePrev"
    /\ prev' = [prev EXCEPT ![t] = None]
    /\ Goto(t, "clatLock")
    /\ UNCHANGED <<shared, ac, sess, xlat, closed, table, made, cancelled, tun>>

ClosePrev(t) ==
    /\ pc[t] = "closePrev"
    /\ closed' = closed \cup ({prev[t]} \ {None})
    /\ prev' = [prev EXCEPT ![t] = None]
    /\ Goto(t, "clatLock")
    /\ UNCHANGED <<shared, ac, sess, xlat, table, made, cancelled, tun>>

(* Mutant: a displaced tunnel waits to get its slot back.                  *)
LeaveOnlyOwner(t) ==
    LET c == ac[t] IN
    /\ pc[t] = "pump"
    /\ t \in closed \/ cancelled
    /\ cstp[c] = t
    /\ cstp' = [cstp EXCEPT ![c] = None]
    /\ Goto(t, IF dtls[c] = None THEN "deregNative" ELSE "final")
    /\ UNCHANGED <<clients, dtls, clatV6, ac, sess, prev, xlat, closed, table,
                   made, cancelled, tun>>

(* ReadPacket fails, or a packet was pumped after the context ended; the   *)
(* deferred function then gives up the slot under ac.mu.                   *)
LeaveCSTP(t) ==
    LET c == ac[t]
        left == IF cstp[c] = t THEN None ELSE cstp[c] IN
    /\ pc[t] = "pump"
    /\ t \in closed \/ cancelled
    /\ cstp' = [cstp EXCEPT ![c] = left]
    /\ Goto(t, IF left = None /\ dtls[c] = None THEN "deregNative" ELSE "final")
    /\ UNCHANGED <<clients, dtls, clatV6, ac, sess, prev, xlat, closed, table,
                   made, cancelled, tun>>

CloseSelf(t) ==
    /\ pc[t] = "final"
    /\ closed' = closed \cup {t}
    /\ ac' = [ac EXCEPT ![t] = None]
    /\ xlat' = [xlat EXCEPT ![t] = None]
    /\ Goto(t, "done")
    /\ UNCHANGED <<shared, sess, prev, table, made, cancelled, tun>>

(***************************************************************************)
(* dtlsuds: Listener.handle, forwardPacket, Table.Remove, the walker       *)
(***************************************************************************)
(* handle on a new 4-tuple whose device resolved: LoadOrCreate inserts.    *)
AdmitSession(s) ==
    /\ pc[Recv] = "idle"
    /\ TableFree
    /\ s \notin made
    /\ pc[Of[s]] # "unborn"
    /\ table' = table \cup {s}
    /\ made' = made \cup {s}
    /\ sess' = [sess EXCEPT ![Recv] = s]
    /\ Goto(Recv, "start")
    /\ UNCHANGED <<shared, ac, prev, xlat, closed, cancelled, tun>>

(* handle on a known 4-tuple: Get.                                         *)
KnownSession(s) ==
    /\ pc[Recv] = "idle"
    /\ TableFree
    /\ s \in table
    /\ sess' = [sess EXCEPT ![Recv] = s]
    /\ Goto(Recv, "touch")
    /\ UNCHANGED <<shared, ac, prev, xlat, closed, table, made, cancelled, tun>>

(* touch stamps lastSeen outside table.mu, whether or not the walker has   *)
(* evicted the session since Get.                                          *)
TouchSession ==
    /\ pc[Recv] = "touch"
    /\ Goto(Recv, "forward")
    /\ UNCHANGED <<shared, ac, sess, prev, xlat, closed, table, made, cancelled,
                   tun>>

(* OnAdmit: the session takes the dtls slot.                               *)
AttachDTLS ==
    /\ pc[Recv] = "attach"
    /\ dtls' = [dtls EXCEPT ![ac[Recv]] = sess[Recv]]
    /\ Goto(Recv, "clatLock")
    /\ UNCHANGED <<clients, cstp, clatV6, ac, sess, prev, xlat, closed, table,
                   made, cancelled, tun>>

(* forwardPacket: data, DPD, keepalive, unknown or empty payload, or       *)
(* AC_PKT_DISCONN for a session that has already left the table.           *)
ForwardPacket ==
    /\ pc[Recv] = "forward"
    /\ Rest(Recv)
    /\ UNCHANGED <<shared, prev, xlat, closed, table, made, cancelled, tun>>

(* Table delete + detach; OnEvict follows under the same lock.             *)
RemoveSession(p, s) ==
    /\ table' = table \ {s}
    /\ sess' = [sess EXCEPT ![p] = s]
    /\ ac' = [ac EXCEPT ![p] = None]
    /\ Goto(p, "evict")
    /\ UNCHANGED <<shared, prev, xlat, closed, made, cancelled, tun>>

(* forwardPacket on AC_PKT_DISCONN: Table.Remove.                          *)
ForwardDisconnect ==
    /\ pc[Recv] = "forward"
    /\ TableFree
    /\ sess[Recv] \in table
    /\ RemoveSession(Recv, sess[Recv])

(* runEvictionPass: a session idle for IdleTimeout.  The session in hand   *)
(* may be one: its lastSeen was loaded before touch stamped it, which      *)
(* takes no lock.  Between newSession and the end of OnAdmit it can be     *)
(* idle only if that handler stalls for the whole window.                  *)
EvictSession(s) ==
    /\ pc[Walker] = "idle"
    /\ TableFree
    /\ s \in table
    /\ HandlerStalls \/ sess[Recv] # s \/ pc[Recv] \in {"touch", "forward"}
    /\ RemoveSession(Walker, s)

(* Table.Stop's RemoveAll, once the context has ended: any session, while  *)
(* Recv may still be inside handle (DatagramListener.Close returns at once *)
(* when the context's own goroutine is already closing it).                *)
RemoveAll(s) ==
    /\ cancelled
    /\ pc[Walker] = "idle"
    /\ TableFree
    /\ s \in table
    /\ RemoveSession(Walker, s)

(* Mutant: OnEvict takes it for granted that the key is still there.       *)
EvictAssumesClient(p) ==
    /\ pc[p] = "evict"
    /\ ac' = [ac EXCEPT ![p] = clients[Native[sess[p]]]]
    /\ Goto(p, "detach")
    /\ UNCHANGED <<shared, sess, prev, xlat, closed, table, made, cancelled, tun>>

(* OnEvict: look the activeClient up by the native /128.                   *)
EvictLoad(p) ==
    LET c == clients[Native[sess[p]]] IN
    /\ pc[p] = "evict"
    /\ \/ c = None /\ Rest(p)
       \/ /\ c # None
          /\ ac' = [ac EXCEPT ![p] = c]
          /\ Goto(p, "detach")
          /\ UNCHANGED sess
    /\ UNCHANGED <<shared, prev, xlat, closed, table, made, cancelled, tun>>

(* Mutant: OnEvict returns early when a CSTP tunnel is still there.        *)
DetachUnlessCSTP(p) ==
    LET c == ac[p]
        left == IF dtls[c] = sess[p] THEN None ELSE dtls[c] IN
    /\ pc[p] = "detach"
    /\ \/ cstp[c] # None /\ Rest(p) /\ UNCHANGED dtls
       \/ /\ cstp[c] = None
          /\ dtls' = [dtls EXCEPT ![c] = left]
          /\ IF left = None THEN Goto(p, "deregNative") /\ UNCHANGED <<ac, sess>>
                            ELSE Rest(p)
    /\ UNCHANGED <<clients, cstp, clatV6, prev, xlat, closed, table, made,
                   cancelled, tun>>

(* Mutant: OnEvict deregisters without looking at the CSTP slot.           *)
DetachDeregisters(p) ==
    LET c == ac[p]
        left == IF dtls[c] = sess[p] THEN None ELSE dtls[c] IN
    /\ pc[p] = "detach"
    /\ dtls' = [dtls EXCEPT ![c] = left]
    /\ IF left = None
         THEN Goto(p, "deregNative") /\ UNCHANGED <<ac, sess>>
         ELSE Rest(p)
    /\ UNCHANGED <<clients, cstp, clatV6, prev, xlat, closed, table, made,
                   cancelled, tun>>

(* OnEvict: clear the dtls slot if it is still this session's.             *)
DetachDTLS(p) ==
    LET c == ac[p]
        left == IF dtls[c] = sess[p] THEN None ELSE dtls[c] IN
    /\ pc[p] = "detach"
    /\ dtls' = [dtls EXCEPT ![c] = left]
    /\ IF cstp[c] = None /\ left = None
         THEN Goto(p, "deregNative") /\ UNCHANGED <<ac, sess>>
         ELSE Rest(p)
    /\ UNCHANGED <<clients, cstp, clatV6, prev, xlat, closed, table, made,
                   cancelled, tun>>

(***************************************************************************)
(* pumpTunQueue                                                            *)
(***************************************************************************)
SetTun(q, r) == tun' = [tun EXCEPT ![q] = r]
TunOnly == UNCHANGED <<shared, pc, ac, sess, prev, xlat, closed, table, made,
                       cancelled>>

(* An IPv6 packet of n bytes to dst whose /128 is registered; others are   *)
(* skipped.                                                                *)
TunRead(q, dst, n) ==
    /\ tun[q].pc = "read"
    /\ clients[dst] # None
    /\ SetTun(q, [IdleTun EXCEPT !.pc = "choose", !.dst = dst, !.n = n,
                                 !.ac = clients[dst]])
    /\ TunOnly

(* chooseTransport: DTLS preferred, then CSTP.                             *)
chooseTransport(c) == IF dtls[c] # None THEN dtls[c] ELSE cstp[c]

TunChoose(q) ==
    LET tr == chooseTransport(tun[q].ac) IN
    /\ tun[q].pc = "choose"
    /\ SetTun(q, IF tr = None THEN IdleTun
                 ELSE [tun[q] EXCEPT !.pc = "clat", !.tr = tr])
    /\ TunOnly

(* The second region under ac.mu, the PTB test and SIIT64.  TunToClient    *)
(* may decline a packet (okx = FALSE).                                     *)
TunClassify(q) ==
    LET v == clatV6[tun[q].ac]
        isCLAT == v # None /\ tun[q].dst = v
        cap == IF isCLAT THEN ptbCapCLAT ELSE ptbCapNative IN
    /\ tun[q].pc = "clat"
    /\ \/ tun[q].n > cap /\ SetTun(q, IdleTun)
       \/ /\ tun[q].n <= cap
          /\ SetTun(q, [tun[q] EXCEPT !.pc = "write",
                                      !.xlat = IF isCLAT THEN v ELSE None])
       \/ tun[q].n <= cap /\ isCLAT /\ SetTun(q, IdleTun)
    /\ TunOnly

TunWrite(q) ==
    /\ tun[q].pc = "write"
    /\ SetTun(q, IF cancelled THEN [IdleTun EXCEPT !.pc = "exit"] ELSE IdleTun)
    /\ TunOnly

Cancel ==
    /\ ~cancelled
    /\ cancelled' = TRUE
    /\ UNCHANGED <<shared, pc, ac, sess, prev, xlat, closed, table, made, tun>>

(***************************************************************************)
(* The specification                                                       *)
(***************************************************************************)
Registry(p) ==
    \/ LoadOrCreateClient(p) \/ InstallXlat(p) \/ InstallKey(p)
    \/ DeregNative(p) \/ DeregClat(p)

PumpTunnel(t) ==
    \/ Registry(t) \/ AttachCSTP(t) \/ ClosePrev(t) \/ LeaveCSTP(t)
    \/ CloseSelf(t)

Callback(p) == Registry(p) \/ EvictLoad(p) \/ DetachDTLS(p)

TunQueue(q) ==
    \/ \E dst \in Addr, n \in Size : TunRead(q, dst, n)
    \/ TunChoose(q) \/ TunClassify(q) \/ TunWrite(q)

Next ==
    \/ \E t \in Tunnel : Connect(t) \/ TunnelCloses(t) \/ PumpTunnel(t)
    \/ \E s \in Session : AdmitSession(s) \/ KnownSession(s) \/ EvictSession(s)
                            \/ RemoveAll(s)
    \/ TouchSession \/ AttachDTLS \/ ForwardPacket \/ ForwardDisconnect
    \/ \E p \in Dtls : Callback(p)
    \/ \E q \in Queue : TunQueue(q)
    \/ Cancel

Spec == Init /\ [][Next]_vars

(* Goroutines that are not waiting for the outside world are scheduled.    *)
(* A tunnel that is pumping leaves only once it is closed: after the       *)
(* context ends it still blocks in ReadPacket.                             *)
Fairness ==
    /\ \A t \in Tunnel :
        /\ WF_vars(PumpTunnel(t) /\ (pc[t] = "pump" => t \in closed))
    /\ WF_vars(Callback(Recv) \/ TouchSession \/ AttachDTLS \/ ForwardPacket)
    /\ WF_vars(Callback(Walker))
    /\ \A q \in Queue : WF_vars(TunChoose(q) \/ TunClassify(q) \/ TunWrite(q))

FairSpec == Spec /\ Fairness

(***************************************************************************)
(* Properties                                                              *)
(***************************************************************************)
(* The locals a queue goroutine has read at each point of its loop.        *)
TunBound(r) ==
    /\ r.pc \in {"choose", "clat", "write"} => r.dst # None /\ r.ac # None
    /\ r.pc \in {"clat", "write"} => r.tr # None

TypeOK ==
    /\ clients \in [Addr -> Client \cup {None}]
    /\ cstp \in [Client -> Tunnel \cup {None}]
    /\ dtls \in [Client -> Session \cup {None}]
    /\ clatV6 \in [Client -> Addr \cup {None}]
    /\ pc \in [Proc -> TunnelPC \cup DtlsPC]
    /\ ac \in [Proc -> Client \cup {None}]
    /\ sess \in [Dtls -> Session \cup {None}]
    /\ prev \in [Tunnel -> Tunnel \cup {None}]
    /\ xlat \in [Tunnel -> Addr \cup {None}]
    /\ closed \subseteq Tunnel
    /\ table \subseteq Session
    /\ made \subseteq Session
    /\ cancelled \in BOOLEAN
    /\ tun \in [Queue -> TunLocals]
    /\ \A t \in Tunnel : pc[t] \in TunnelPC
    /\ \A p \in Dtls : pc[p] \in DtlsPC /\ (pc[p] # "idle" => sess[p] # None)
    /\ \A p \in Proc : pc[p] \in BoundPC => ac[p] # None
    /\ \A p \in Proc : pc[p] = "clatStore" => HasCLAT(Xport(p))
    /\ \A q \in Queue : TunBound(tun[q])

(* The addresses of the device that owns native /128 a.                    *)
AddrsOf(a) == {a} \cup {Clat[x] : x \in {y \in Transport : Native[y] = a}}

(* pumpTunQueue (bridge.go): whatever tears down or attaches between its   *)
(* Load, chooseTransport and WritePacket, a packet is only ever written to *)
(* a transport of the device that owns the packet's destination.           *)
EgressIsolation ==
    \A q \in Queue : tun[q].pc = "write" =>
        tun[q].dst \in AddrsOf(Native[tun[q].tr])

(* A device carries one CLAT /128 for all its transports.                  *)
UniformClat ==
    \A x, y \in Transport : Native[x] = Native[y] => Clat[x] = Clat[y]

(* pumpTunQueue/installCLAT: a packet found through the CLAT key is always *)
(* translated for that very /128, one found through the native key never   *)
(* is, although key, translator and slot change in separate steps.         *)
ClatTranslated ==
    \A q \in Queue : tun[q].pc = "write" =>
        tun[q].xlat = IF tun[q].dst = Native[tun[q].tr] THEN None ELSE tun[q].dst

(* pumpTunnel: once in its loop, the translator it snapshotted is the one  *)
(* of its own identity, whoever built it first.                            *)
IngressTranslatorCSTP ==
    \A t \in Tunnel : pc[t] = "pump" =>
        xlat[t] = IF HasCLAT(t) THEN Clat[t] ELSE None

Serving(t) == pc[t] \in {"closePrev", "clatLock", "clatStore", "pump"}

(* pumpTunnel: the cstp slot of a client never outlives the goroutine of   *)
(* the tunnel in it.                                                       *)
NoDanglingTunnel ==
    \A c \in Client : cstp[c] # None => Serving(cstp[c]) /\ ac[cstp[c]] = c

(* pumpTunnel's displacement: a serving tunnel that lost its slot is       *)
(* closed, or its successor is about to close it; no displaced goroutine   *)
(* keeps pumping.                                                          *)
DisplacedClosed ==
    \A t \in Tunnel : Serving(t) /\ cstp[ac[t]] # t =>
        t \in closed \/ \E u \in Tunnel : pc[u] = "closePrev" /\ prev[u] = t

(* Recv is past AdmitSession and has not finished OnAdmit for s.           *)
Admitting(s) ==
    sess[Recv] = s /\ pc[Recv] \in {"start", "attach", "clatLock", "clatStore"}

(* A goroutine is inside OnEvict for s and has not cleared the slot.       *)
Evicting(s) == \E p \in Dtls : sess[p] = s /\ pc[p] \in {"evict", "detach"}

(* OnAdmit/OnEvict: until the process stops, a client registered under its *)
(* native /128 never holds a session that has left the table, except while *)
(* that session's OnEvict runs.                                            *)
NoDeadDtlsRouted ==
    ~cancelled => \A c \in Client : dtls[c] # None /\ clients[Native[c]] = c =>
        dtls[c] \in table \/ Evicting(dtls[c])

(* Somebody still has to leave client c.                                   *)
Held(c) ==
    \/ cstp[c] # None \/ dtls[c] # None
    \/ \E p \in Proc : ac[p] = c /\ pc[p] \in {"attach", "deregNative"}

(* deregisterKeys: the last transport to leave removes the native key, in  *)
(* whatever order the leavers run; a native key without an owner would     *)
(* never be removed.                                                       *)
NoNativeLeak ==
    \A a \in Addr : (clients[a] # None /\ \E x \in Transport : Native[x] = a)
        => Held(clients[a])

(* Slots and native keys have an owner: the cstp slot never outlives its   *)
(* tunnel's goroutine, a displaced tunnel is closed by its successor, and  *)
(* a native key always has somebody left who will remove it.               *)
SlotsOwned == NoDanglingTunnel /\ DisplacedClosed /\ NoNativeLeak

(* deregisterKeys' CompareAndDelete: a key that is taken off the registry  *)
(* belonged to the client its remover found empty, and no step redirects   *)
(* a key to another client.                                                *)
KeysReleasedByOwner ==
    [][\A a \in Addr : clients[a] # None /\ clients'[a] # clients[a] =>
        /\ clients'[a] = None
        /\ \E p \in Proc : /\ pc[p] \in {"deregNative", "deregClat"}
                            /\ pc'[p] # pc[p]
                            /\ ac[p] = clients[a]]_vars

(* pumpTunnel and the dtlsuds goroutines: a tunnel that is closed (by its  *)
(* peer, by its idle timer or by its successor) is always given up by its  *)
(* goroutine, and a callback that holds the session table's lock always    *)
(* returns.                                                                *)
GoroutinesEnd ==
    /\ \A t \in Tunnel : t \in closed ~> pc[t] = "done"
    /\ \A p \in Dtls : pc[p] # "idle" ~> pc[p] = "idle"

(***************************************************************************)
(* What the comments of bridge.go promise about routing, stated where no   *)
(* goroutine is between two steps.                                         *)
(***************************************************************************)
Settled ==
    /\ \A t \in Tunnel : pc[t] \in {"unborn", "pump", "done"}
    /\ \A t \in Tunnel : pc[t] = "pump" => t \notin closed
    /\ \A p \in Dtls : pc[p] = "idle"
    /\ ~cancelled

(* bridge.go: "the bridge only deregisters the /128 entries when both go   *)
(* away": a client with a transport stays reachable under its native key.  *)
LiveTransportRoutable ==
    Settled => \A t \in Tunnel : pc[t] = "pump" /\ cstp[ac[t]] = t =>
        clients[Native[t]] = ac[t]

(* bridge.go: "The SAME *activeClient pointer is registered in the         *)
(* bridge's clients map under BOTH the native /128 and the CLAT /128".     *)
BothKeysAgree ==
    Settled => \A t \in Tunnel :
        (pc[t] = "pump" /\ HasCLAT(t) /\ clients[Native[t]] = ac[t])
            => clients[Clat[t]] = ac[t]

(* OnEvict: "clears the DTLS transport and removes the /128 entries        *)
(* (native + CLAT) if no CSTP tunnel is still active": once the last       *)
(* tunnel and the last session are gone the registry is empty.             *)
NoKeyLeak ==
    Settled /\ table = {} /\ (\A t \in Tunnel : pc[t] # "pump") =>
        \A a \in Addr : clients[a] = None

(* No goroutine tears the client of a device down while another one is     *)
(* attaching to it.                                                        *)
NoOverlap ==
    \A p, q \in Proc :
        /\ pc[p] \in {"attach", "closePrev", "clatLock", "clatStore"}
        /\ pc[q] \in {"deregNative", "deregClat"}
        => Native[Xport(p)] # Native[Xport(q)]

(* The overlap is all that stands between the code and its comments: in a  *)
(* behaviour where a device's teardown never overlaps an attachment to it, *)
(* whichever transports come, displace each other and leave, a live        *)
(* transport is always reachable under its native key, both keys lead to   *)
(* the same client, and no key is left behind (OnEvict, pumpTunnel's       *)
(* deferred function, deregisterKeys).                                     *)
KeysFollowWhenSerial ==
    []NoOverlap => [](LiveTransportRoutable /\ BothKeysAgree /\ NoKeyLeak)
=============================================================================
