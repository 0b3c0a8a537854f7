---------------------------- MODULE BridgeProofs ----------------------------
(***************************************************************************)
(* TLAPS proofs about Bridge, for any set of tunnels, sessions, queues and *)
(* any assignment of addresses that keeps devices apart.                   *)
(***************************************************************************)
EXTENDS Bridge, TLAPS

(* A queue goroutine's locals between two packets are well formed.         *)
LEMMA IdleTunOK == IdleTun \in TunLocals /\ TunBound(IdleTun)
  BY DEF IdleTun, TunLocals, TunBound

(* A step of pumpTunQueue touches only its own locals, so it keeps the     *)
(* type invariant when the new locals are well formed.                     *)
LEMMA TunStep ==
    ASSUME TypeOK, NEW q \in Queue, NEW r \in TunLocals, TunBound(r),
           SetTun(q, r), TunOnly
    PROVE  TypeOK'
  BY DEF TypeOK, SetTun, TunOnly, shared, Xport

(* Every step keeps the locals of all goroutines well formed: the type     *)
(* invariant of the registry, the slots and the pcs of bridge.go.          *)
THEOREM TypeCorrect == Spec => []TypeOK
<1> USE KindsDisjoint, IdentityTypes
    DEF Transport, Client, Dtls, Proc, TunnelPC, DtlsPC, BoundPC, Xport, HasCLAT,
        Goto
<1>1. Init => TypeOK
  <2> SUFFICES ASSUME Init PROVE TypeOK
    OBVIOUS
  <2>1. /\ pc \in [Proc -> TunnelPC \cup DtlsPC]
        /\ \A t \in Tunnel : pc[t] = "unborn"
        /\ \A p \in Dtls : pc[p] = "idle"
    BY DEF Init
  <2>2. tun \in [Queue -> TunLocals] /\ \A q \in Queue : TunBound(tun[q])
    BY IdleTunOK DEF Init
  <2>3. \A p \in Proc : pc[p] \notin BoundPC /\ pc[p] # "clatStore"
    BY <2>1
  <2>4. QED
    BY <2>1, <2>2, <2>3 DEF Init, TypeOK
<1>2. TypeOK /\ [Next]_vars => TypeOK'
  <2> SUFFICES ASSUME TypeOK, [Next]_vars PROVE TypeOK'
    OBVIOUS
  <2>1. ASSUME NEW t \in Tunnel, Connect(t) PROVE TypeOK'
    BY <2>1 DEF TypeOK, Connect
  <2>2. ASSUME NEW t \in Tunnel, TunnelCloses(t) PROVE TypeOK'
    BY <2>2 DEF TypeOK, TunnelCloses, shared
  <2>3. ASSUME NEW p \in Proc, LoadOrCreateClient(p) PROVE TypeOK'
    BY <2>3 DEF TypeOK, LoadOrCreateClient
  <2>4. ASSUME NEW p \in Proc, InstallXlat(p) PROVE TypeOK'
    BY <2>4 DEF TypeOK, InstallXlat, AfterCLAT
  <2>5. ASSUME NEW p \in Proc, InstallKey(p) PROVE TypeOK'
    <3>1. Clat[Xport(p)] \in Addr /\ ac[p] \in Client
      BY <2>5 DEF TypeOK, InstallKey
    <3>2. clients' \in [Addr -> Client \cup {None}]
      BY <2>5, <3>1 DEF TypeOK, InstallKey
    <3>3. xlat' \in [Tunnel -> Addr \cup {None}]
      BY <2>5, <3>1 DEF TypeOK, InstallKey, AfterCLAT
    <3>4. PICK l \in {"pump", "forward"} :
              /\ pc' = [pc EXCEPT ![p] = l]
              /\ l = IF p \in Tunnel THEN "pump" ELSE "forward"
      BY <2>5 DEF InstallKey, AfterCLAT
    <3>5. UNCHANGED <<cstp, dtls, clatV6, ac, sess, prev, closed, table, made,
                      cancelled, tun>>
      BY <2>5 DEF InstallKey
    <3>6. QED
      BY <2>5, <3>2, <3>3, <3>4, <3>5 DEF TypeOK, InstallKey
  <2>6. ASSUME NEW p \in Proc, DeregNative(p) PROVE TypeOK'
    BY <2>6 DEF TypeOK, DeregNative, CompareAndDelete
  <2>7. ASSUME NEW p \in Proc, DeregClat(p) PROVE TypeOK'
    BY <2>7 DEF TypeOK, DeregClat, CompareAndDelete, Rest
  <2>8. ASSUME NEW t \in Tunnel, AttachCSTP(t) PROVE TypeOK'
    BY <2>8 DEF TypeOK, AttachCSTP
  <2>9. ASSUME NEW t \in Tunnel, ClosePrev(t) PROVE TypeOK'
    BY <2>9 DEF TypeOK, ClosePrev, shared
  <2>10. ASSUME NEW t \in Tunnel, LeaveCSTP(t) PROVE TypeOK'
    BY <2>10 DEF TypeOK, LeaveCSTP
  <2>11. ASSUME NEW t \in Tunnel, CloseSelf(t) PROVE TypeOK'
    BY <2>11 DEF TypeOK, CloseSelf, shared
  <2>12. ASSUME NEW s \in Session, AdmitSession(s) PROVE TypeOK'
    BY <2>12 DEF TypeOK, AdmitSession, shared
  <2>13. ASSUME NEW s \in Session, KnownSession(s) PROVE TypeOK'
    BY <2>13 DEF TypeOK, KnownSession, shared
  <2>14. ASSUME NEW s \in Session, EvictSession(s) PROVE TypeOK'
    BY <2>14 DEF TypeOK, EvictSession, RemoveSession, shared
  <2>14a. CASE TouchSession
    BY <2>14a DEF TypeOK, TouchSession, shared
  <2>14b. ASSUME NEW s \in Session, RemoveAll(s) PROVE TypeOK'
    BY <2>14b DEF TypeOK, RemoveAll, RemoveSession, shared
  <2>15. CASE AttachDTLS
    BY <2>15 DEF TypeOK, AttachDTLS
  <2>16. CASE ForwardPacket
    BY <2>16 DEF TypeOK, ForwardPacket, Rest, shared
  <2>17. CASE ForwardDisconnect
    BY <2>17 DEF TypeOK, ForwardDisconnect, RemoveSession, shared
  <2>18. ASSUME NEW p \in Dtls, EvictLoad(p) PROVE TypeOK'
    BY <2>18 DEF TypeOK, EvictLoad, Rest, shared
  <2>19. ASSUME NEW p \in Dtls, DetachDTLS(p) PROVE TypeOK'
    <3>1. dtls' \in [Client -> Session \cup {None}]
      BY <2>19 DEF TypeOK, DetachDTLS
    <3>2. UNCHANGED <<clients, cstp, clatV6, prev, xlat, closed, table, made,
                      cancelled, tun>>
      BY <2>19 DEF DetachDTLS
    <3>3. CASE Goto(p, "deregNative") /\ UNCHANGED <<ac, sess>>
      BY <2>19, <3>1, <3>2, <3>3 DEF TypeOK, DetachDTLS
    <3>4. CASE Rest(p)
      BY <2>19, <3>1, <3>2, <3>4 DEF TypeOK, Rest
    <3>5. QED
      BY <2>19, <3>3, <3>4 DEF DetachDTLS
  <2>20. ASSUME NEW q \in Queue, NEW dst \in Addr, NEW n \in Size,
                TunRead(q, dst, n)
         PROVE TypeOK'
    <3> DEFINE r == [IdleTun EXCEPT !.pc = "choose", !.dst = dst, !.n = n,
                                    !.ac = clients[dst]]
    <3>1. clients[dst] \in Client
      BY <2>20 DEF TypeOK, TunRead
    <3>2. r \in TunLocals /\ TunBound(r)
      BY <3>1 DEF IdleTun, TunLocals, TunBound
    <3>3. SetTun(q, r) /\ TunOnly
      BY <2>20 DEF TunRead
    <3>4. QED
      BY <3>2, <3>3, TunStep
  <2>21. ASSUME NEW q \in Queue, TunChoose(q) PROVE TypeOK'
    <3> DEFINE r == [tun[q] EXCEPT !.pc = "clat", !.tr = chooseTransport(tun[q].ac)]
    <3>1. tun[q] \in TunLocals /\ TunBound(tun[q]) /\ tun[q].ac \in Client
      BY <2>21 DEF TypeOK, TunChoose, TunLocals, TunBound
    <3>2. chooseTransport(tun[q].ac) \in Transport \cup {None}
      BY <3>1 DEF TypeOK, chooseTransport
    <3>3. chooseTransport(tun[q].ac) # None => r \in TunLocals /\ TunBound(r)
      BY <3>1, <3>2, <2>21 DEF TunLocals, TunBound, TunChoose
    <3>4. QED
      BY <2>21, <3>3, IdleTunOK, TunStep DEF TunChoose
  <2>22. ASSUME NEW q \in Queue, TunClassify(q) PROVE TypeOK'
    <3>1. /\ tun[q] \in TunLocals /\ TunBound(tun[q]) /\ tun[q].ac \in Client
          /\ clatV6[tun[q].ac] \in Addr \cup {None}
      BY <2>22 DEF TypeOK, TunClassify, TunLocals, TunBound
    <3>2. ASSUME NEW v \in Addr \cup {None}
          PROVE LET r == [tun[q] EXCEPT !.pc = "write", !.xlat = v]
                IN r \in TunLocals /\ TunBound(r)
      BY <2>22, <3>1 DEF TunLocals, TunBound, TunClassify
    <3>3. PICK r \in TunLocals : TunBound(r) /\ SetTun(q, r)
      BY <2>22, <3>1, <3>2, IdleTunOK DEF TunClassify
    <3>4. QED
      BY <2>22, <3>3, TunStep DEF TunClassify
  <2>23. ASSUME NEW q \in Queue, TunWrite(q) PROVE TypeOK'
    <3>1. [IdleTun EXCEPT !.pc = "exit"] \in TunLocals
      BY DEF IdleTun, TunLocals
    <3>2. TunBound([IdleTun EXCEPT !.pc = "exit"])
      BY DEF IdleTun, TunBound
    <3>3. QED
      BY <2>23, <3>1, <3>2, IdleTunOK, TunStep DEF TunWrite
  <2>24. CASE Cancel
    BY <2>24 DEF TypeOK, Cancel, shared
  <2>25. CASE UNCHANGED vars
    BY <2>25 DEF TypeOK, vars
  <2>26. QED
    BY <2>1, <2>2, <2>3, <2>4, <2>5, <2>6, <2>7, <2>8, <2>9, <2>10, <2>11,
       <2>12, <2>13, <2>14, <2>14a, <2>14b, <2>15, <2>16, <2>17, <2>18, <2>19, <2>20, <2>21,
       <2>22, <2>23, <2>24, <2>25
       DEF Next, PumpTunnel, Registry, Callback, TunQueue
<1>3. QED
  BY <1>1, <1>2, PTL DEF Spec

(***************************************************************************)
(* Devices are kept apart.                                                 *)
(***************************************************************************)
(* Every pointer from the registry, a slot or a local variable of a        *)
(* goroutine stays within one device: the inductive form of                *)
(* EgressIsolation.                                                        *)
TunOwned(r) ==
    /\ r.pc \in {"choose", "clat", "write"} => r.dst \in AddrsOf(Native[r.ac])
    /\ r.pc \in {"clat", "write"} => Native[r.tr] = Native[r.ac]

DeviceInv ==
    /\ \A c \in Client : cstp[c] # None => Native[cstp[c]] = Native[c]
    /\ \A c \in Client : dtls[c] # None => Native[dtls[c]] = Native[c]
    /\ \A a \in Addr : clients[a] # None => a \in AddrsOf(Native[clients[a]])
    /\ \A p \in Proc : pc[p] \in BoundPC => Native[ac[p]] = Native[Xport(p)]
    /\ \A q \in Queue : TunOwned(tun[q])

(* A native /128 names its device: it is never another device's CLAT.      *)
LEMMA NativeNamesDevice ==
    ASSUME NEW c \in Client, NEW x \in Transport, Native[x] \in AddrsOf(Native[c])
    PROVE  Native[c] = Native[x]
  BY AddressesPerDevice, IdentityTypes DEF AddrsOf, Client

(* A step of pumpTunQueue keeps DeviceInv when its new locals do.          *)
LEMMA TunOwnedStep ==
    ASSUME TypeOK, DeviceInv, NEW q \in Queue, NEW r, TunOwned(r), SetTun(q, r), TunOnly
    PROVE  DeviceInv'
  BY DEF TypeOK, DeviceInv, SetTun, TunOnly, shared, Xport, TunOwned, AddrsOf

(* Every goroutine of the bridge keeps DeviceInv.                          *)
LEMMA DeviceInvStep == TypeOK /\ DeviceInv /\ [Next]_vars => DeviceInv'
<1> USE KindsDisjoint, IdentityTypes DEF Transport, Client, Dtls, Proc, Goto
<1> SUFFICES ASSUME TypeOK, DeviceInv, [Next]_vars PROVE DeviceInv'
  OBVIOUS
<1> USE DEF BoundPC
<1>1. ASSUME NEW t \in Tunnel, Connect(t) PROVE DeviceInv'
  BY <1>1 DEF TypeOK, DeviceInv, Connect, Xport
<1>2. ASSUME NEW t \in Tunnel, TunnelCloses(t) PROVE DeviceInv'
  BY <1>2 DEF TypeOK, DeviceInv, TunnelCloses, shared, Xport
<1>3. ASSUME NEW p \in Proc, LoadOrCreateClient(p) PROVE DeviceInv'
  <2> DEFINE x == Xport(p)
  <2>1. x \in Transport
    BY <1>3 DEF TypeOK, Xport, LoadOrCreateClient
  <2>2. Native[x] \in AddrsOf(Native[x])
    BY DEF AddrsOf
  <2>3. Native[ac'[p]] = Native[x]
    BY <1>3, <2>1, <2>2, NativeNamesDevice DEF TypeOK, DeviceInv, LoadOrCreateClient
  <2>4. \A a \in Addr : clients'[a] # None => a \in AddrsOf(Native[clients'[a]])
    BY <1>3, <2>1, <2>2 DEF TypeOK, DeviceInv, LoadOrCreateClient
  <2>5. \A r \in Proc : pc'[r] \in BoundPC => Native[ac'[r]] = Native[Xport(r)']
    BY <1>3, <2>3 DEF TypeOK, DeviceInv, LoadOrCreateClient, Xport
  <2>6. QED
    BY <1>3, <2>4, <2>5 DEF DeviceInv, LoadOrCreateClient
<1>4. ASSUME NEW p \in Proc, InstallXlat(p) PROVE DeviceInv'
  BY <1>4 DEF TypeOK, DeviceInv, InstallXlat, AfterCLAT, Xport
<1>5. ASSUME NEW p \in Proc, InstallKey(p) PROVE DeviceInv'
  <2> DEFINE x == Xport(p)
  <2>1. x \in Transport /\ ac[p] \in Client /\ Clat[x] \in Addr
    BY <1>5 DEF TypeOK, Xport, InstallKey, HasCLAT
  <2>2. Clat[x] \in AddrsOf(Native[ac[p]])
    BY <1>5, <2>1 DEF DeviceInv, InstallKey, AddrsOf
  <2>3. \A a \in Addr : clients'[a] # None => a \in AddrsOf(Native[clients'[a]])
    BY <1>5, <2>1, <2>2 DEF TypeOK, DeviceInv, InstallKey
  <2>4. \A r \in Proc : pc'[r] \in BoundPC => Native[ac'[r]] = Native[Xport(r)']
    BY <1>5 DEF TypeOK, DeviceInv, InstallKey, AfterCLAT, Xport
  <2>5. QED
    BY <1>5, <2>3, <2>4 DEF DeviceInv, InstallKey
<1>6. ASSUME NEW p \in Proc, DeregNative(p) PROVE DeviceInv'
  BY <1>6 DEF TypeOK, DeviceInv, DeregNative, CompareAndDelete, Xport
<1>7. ASSUME NEW p \in Proc, DeregClat(p) PROVE DeviceInv'
  <2>1. \A a \in Addr : clients'[a] # None => clients'[a] = clients[a]
    BY <1>7 DEF TypeOK, DeregClat, CompareAndDelete
  <2>2. \A r \in Proc : pc'[r] \in BoundPC => Native[ac'[r]] = Native[Xport(r)']
    BY <1>7 DEF TypeOK, DeviceInv, DeregClat, Rest, Xport
  <2>3. QED
    BY <1>7, <2>1, <2>2 DEF DeviceInv, DeregClat
<1>8. ASSUME NEW t \in Tunnel, AttachCSTP(t) PROVE DeviceInv'
  BY <1>8 DEF TypeOK, DeviceInv, AttachCSTP, Xport
<1>9. ASSUME NEW t \in Tunnel, ClosePrev(t) PROVE DeviceInv'
  BY <1>9 DEF TypeOK, DeviceInv, ClosePrev, shared, Xport
<1>10. ASSUME NEW t \in Tunnel, LeaveCSTP(t) PROVE DeviceInv'
  BY <1>10 DEF TypeOK, DeviceInv, LeaveCSTP, Xport
<1>11. ASSUME NEW t \in Tunnel, CloseSelf(t) PROVE DeviceInv'
  BY <1>11 DEF TypeOK, DeviceInv, CloseSelf, shared, Xport
<1>12. ASSUME NEW s \in Session, AdmitSession(s) PROVE DeviceInv'
  BY <1>12 DEF TypeOK, DeviceInv, AdmitSession, shared, Xport
<1>13. ASSUME NEW s \in Session, KnownSession(s) PROVE DeviceInv'
  BY <1>13 DEF TypeOK, DeviceInv, KnownSession, shared, Xport
<1>14. ASSUME NEW s \in Session, EvictSession(s) PROVE DeviceInv'
  BY <1>14 DEF TypeOK, DeviceInv, EvictSession, RemoveSession, shared, Xport
<1>14a. CASE TouchSession
  BY <1>14a DEF TypeOK, DeviceInv, TouchSession, shared, Xport
<1>14b. ASSUME NEW s \in Session, RemoveAll(s) PROVE DeviceInv'
  BY <1>14b DEF TypeOK, DeviceInv, RemoveAll, RemoveSession, shared, Xport
<1>15. CASE AttachDTLS
  BY <1>15 DEF TypeOK, DeviceInv, AttachDTLS, Xport
<1>16. CASE ForwardPacket
  BY <1>16 DEF TypeOK, DeviceInv, ForwardPacket, Rest, shared, Xport
<1>17. CASE ForwardDisconnect
  BY <1>17 DEF TypeOK, DeviceInv, ForwardDisconnect, RemoveSession, shared, Xport
<1>18. ASSUME NEW p \in Dtls, EvictLoad(p) PROVE DeviceInv'
  <2> DEFINE s == sess[p]
  <2>1. s \in Session /\ p \notin Tunnel
    BY <1>18 DEF TypeOK, EvictLoad
  <2>2. clients[Native[s]] # None => Native[clients[Native[s]]] = Native[s]
    BY <2>1, NativeNamesDevice DEF TypeOK, DeviceInv
  <2>3. \A r \in Proc : pc'[r] \in BoundPC => Native[ac'[r]] = Native[Xport(r)']
    BY <1>18, <2>1, <2>2 DEF TypeOK, DeviceInv, EvictLoad, Rest, Xport
  <2>4. QED
    BY <1>18, <2>3 DEF DeviceInv, EvictLoad, shared
<1>19. ASSUME NEW p \in Dtls, DetachDTLS(p) PROVE DeviceInv'
  BY <1>19 DEF TypeOK, DeviceInv, DetachDTLS, Rest, Xport
<1>20. ASSUME NEW q \in Queue, TunQueue(q) PROVE DeviceInv'
  <2>1. TunOwned(IdleTun) /\ TunOwned([IdleTun EXCEPT !.pc = "exit"])
    BY DEF TunOwned, IdleTun
  <2>2. ASSUME NEW dst \in Addr, NEW n \in Size, TunRead(q, dst, n) PROVE DeviceInv'
    BY <2>2, TunOwnedStep DEF TunRead, IdleTun, TunOwned, DeviceInv
  <2>3. CASE TunChoose(q)
    <3> DEFINE c == tun[q].ac
               r == [tun[q] EXCEPT !.pc = "clat", !.tr = chooseTransport(c)]
    <3>1. tun[q] \in TunLocals /\ c \in Client /\ tun[q].dst \in AddrsOf(Native[c])
      BY <2>3 DEF TypeOK, DeviceInv, TunChoose, TunLocals, TunBound, TunOwned
    <3>2. chooseTransport(c) # None => Native[chooseTransport(c)] = Native[c]
      BY <3>1 DEF TypeOK, DeviceInv, chooseTransport
    <3>3. chooseTransport(c) # None => TunOwned(r)
      BY <3>1, <3>2 DEF TunOwned, TunLocals
    <3>4. QED
      BY <2>1, <2>3, <3>3, TunOwnedStep DEF TunChoose
  <2>4. CASE TunClassify(q)
    <3>1. tun[q] \in TunLocals /\ TunOwned(tun[q])
      BY DEF TypeOK, DeviceInv
    <3>2. ASSUME NEW v PROVE TunOwned([tun[q] EXCEPT !.pc = "write", !.xlat = v])
      BY <2>4, <3>1 DEF TunOwned, TunLocals, TunClassify
    <3>3. PICK r : TunOwned(r) /\ SetTun(q, r)
      BY <2>1, <2>4, <3>2 DEF TunClassify
    <3>4. QED
      BY <2>4, <3>3, TunOwnedStep DEF TunClassify
  <2>5. CASE TunWrite(q)
    BY <2>1, <2>5, TunOwnedStep DEF TunWrite
  <2>6. QED
    BY <1>20, <2>2, <2>3, <2>4, <2>5 DEF TunQueue
<1>21. CASE Cancel
  BY <1>21 DEF DeviceInv, Cancel, shared, Xport
<1>22. CASE UNCHANGED vars
  BY <1>22 DEF DeviceInv, vars, Xport
<1>23. QED
  BY <1>1, <1>2, <1>3, <1>4, <1>5, <1>6, <1>7, <1>8, <1>9, <1>10, <1>11, <1>12,
     <1>13, <1>14, <1>14a, <1>14b, <1>15, <1>16, <1>17, <1>18, <1>19, <1>20, <1>21, <1>22
     DEF Next, PumpTunnel, Registry, Callback

(* An empty registry satisfies DeviceInv.                                  *)
LEMMA InitDevice == Init => DeviceInv
<1> SUFFICES ASSUME Init PROVE DeviceInv
  OBVIOUS
<1>1. \A p \in Proc : pc[p] \notin BoundPC
  BY DEF Init, BoundPC
<1>2. TunOwned(IdleTun)
  BY DEF TunOwned, IdleTun
<1>3. QED
  BY <1>1, <1>2 DEF Init, DeviceInv

(* bridge.go: for any number of devices, transports and queues, a packet   *)
(* read from the tun is written only to a transport of the device that     *)
(* owns its destination.                                                   *)
THEOREM EgressIsolated == Spec => []EgressIsolation
<1>1. Init => DeviceInv
  BY InitDevice
<1>2. TypeOK /\ DeviceInv => EgressIsolation
  BY DEF DeviceInv, EgressIsolation, TunOwned
<1>3. QED
  BY <1>1, <1>2, TypeCorrect, DeviceInvStep, PTL DEF Spec

(***************************************************************************)
(* The slots of an activeClient and its native key.                        *)
(***************************************************************************)
(* A client that nobody has created yet.                                   *)
Unborn(x) ==
    \/ x \in Tunnel /\ pc[x] \in {"unborn", "start"}
    \/ x \in Session /\ (x \notin made \/ (pc[Recv] = "start" /\ sess[Recv] = x))

(* Nothing points at such a client, and Walker only ever evicts.           *)
FreshInv ==
    /\ \A x \in Client : Unborn(x) =>
        /\ cstp[x] = None /\ dtls[x] = None
        /\ \A a \in Addr : clients[a] # x
        /\ \A p \in Proc : pc[p] \in BoundPC => ac[p] # x
    /\ pc[Walker] \in {"idle", "evict", "detach", "deregNative", "deregClat"}
    /\ \A p \in Dtls : pc[p] # "idle" => sess[p] \in made
    /\ table \subseteq made

(* loadOrCreateClient is the only step that brings a client into use.      *)
LEMMA FreshInvStep == TypeOK /\ FreshInv /\ [Next]_vars => FreshInv'
<1> USE KindsDisjoint, IdentityTypes DEF Transport, Client, Dtls, Proc, Goto, BoundPC
<1> SUFFICES ASSUME TypeOK, FreshInv, [Next]_vars PROVE FreshInv'
  OBVIOUS
<1>1. ASSUME NEW t \in Tunnel, Connect(t) PROVE FreshInv'
  BY <1>1 DEF TypeOK, FreshInv, Unborn, Connect
<1>2. ASSUME NEW t \in Tunnel, TunnelCloses(t) PROVE FreshInv'
  BY <1>2 DEF TypeOK, FreshInv, Unborn, TunnelCloses, shared
<1>3. ASSUME NEW p \in Proc, LoadOrCreateClient(p) PROVE FreshInv'
  <2>1. Xport(p) \in Client /\ Unborn(Xport(p)) /\ ~Unborn(Xport(p))'
    BY <1>3 DEF TypeOK, FreshInv, Unborn, LoadOrCreateClient, Xport
  <2>2. \A x \in Client : Unborn(x)' => Unborn(x) /\ x # Xport(p)
    BY <1>3, <2>1 DEF TypeOK, FreshInv, Unborn, LoadOrCreateClient, Xport
  <2>3. \A x \in Client : Unborn(x)' =>
            /\ \A a \in Addr : clients'[a] # x
            /\ \A r \in Proc : pc'[r] \in BoundPC => ac'[r] # x
    BY <1>3, <2>1, <2>2 DEF TypeOK, FreshInv, LoadOrCreateClient
  <2>4. p # Walker
    BY <1>3 DEF FreshInv, LoadOrCreateClient
  <2>5. QED
    BY <1>3, <2>2, <2>3, <2>4 DEF TypeOK, FreshInv, LoadOrCreateClient
<1>4. ASSUME NEW p \in Proc, InstallXlat(p) PROVE FreshInv'
  BY <1>4 DEF TypeOK, FreshInv, Unborn, InstallXlat, AfterCLAT
<1>5. ASSUME NEW p \in Proc, InstallKey(p) PROVE FreshInv'
  <2>1. ac[p] \in Client /\ \A x \in Client : Unborn(x) => ac[p] # x
    BY <1>5 DEF TypeOK, FreshInv, InstallKey
  <2>2. \A x \in Client : Unborn(x)' => Unborn(x)
    BY <1>5 DEF TypeOK, Unborn, InstallKey, AfterCLAT
  <2>3. \A a \in Addr : clients'[a] = clients[a] \/ clients'[a] = ac[p]
    BY <1>5 DEF TypeOK, InstallKey
  <2>4. QED
    BY <1>5, <2>1, <2>2, <2>3 DEF TypeOK, FreshInv, InstallKey, AfterCLAT
<1>6. ASSUME NEW p \in Proc, DeregNative(p) PROVE FreshInv'
  BY <1>6 DEF TypeOK, FreshInv, Unborn, DeregNative, CompareAndDelete
<1>7. ASSUME NEW p \in Proc, DeregClat(p) PROVE FreshInv'
  <2>1. \A a \in Addr : clients'[a] = clients[a] \/ clients'[a] = None
    BY <1>7 DEF TypeOK, DeregClat, CompareAndDelete
  <2>2. \A x \in Client : Unborn(x)' => Unborn(x)
    BY <1>7 DEF TypeOK, Unborn, DeregClat, Rest
  <2>3. QED
    BY <1>7, <2>1, <2>2 DEF TypeOK, FreshInv, DeregClat, Rest
<1>8. ASSUME NEW t \in Tunnel, AttachCSTP(t) PROVE FreshInv'
  BY <1>8 DEF TypeOK, FreshInv, Unborn, AttachCSTP
<1>9. ASSUME NEW t \in Tunnel, ClosePrev(t) PROVE FreshInv'
  BY <1>9 DEF TypeOK, FreshInv, Unborn, ClosePrev, shared
<1>10. ASSUME NEW t \in Tunnel, LeaveCSTP(t) PROVE FreshInv'
  BY <1>10 DEF TypeOK, FreshInv, Unborn, LeaveCSTP
<1>11. ASSUME NEW t \in Tunnel, CloseSelf(t) PROVE FreshInv'
  BY <1>11 DEF TypeOK, FreshInv, Unborn, CloseSelf, shared
<1>12. ASSUME NEW s \in Session, AdmitSession(s) PROVE FreshInv'
  BY <1>12 DEF TypeOK, FreshInv, Unborn, AdmitSession, shared
<1>13. ASSUME NEW s \in Session, KnownSession(s) PROVE FreshInv'
  BY <1>13 DEF TypeOK, FreshInv, Unborn, KnownSession, shared
<1>14. ASSUME NEW s \in Session, EvictSession(s) PROVE FreshInv'
  BY <1>14 DEF TypeOK, FreshInv, Unborn, EvictSession, RemoveSession, shared
<1>14a. CASE TouchSession
  BY <1>14a DEF TypeOK, FreshInv, Unborn, TouchSession, shared
<1>14b. ASSUME NEW s \in Session, RemoveAll(s) PROVE FreshInv'
  BY <1>14b DEF TypeOK, FreshInv, Unborn, RemoveAll, RemoveSession, shared
<1>15. CASE AttachDTLS
  BY <1>15 DEF TypeOK, FreshInv, Unborn, AttachDTLS
<1>16. CASE ForwardPacket
  BY <1>16 DEF TypeOK, FreshInv, Unborn, ForwardPacket, Rest, shared
<1>17. CASE ForwardDisconnect
  BY <1>17 DEF TypeOK, FreshInv, Unborn, ForwardDisconnect, RemoveSession, shared
<1>18. ASSUME NEW p \in Dtls, EvictLoad(p) PROVE FreshInv'
  BY <1>18 DEF TypeOK, FreshInv, Unborn, EvictLoad, Rest, shared
<1>19. ASSUME NEW p \in Dtls, DetachDTLS(p) PROVE FreshInv'
  BY <1>19 DEF TypeOK, FreshInv, Unborn, DetachDTLS, Rest
<1>20. ASSUME NEW q \in Queue, TunQueue(q) PROVE FreshInv'
  <2>1. TunOnly
    BY <1>20 DEF TunQueue, TunRead, TunChoose, TunClassify, TunWrite
  <2>2. QED
    BY <2>1 DEF FreshInv, Unborn, TunOnly, shared
<1>21. CASE Cancel
  BY <1>21 DEF FreshInv, Unborn, Cancel, shared
<1>22. CASE UNCHANGED vars
  BY <1>22 DEF FreshInv, Unborn, vars
<1>23. QED
  BY <1>1, <1>2, <1>3, <1>4, <1>5, <1>6, <1>7, <1>8, <1>9, <1>10, <1>11, <1>12,
     <1>13, <1>14, <1>14a, <1>14b, <1>15, <1>16, <1>17, <1>18, <1>19, <1>20, <1>21, <1>22
     DEF Next, PumpTunnel, Registry, Callback

(* pumpTunnel, its displacement and its deferred cleanup keep the cstp     *)
(* slots right.                                                            *)
LEMMA DisplacementStep ==
    TypeOK /\ NoDanglingTunnel /\ DisplacedClosed /\ [Next]_vars
        => (NoDanglingTunnel /\ DisplacedClosed)'
<1> USE KindsDisjoint, IdentityTypes DEF Transport, Client, Dtls, Proc, Goto
<1> SUFFICES ASSUME TypeOK, NoDanglingTunnel, DisplacedClosed, [Next]_vars PROVE (NoDanglingTunnel /\ DisplacedClosed)'
  OBVIOUS
<1>1. ASSUME NEW t \in Tunnel, Connect(t) PROVE (NoDanglingTunnel /\ DisplacedClosed)'
  BY <1>1 DEF TypeOK, NoDanglingTunnel, DisplacedClosed, Serving, Connect
<1>2. ASSUME NEW t \in Tunnel, TunnelCloses(t) PROVE (NoDanglingTunnel /\ DisplacedClosed)'
  BY <1>2 DEF TypeOK, NoDanglingTunnel, DisplacedClosed, Serving, TunnelCloses, shared
<1>3. ASSUME NEW p \in Proc, LoadOrCreateClient(p) PROVE (NoDanglingTunnel /\ DisplacedClosed)'
  BY <1>3 DEF TypeOK, NoDanglingTunnel, DisplacedClosed, Serving, LoadOrCreateClient
<1>4. ASSUME NEW p \in Proc, InstallXlat(p) PROVE (NoDanglingTunnel /\ DisplacedClosed)'
  <2>1. \A t \in Tunnel : /\ Serving(t)' <=> Serving(t)
                          /\ pc'[t] = "closePrev" <=> pc[t] = "closePrev"
    BY <1>4 DEF TypeOK, Serving, InstallXlat, AfterCLAT
  <2>2. UNCHANGED <<cstp, ac, prev, closed>>
    BY <1>4 DEF InstallXlat
  <2>3. QED
    BY <2>1, <2>2 DEF TypeOK, NoDanglingTunnel, DisplacedClosed
<1>5. ASSUME NEW p \in Proc, InstallKey(p) PROVE (NoDanglingTunnel /\ DisplacedClosed)'
  BY <1>5 DEF TypeOK, NoDanglingTunnel, DisplacedClosed, Serving, InstallKey, AfterCLAT
<1>6. ASSUME NEW p \in Proc, DeregNative(p) PROVE (NoDanglingTunnel /\ DisplacedClosed)'
  BY <1>6 DEF TypeOK, NoDanglingTunnel, DisplacedClosed, Serving, DeregNative, CompareAndDelete
<1>7. ASSUME NEW p \in Proc, DeregClat(p) PROVE (NoDanglingTunnel /\ DisplacedClosed)'
  BY <1>7 DEF TypeOK, NoDanglingTunnel, DisplacedClosed, Serving, DeregClat, CompareAndDelete, Rest
<1>8. ASSUME NEW t \in Tunnel, AttachCSTP(t) PROVE (NoDanglingTunnel /\ DisplacedClosed)'
  <2> DEFINE c == ac[t]
  <2>1. c \in Client
    BY <1>8 DEF TypeOK, AttachCSTP, BoundPC
  <2>2. /\ cstp' = [cstp EXCEPT ![c] = t] /\ prev' = [prev EXCEPT ![t] = cstp[c]]
        /\ pc' = [pc EXCEPT ![t] = "closePrev"] /\ UNCHANGED <<ac, closed>>
        /\ ~Serving(t)
    BY <1>8 DEF AttachCSTP, Serving
  <2>3. \A u \in Tunnel : Serving(u)' <=> u = t \/ Serving(u)
    BY <2>2 DEF TypeOK, Serving
  <2>4. NoDanglingTunnel'
    BY <2>1, <2>2, <2>3 DEF TypeOK, NoDanglingTunnel
  <2>5. ASSUME NEW u \in Tunnel, Serving(u)', cstp'[ac[u]] # u
        PROVE u \in closed \/ \E v \in Tunnel : pc'[v] = "closePrev" /\ prev'[v] = u
    <3>1. u # t /\ Serving(u) /\ ac[u] \in Client
      BY <2>1, <2>2, <2>3, <2>5 DEF TypeOK, Serving, BoundPC
    <3>2. CASE cstp[ac[u]] = u
      BY <2>1, <2>2, <2>5, <3>1, <3>2 DEF TypeOK
    <3>3. CASE cstp[ac[u]] # u
      <4>1. u \in closed \/ \E v \in Tunnel : pc[v] = "closePrev" /\ prev[v] = u
        BY <3>1, <3>3 DEF DisplacedClosed
      <4>2. pc[t] # "closePrev"
        BY <2>2 DEF Serving
      <4>3. QED
        BY <2>2, <4>1, <4>2 DEF TypeOK
    <3>4. QED
      BY <3>2, <3>3
  <2>6. QED
    BY <2>2, <2>4, <2>5 DEF DisplacedClosed
<1>9. ASSUME NEW t \in Tunnel, ClosePrev(t) PROVE (NoDanglingTunnel /\ DisplacedClosed)'
  BY <1>9 DEF TypeOK, NoDanglingTunnel, DisplacedClosed, Serving, ClosePrev, shared
<1>10. ASSUME NEW t \in Tunnel, LeaveCSTP(t) PROVE (NoDanglingTunnel /\ DisplacedClosed)'
  BY <1>10 DEF TypeOK, NoDanglingTunnel, DisplacedClosed, Serving, LeaveCSTP
<1>11. ASSUME NEW t \in Tunnel, CloseSelf(t) PROVE (NoDanglingTunnel /\ DisplacedClosed)'
  BY <1>11 DEF TypeOK, NoDanglingTunnel, DisplacedClosed, Serving, CloseSelf, shared
<1>12. ASSUME NEW s \in Session, AdmitSession(s) PROVE (NoDanglingTunnel /\ DisplacedClosed)'
  BY <1>12 DEF TypeOK, NoDanglingTunnel, DisplacedClosed, Serving, AdmitSession, shared
<1>13. ASSUME NEW s \in Session, KnownSession(s) PROVE (NoDanglingTunnel /\ DisplacedClosed)'
  BY <1>13 DEF TypeOK, NoDanglingTunnel, DisplacedClosed, Serving, KnownSession, shared
<1>14. ASSUME NEW s \in Session, EvictSession(s) PROVE (NoDanglingTunnel /\ DisplacedClosed)'
  BY <1>14 DEF TypeOK, NoDanglingTunnel, DisplacedClosed, Serving, EvictSession, RemoveSession, shared
<1>14a. CASE TouchSession
  BY <1>14a DEF TypeOK, NoDanglingTunnel, DisplacedClosed, Serving, TouchSession, shared
<1>14b. ASSUME NEW s \in Session, RemoveAll(s) PROVE (NoDanglingTunnel /\ DisplacedClosed)'
  BY <1>14b DEF TypeOK, NoDanglingTunnel, DisplacedClosed, Serving, RemoveAll, RemoveSession, shared
<1>15. CASE AttachDTLS
  BY <1>15 DEF TypeOK, NoDanglingTunnel, DisplacedClosed, Serving, AttachDTLS
<1>16. CASE ForwardPacket
  BY <1>16 DEF TypeOK, NoDanglingTunnel, DisplacedClosed, Serving, ForwardPacket, Rest, shared
<1>17. CASE ForwardDisconnect
  BY <1>17 DEF TypeOK, NoDanglingTunnel, DisplacedClosed, Serving, ForwardDisconnect, RemoveSession, shared
<1>18. ASSUME NEW p \in Dtls, EvictLoad(p) PROVE (NoDanglingTunnel /\ DisplacedClosed)'
  BY <1>18 DEF TypeOK, NoDanglingTunnel, DisplacedClosed, Serving, EvictLoad, Rest, shared
<1>19. ASSUME NEW p \in Dtls, DetachDTLS(p) PROVE (NoDanglingTunnel /\ DisplacedClosed)'
  BY <1>19 DEF TypeOK, NoDanglingTunnel, DisplacedClosed, Serving, DetachDTLS, Rest
<1>20. ASSUME NEW q \in Queue, TunQueue(q) PROVE (NoDanglingTunnel /\ DisplacedClosed)'
  <2>1. UNCHANGED <<cstp, pc, ac, prev, closed>>
    BY <1>20 DEF TunQueue, TunRead, TunChoose, TunClassify, TunWrite, TunOnly, shared
  <2>2. QED
    BY <2>1 DEF NoDanglingTunnel, DisplacedClosed, Serving
<1>21. CASE Cancel
  BY <1>21 DEF NoDanglingTunnel, DisplacedClosed, Serving, Cancel, shared
<1>22. CASE UNCHANGED vars
  BY <1>22 DEF NoDanglingTunnel, DisplacedClosed, Serving, vars
<1>23. QED
  BY <1>1, <1>2, <1>3, <1>4, <1>5, <1>6, <1>7, <1>8, <1>9, <1>10, <1>11, <1>12,
     <1>13, <1>14, <1>14a, <1>14b, <1>15, <1>16, <1>17, <1>18, <1>19, <1>20, <1>21, <1>22
     DEF Next, PumpTunnel, Registry, Callback

(* The native /128 of a device is never the second key of a client.        *)
LEMMA ClatKeyNotNative ==
    ASSUME NEW x \in Transport, HasCLAT(x)
    PROVE  \A y \in Transport : Native[y] # Clat[x]
  BY AddressesPerDevice, IdentityTypes, KindsDisjoint DEF HasCLAT

(* The leaver that empties a client goes on to remove its native key.      *)
LEMMA NoNativeLeakStep ==
    TypeOK /\ DeviceInv /\ NoNativeLeak /\ [Next]_vars => NoNativeLeak'
<1> USE KindsDisjoint, IdentityTypes DEF Transport, Client, Dtls, Proc, Goto
<1> SUFFICES ASSUME TypeOK, DeviceInv, NoNativeLeak, [Next]_vars PROVE NoNativeLeak'
  OBVIOUS
<1>1. ASSUME NEW t \in Tunnel, Connect(t) PROVE NoNativeLeak'
  BY <1>1 DEF TypeOK, NoNativeLeak, Held, Connect
<1>2. ASSUME NEW t \in Tunnel, TunnelCloses(t) PROVE NoNativeLeak'
  BY <1>2 DEF TypeOK, NoNativeLeak, Held, TunnelCloses, shared
<1>3. ASSUME NEW p \in Proc, LoadOrCreateClient(p) PROVE NoNativeLeak'
  BY <1>3 DEF TypeOK, NoNativeLeak, Held, LoadOrCreateClient
<1>4. ASSUME NEW p \in Proc, InstallXlat(p) PROVE NoNativeLeak'
  BY <1>4 DEF TypeOK, NoNativeLeak, Held, InstallXlat, AfterCLAT
<1>5. ASSUME NEW p \in Proc, InstallKey(p) PROVE NoNativeLeak'
  <2>1. Xport(p) \in Transport /\ HasCLAT(Xport(p))
    BY <1>5 DEF TypeOK, InstallKey, Xport
  <2>2. \A a \in Addr : (\E y \in Transport : Native[y] = a) => clients'[a] = clients[a]
    BY <1>5, <2>1, ClatKeyNotNative DEF TypeOK, InstallKey
  <2>3. \A c \in Client : Held(c) => Held(c)'
    BY <1>5 DEF TypeOK, Held, InstallKey, AfterCLAT
  <2>4. QED
    BY <2>2, <2>3 DEF TypeOK, NoNativeLeak
<1>6. ASSUME NEW p \in Proc, DeregNative(p) PROVE NoNativeLeak'
  <2> DEFINE c == ac[p]
  <2>1. c \in Client /\ Xport(p) \in Transport /\ Native[Xport(p)] = Native[c]
    BY <1>6 DEF TypeOK, DeviceInv, DeregNative, Xport, BoundPC
  <2>2. \A a \in Addr : clients'[a] # None => clients'[a] = clients[a]
    BY <1>6 DEF TypeOK, DeregNative, CompareAndDelete
  <2>3. clients'[Native[c]] # c
    BY <1>6, <2>1 DEF TypeOK, DeregNative, CompareAndDelete
  <2>4. ASSUME NEW a \in Addr, NEW x \in Transport, Native[x] = a, clients'[a] # None
        PROVE  clients'[a] # c
    BY <2>1, <2>2, <2>3, <2>4, NativeNamesDevice DEF TypeOK, DeviceInv
  <2>5. \A d \in Client : d # c /\ Held(d) => Held(d)'
    BY <1>6 DEF TypeOK, Held, DeregNative
  <2>6. QED
    BY <2>2, <2>4, <2>5 DEF TypeOK, NoNativeLeak
<1>7. ASSUME NEW p \in Proc, DeregClat(p) PROVE NoNativeLeak'
  <2>1. \A a \in Addr : clients'[a] # None => clients'[a] = clients[a]
    BY <1>7 DEF TypeOK, DeregClat, CompareAndDelete
  <2>2. \A c \in Client : Held(c) => Held(c)'
    BY <1>7 DEF TypeOK, Held, DeregClat, Rest
  <2>3. QED
    BY <2>1, <2>2 DEF TypeOK, NoNativeLeak
<1>8. ASSUME NEW t \in Tunnel, AttachCSTP(t) PROVE NoNativeLeak'
  BY <1>8 DEF TypeOK, NoNativeLeak, Held, AttachCSTP
<1>9. ASSUME NEW t \in Tunnel, ClosePrev(t) PROVE NoNativeLeak'
  BY <1>9 DEF TypeOK, NoNativeLeak, Held, ClosePrev, shared
<1>10. ASSUME NEW t \in Tunnel, LeaveCSTP(t) PROVE NoNativeLeak'
  <2>1. \A c \in Client : Held(c) => Held(c)'
    BY <1>10 DEF TypeOK, Held, LeaveCSTP, BoundPC
  <2>2. QED
    BY <1>10, <2>1 DEF TypeOK, NoNativeLeak, LeaveCSTP
<1>11. ASSUME NEW t \in Tunnel, CloseSelf(t) PROVE NoNativeLeak'
  BY <1>11 DEF TypeOK, NoNativeLeak, Held, CloseSelf, shared
<1>12. ASSUME NEW s \in Session, AdmitSession(s) PROVE NoNativeLeak'
  BY <1>12 DEF TypeOK, NoNativeLeak, Held, AdmitSession, shared
<1>13. ASSUME NEW s \in Session, KnownSession(s) PROVE NoNativeLeak'
  BY <1>13 DEF TypeOK, NoNativeLeak, Held, KnownSession, shared
<1>14. ASSUME NEW s \in Session, EvictSession(s) PROVE NoNativeLeak'
  BY <1>14 DEF TypeOK, NoNativeLeak, Held, EvictSession, RemoveSession, shared
<1>14a. CASE TouchSession
  BY <1>14a DEF TypeOK, NoNativeLeak, Held, TouchSession, shared
<1>14b. ASSUME NEW s \in Session, RemoveAll(s) PROVE NoNativeLeak'
  BY <1>14b DEF TypeOK, NoNativeLeak, Held, RemoveAll, RemoveSession, shared
<1>15. CASE AttachDTLS
  BY <1>15 DEF TypeOK, NoNativeLeak, Held, AttachDTLS
<1>16. CASE ForwardPacket
  BY <1>16 DEF TypeOK, NoNativeLeak, Held, ForwardPacket, Rest, shared
<1>17. CASE ForwardDisconnect
  BY <1>17 DEF TypeOK, NoNativeLeak, Held, ForwardDisconnect, RemoveSession, shared
<1>18. ASSUME NEW p \in Dtls, EvictLoad(p) PROVE NoNativeLeak'
  <2>1. \A c \in Client : Held(c) => Held(c)'
    BY <1>18 DEF TypeOK, Held, EvictLoad, Rest, shared
  <2>2. QED
    BY <1>18, <2>1 DEF TypeOK, NoNativeLeak, EvictLoad, shared
<1>19. ASSUME NEW p \in Dtls, DetachDTLS(p) PROVE NoNativeLeak'
  <2>1. \A c \in Client : Held(c) => Held(c)'
    BY <1>19 DEF TypeOK, Held, DetachDTLS, Rest, BoundPC
  <2>2. QED
    BY <1>19, <2>1 DEF TypeOK, NoNativeLeak, DetachDTLS
<1>20. ASSUME NEW q \in Queue, TunQueue(q) PROVE NoNativeLeak'
  <2>1. TunOnly
    BY <1>20 DEF TunQueue, TunRead, TunChoose, TunClassify, TunWrite
  <2>2. QED
    BY <2>1 DEF NoNativeLeak, Held, TunOnly, shared
<1>21. CASE Cancel
  BY <1>21 DEF NoNativeLeak, Held, Cancel, shared
<1>22. CASE UNCHANGED vars
  BY <1>22 DEF NoNativeLeak, Held, vars
<1>23. QED
  BY <1>1, <1>2, <1>3, <1>4, <1>5, <1>6, <1>7, <1>8, <1>9, <1>10, <1>11, <1>12,
     <1>13, <1>14, <1>14a, <1>14b, <1>15, <1>16, <1>17, <1>18, <1>19, <1>20, <1>21, <1>22
     DEF Next, PumpTunnel, Registry, Callback

(* bridge.go: the cstp slot never names a finished tunnel, a displaced     *)
(* tunnel is closed, and a native key always has somebody left who will    *)
(* remove it, for any number of transports.                                *)
THEOREM SlotsCorrect == Spec => []SlotsOwned
<1>1. Init => DeviceInv
  BY InitDevice
<1>2. Init => NoDanglingTunnel /\ DisplacedClosed /\ NoNativeLeak
  <2> SUFFICES ASSUME Init PROVE NoDanglingTunnel /\ DisplacedClosed /\ NoNativeLeak
    OBVIOUS
  <2>1. NoDanglingTunnel
    BY DEF Init, NoDanglingTunnel, Client
  <2>2. DisplacedClosed
    BY DEF Init, DisplacedClosed, Serving, Proc
  <2>3. NoNativeLeak
    BY DEF Init, NoNativeLeak
  <2>4. QED
    BY <2>1, <2>2, <2>3
<1>3. QED
  BY <1>1, <1>2, TypeCorrect, DeviceInvStep, DisplacementStep, NoNativeLeakStep, PTL
     DEF Spec, SlotsOwned

(* deregisterKeys: no step redirects a key, and the one that removes it    *)
(* removes it from the client it is deregistering.                         *)
THEOREM KeysReleased == Spec => KeysReleasedByOwner
<1> DEFINE Released == \A a \in Addr : clients[a] # None /\ clients'[a] # clients[a] =>
                /\ clients'[a] = None
                /\ \E p \in Proc : /\ pc[p] \in {"deregNative", "deregClat"}
                                    /\ pc'[p] # pc[p]
                                    /\ ac[p] = clients[a]
<1>1. TypeOK /\ [Next]_vars => [Released]_vars
  <2> USE DEF Proc, Dtls, Goto
  <2> SUFFICES ASSUME TypeOK, [Next]_vars PROVE Released \/ UNCHANGED vars
    OBVIOUS
  <2>1. ASSUME NEW p \in Proc, LoadOrCreateClient(p) PROVE Released
    BY <2>1 DEF TypeOK, LoadOrCreateClient
  <2>2. ASSUME NEW p \in Proc, InstallKey(p) PROVE Released
    BY <2>2 DEF TypeOK, InstallKey
  <2>3. ASSUME NEW p \in Proc, DeregNative(p) PROVE Released
    BY <2>3 DEF TypeOK, DeregNative, CompareAndDelete
  <2>4. ASSUME NEW p \in Proc, DeregClat(p) PROVE Released
    <3>1. /\ \A a \in Addr : clients'[a] # clients[a] =>
                clients'[a] = None /\ clients[a] = ac[p]
          /\ pc[p] = "deregClat" /\ pc'[p] # pc[p]
      BY <2>4 DEF TypeOK, DeregClat, CompareAndDelete, Rest
    <3>2. QED
      BY <3>1
  <2>5. CASE UNCHANGED clients
    BY <2>5
  <2>6. QED
    BY <2>1, <2>2, <2>3, <2>4, <2>5
       DEF Next, PumpTunnel, Registry, Callback, TunQueue, Connect, TunnelCloses,
           InstallXlat, AttachCSTP, ClosePrev, LeaveCSTP, CloseSelf, AdmitSession,
           KnownSession, TouchSession, EvictSession, RemoveAll, RemoveSession, AttachDTLS, ForwardPacket,
           ForwardDisconnect, EvictLoad, DetachDTLS, TunRead, TunChoose,
           TunClassify, TunWrite, TunOnly, Cancel, shared, vars
<1>2. QED
  BY <1>1, TypeCorrect, PTL DEF Spec, KeysReleasedByOwner

(***************************************************************************)
(* The dtls slot of a routed client.                                       *)
(***************************************************************************)
(* A session is in the table while OnAdmit runs and out of it while        *)
(* OnEvict runs, and OnEvict looks at the one routed client that can hold  *)
(* the session: the inductive form of NoDeadDtlsRouted.                    *)
DtlsInv ==
    ~cancelled =>
        /\ pc[Recv] \in {"start", "attach", "clatLock", "clatStore"} => sess[Recv] \in table
        /\ \A p \in Dtls : pc[p] \in {"evict", "detach"} => sess[p] \notin table
        /\ \A p \in Dtls : pc[p] = "detach" =>
            \A c \in Client : dtls[c] = sess[p] /\ clients[Native[c]] = c => c = ac[p]
        /\ NoDeadDtlsRouted

(* OnAdmit and OnEvict keep DtlsInv unless a handler stalls.               *)
LEMMA DtlsInvStep ==
    ASSUME ~HandlerStalls
    PROVE  TypeOK /\ DeviceInv /\ FreshInv /\ DtlsInv /\ [Next]_vars => DtlsInv'
<1> USE KindsDisjoint, IdentityTypes DEF Transport, Client, Dtls, Proc, Goto
<1> SUFFICES ASSUME TypeOK, DeviceInv, FreshInv, DtlsInv, [Next]_vars PROVE DtlsInv'
  OBVIOUS
<1>1. ASSUME NEW t \in Tunnel, Connect(t) PROVE DtlsInv'
  BY <1>1 DEF TypeOK, DtlsInv, NoDeadDtlsRouted, Evicting, Connect
<1>2. ASSUME NEW t \in Tunnel, TunnelCloses(t) PROVE DtlsInv'
  BY <1>2 DEF TypeOK, DtlsInv, NoDeadDtlsRouted, Evicting, TunnelCloses, shared
<1>3. ASSUME NEW p \in Proc, LoadOrCreateClient(p) PROVE DtlsInv'
  <2>1. Xport(p) \in Client /\ Unborn(Xport(p)) /\ p # Walker
    BY <1>3 DEF TypeOK, FreshInv, Unborn, LoadOrCreateClient, Xport
  <2>2. dtls[Xport(p)] = None
    BY <2>1 DEF FreshInv
  <2>3. \A c \in Client : dtls[c] # None /\ clients'[Native[c]] = c => clients[Native[c]] = c
    BY <1>3, <2>1, <2>2 DEF TypeOK, LoadOrCreateClient
  <2>4. \A r \in Dtls : /\ pc'[r] \in {"evict", "detach"} <=> pc[r] \in {"evict", "detach"}
                        /\ pc'[r] = "detach" => pc[r] = "detach" /\ ac'[r] = ac[r]
    BY <1>3 DEF TypeOK, LoadOrCreateClient
  <2>5. QED
    BY <1>3, <2>3, <2>4 DEF TypeOK, LoadOrCreateClient, DtlsInv, NoDeadDtlsRouted, Evicting
<1>4. ASSUME NEW p \in Proc, InstallXlat(p) PROVE DtlsInv'
  BY <1>4 DEF TypeOK, DtlsInv, NoDeadDtlsRouted, Evicting, InstallXlat, AfterCLAT
<1>5. ASSUME NEW p \in Proc, InstallKey(p) PROVE DtlsInv'
  <2>1. Xport(p) \in Transport /\ HasCLAT(Xport(p))
    BY <1>5 DEF TypeOK, InstallKey, Xport
  <2>2. \A c \in Client : clients'[Native[c]] = clients[Native[c]]
    BY <1>5, <2>1, ClatKeyNotNative DEF TypeOK, InstallKey
  <2>3. \A r \in Dtls : pc'[r] = pc[r] \/ (r = p /\ pc'[r] = "forward" /\ pc[r] = "clatStore")
    BY <1>5 DEF TypeOK, InstallKey, AfterCLAT
  <2>4. UNCHANGED <<dtls, ac, sess, table, cancelled>>
    BY <1>5 DEF InstallKey
  <2>5. QED
    BY <2>2, <2>3, <2>4 DEF DtlsInv, NoDeadDtlsRouted, Evicting
<1>6. ASSUME NEW p \in Proc, DeregNative(p) PROVE DtlsInv'
  <2>1. \A a \in Addr : clients'[a] = clients[a] \/ clients'[a] = None
    BY <1>6 DEF TypeOK, DeregNative, CompareAndDelete
  <2>2. \A r \in Dtls : pc'[r] = pc[r] \/ (pc'[r] = "deregClat" /\ pc[r] = "deregNative")
    BY <1>6 DEF TypeOK, DeregNative
  <2>3. QED
    BY <1>6, <2>1, <2>2 DEF TypeOK, DtlsInv, NoDeadDtlsRouted, Evicting, DeregNative
<1>7. ASSUME NEW p \in Proc, DeregClat(p) PROVE DtlsInv'
  <2>1. \A a \in Addr : clients'[a] = clients[a] \/ clients'[a] = None
    BY <1>7 DEF TypeOK, DeregClat, CompareAndDelete
  <2>2. \A r \in Dtls : \/ pc'[r] = pc[r] /\ sess'[r] = sess[r] /\ ac'[r] = ac[r]
                        \/ pc'[r] = "idle" /\ pc[r] = "deregClat"
    BY <1>7 DEF TypeOK, DeregClat, Rest
  <2>3. QED
    BY <1>7, <2>1, <2>2 DEF TypeOK, DtlsInv, NoDeadDtlsRouted, Evicting, DeregClat
<1>8. ASSUME NEW t \in Tunnel, AttachCSTP(t) PROVE DtlsInv'
  BY <1>8 DEF TypeOK, DtlsInv, NoDeadDtlsRouted, Evicting, AttachCSTP
<1>9. ASSUME NEW t \in Tunnel, ClosePrev(t) PROVE DtlsInv'
  BY <1>9 DEF TypeOK, DtlsInv, NoDeadDtlsRouted, Evicting, ClosePrev, shared
<1>10. ASSUME NEW t \in Tunnel, LeaveCSTP(t) PROVE DtlsInv'
  BY <1>10 DEF TypeOK, DtlsInv, NoDeadDtlsRouted, Evicting, LeaveCSTP
<1>11. ASSUME NEW t \in Tunnel, CloseSelf(t) PROVE DtlsInv'
  BY <1>11 DEF TypeOK, DtlsInv, NoDeadDtlsRouted, Evicting, CloseSelf, shared
<1>12. ASSUME NEW s \in Session, AdmitSession(s) PROVE DtlsInv'
  <2>1. s \notin made /\ s \notin table
    BY <1>12 DEF FreshInv, AdmitSession
  <2>2. \A r \in Dtls : pc[r] # "idle" => sess[r] # s
    BY <2>1 DEF FreshInv
  <2>3. QED
    BY <1>12, <2>1, <2>2
       DEF TypeOK, DtlsInv, NoDeadDtlsRouted, Evicting, AdmitSession, shared
<1>13. ASSUME NEW s \in Session, KnownSession(s) PROVE DtlsInv'
  BY <1>13 DEF TypeOK, DtlsInv, NoDeadDtlsRouted, Evicting, KnownSession, shared
<1>14. ASSUME NEW s \in Session, EvictSession(s) PROVE DtlsInv'
  BY <1>14 DEF TypeOK, DtlsInv, NoDeadDtlsRouted, Evicting, EvictSession, RemoveSession, shared
<1>14a. CASE TouchSession
  BY <1>14a DEF TypeOK, DtlsInv, NoDeadDtlsRouted, Evicting, TouchSession, shared
<1>14b. ASSUME NEW s \in Session, RemoveAll(s) PROVE DtlsInv'
  BY <1>14b DEF TypeOK, DtlsInv, NoDeadDtlsRouted, Evicting, RemoveAll, RemoveSession, shared
<1>15. CASE AttachDTLS
  BY <1>15 DEF TypeOK, DtlsInv, NoDeadDtlsRouted, Evicting, AttachDTLS
<1>16. CASE ForwardPacket
  BY <1>16 DEF TypeOK, DtlsInv, NoDeadDtlsRouted, Evicting, ForwardPacket, Rest, shared
<1>17. CASE ForwardDisconnect
  BY <1>17 DEF TypeOK, DtlsInv, NoDeadDtlsRouted, Evicting, ForwardDisconnect, RemoveSession, shared
<1>18. ASSUME NEW p \in Dtls, EvictLoad(p) PROVE DtlsInv'
  <2> DEFINE s == sess[p]
             c == clients[Native[s]]
  <2>1. s \in Session /\ pc[p] = "evict"
    BY <1>18 DEF TypeOK, EvictLoad
  <2>2. \A d \in Client : dtls[d] = s /\ clients[Native[d]] = d => d = c
    BY <2>1 DEF TypeOK, DeviceInv
  <2>3. CASE c = None
    <3>1. pc' = [pc EXCEPT ![p] = "idle"] /\ sess' = [sess EXCEPT ![p] = None]
      BY <1>18, <2>3 DEF EvictLoad, Rest
    <3>2. \A d \in Client : dtls[d] # None /\ clients[Native[d]] = d => dtls[d] # s
      BY <2>2, <2>3
    <3>3. QED
      BY <1>18, <2>1, <2>3, <3>1, <3>2
         DEF TypeOK, DtlsInv, NoDeadDtlsRouted, Evicting, EvictLoad, Rest, shared
  <2>4. CASE c # None
    <3>1. /\ pc' = [pc EXCEPT ![p] = "detach"] /\ ac' = [ac EXCEPT ![p] = c]
          /\ UNCHANGED <<sess, dtls, clients, table, cancelled>>
      BY <1>18, <2>4 DEF EvictLoad, Rest, shared
    <3>2. QED
      BY <2>1, <2>2, <3>1 DEF TypeOK, DtlsInv, NoDeadDtlsRouted, Evicting
  <2>5. QED
    BY <2>3, <2>4
<1>19. ASSUME NEW p \in Dtls, DetachDTLS(p) PROVE DtlsInv'
  <2> DEFINE s == sess[p]
             c == ac[p]
  <2>1. s \in Session /\ c \in Client /\ pc[p] = "detach"
    BY <1>19 DEF TypeOK, DetachDTLS, BoundPC
  <2>2. \A d \in Client : dtls'[d] # None => dtls'[d] = dtls[d] /\ (d = c => dtls[d] # s)
    BY <1>19, <2>1 DEF TypeOK, DetachDTLS
  <2>3. ~cancelled => \A d \in Client :
            dtls'[d] # None /\ clients[Native[d]] = d => dtls'[d] # s
    BY <2>1, <2>2 DEF DtlsInv
  <2>4. \A r \in Dtls : \/ r # p /\ pc'[r] = pc[r] /\ sess'[r] = sess[r] /\ ac'[r] = ac[r]
                        \/ r = p /\ pc'[r] \in {"idle", "deregNative"}
    BY <1>19 DEF TypeOK, DetachDTLS, Rest
  <2>5. UNCHANGED <<clients, table, cancelled>>
    BY <1>19 DEF DetachDTLS
  <2>6. QED
    BY <2>1, <2>2, <2>3, <2>4, <2>5 DEF TypeOK, DtlsInv, NoDeadDtlsRouted, Evicting
<1>20. ASSUME NEW q \in Queue, TunQueue(q) PROVE DtlsInv'
  <2>1. TunOnly
    BY <1>20 DEF TunQueue, TunRead, TunChoose, TunClassify, TunWrite
  <2>2. QED
    BY <2>1 DEF DtlsInv, NoDeadDtlsRouted, Evicting, TunOnly, shared
<1>21. CASE Cancel
  BY <1>21 DEF DtlsInv, NoDeadDtlsRouted, Evicting, Cancel, shared
<1>22. CASE UNCHANGED vars
  BY <1>22 DEF DtlsInv, NoDeadDtlsRouted, Evicting, vars
<1>23. QED
  BY <1>1, <1>2, <1>3, <1>4, <1>5, <1>6, <1>7, <1>8, <1>9, <1>10, <1>11, <1>12,
     <1>13, <1>14, <1>14a, <1>14b, <1>15, <1>16, <1>17, <1>18, <1>19, <1>20, <1>21, <1>22
     DEF Next, PumpTunnel, Registry, Callback

(* The registry's inductive invariants, together.                          *)
LEMMA BridgeInv == Spec => [](TypeOK /\ DeviceInv /\ FreshInv)
<1>1. Init => FreshInv
  <2>1. Init => /\ \A p \in Proc : pc[p] \notin BoundPC
                /\ \A p \in Dtls : pc[p] = "idle"
    BY KindsDisjoint DEF Init, BoundPC, Dtls, Proc
  <2> QED BY <2>1, KindsDisjoint DEF Init, FreshInv, Dtls, Client
<1> QED BY <1>1, InitDevice, TypeCorrect, DeviceInvStep, FreshInvStep, PTL DEF Spec

(* dtlsuds and bridge.go: when handle() never stalls for a whole           *)
(* IdleTimeout, a client reachable under its native /128 never prefers a   *)
(* session that has left the table.                                        *)
THEOREM RoutedDtlsAlive ==
    ASSUME ~HandlerStalls PROVE Spec => []NoDeadDtlsRouted
<1>1. Init => DtlsInv
  BY KindsDisjoint DEF Init, DtlsInv, NoDeadDtlsRouted, Dtls, Proc
<1>2. DtlsInv => NoDeadDtlsRouted
  BY DEF DtlsInv, NoDeadDtlsRouted
<1> QED BY <1>1, <1>2, BridgeInv, DtlsInvStep, PTL DEF Spec

(***************************************************************************)
(* CLAT: the second key and the translator.                                *)
(***************************************************************************)
TunClat(r) ==
    /\ r.pc \in {"choose", "clat", "write"} =>
           r.dst = Native[r.ac] \/ r.dst = clatV6[r.ac]
    /\ r.pc = "write" => r.xlat = IF r.dst = Native[r.ac] THEN None ELSE r.dst

(* A translator is built for the device's own CLAT /128, before the second *)
(* key appears, and is never changed: the inductive form of                *)
(* ClatTranslated.                                                         *)
ClatInv ==
    /\ \A c \in Client : clatV6[c] # None => clatV6[c] = Clat[c] /\ HasCLAT(c)
    /\ \A p \in Proc : pc[p] = "clatStore" => clatV6[ac[p]] = Clat[Xport(p)]
    /\ \A a \in Addr : clients[a] # None =>
           a = Native[clients[a]] \/ a = clatV6[clients[a]]
    /\ \A q \in Queue : TunClat(tun[q])

(* A step of pumpTunQueue keeps ClatInv when its new locals do.            *)
LEMMA TunClatStep ==
    ASSUME TypeOK, ClatInv, NEW q \in Queue, NEW r, TunClat(r), SetTun(q, r), TunOnly
    PROVE  ClatInv'
<1>1. UNCHANGED <<clatV6, clients, pc, ac, sess>>
  BY DEF TunOnly, shared
<1>2. \A z \in Queue : TunClat(tun[z])'
  BY <1>1 DEF TypeOK, ClatInv, SetTun, TunClat
<1>3. QED
  BY <1>1, <1>2 DEF ClatInv, Xport

(* installCLAT, deregisterKeys and the queues keep ClatInv.                *)
LEMMA ClatInvStep ==
    ASSUME UniformClat
    PROVE  TypeOK /\ DeviceInv /\ ClatInv /\ [Next]_vars => ClatInv'
<1> USE KindsDisjoint, IdentityTypes DEF Transport, Client, Dtls, Proc, Goto
<1> SUFFICES ASSUME TypeOK, DeviceInv, ClatInv, [Next]_vars PROVE ClatInv'
  OBVIOUS
<1>1. ASSUME NEW t \in Tunnel, Connect(t) PROVE ClatInv'
  BY <1>1 DEF TypeOK, ClatInv, TunClat, Xport, Connect
<1>2. ASSUME NEW t \in Tunnel, TunnelCloses(t) PROVE ClatInv'
  BY <1>2 DEF TypeOK, ClatInv, TunClat, Xport, TunnelCloses, shared
<1>3. ASSUME NEW p \in Proc, LoadOrCreateClient(p) PROVE ClatInv'
  <2>1. Xport(p) \in Client
    BY <1>3 DEF TypeOK, LoadOrCreateClient, Xport
  <2>2. \A a \in Addr : clients'[a] # None =>
            a = Native[clients'[a]] \/ a = clatV6[clients'[a]]
    BY <1>3, <2>1 DEF TypeOK, ClatInv, LoadOrCreateClient
  <2>3. \A r \in Proc : pc'[r] = "clatStore" => clatV6[ac'[r]] = Clat[Xport(r)']
    BY <1>3 DEF TypeOK, ClatInv, LoadOrCreateClient, Xport
  <2>4. QED
    BY <1>3, <2>2, <2>3 DEF ClatInv, TunClat, LoadOrCreateClient
<1>4. ASSUME NEW p \in Proc, InstallXlat(p) PROVE ClatInv'
  <2> DEFINE x == Xport(p)
             c == ac[p]
  <2>1. x \in Transport /\ c \in Client /\ Native[c] = Native[x] /\ Clat[c] = Clat[x]
    BY <1>4 DEF TypeOK, DeviceInv, InstallXlat, Xport, BoundPC, UniformClat
  <2>2. HasCLAT(x) <=> HasCLAT(c)
    BY <2>1 DEF HasCLAT
  <2>3. /\ \A d \in Client : clatV6'[d] = clatV6[d]
              \/ (d = c /\ clatV6[d] = None /\ clatV6'[d] = Clat[c] /\ HasCLAT(c))
        /\ HasCLAT(x) => clatV6'[c] # None
        /\ UNCHANGED <<clients, ac, sess, tun>>
    BY <1>4, <2>1, <2>2 DEF TypeOK, InstallXlat, HasCLAT
  <2>4. \A r \in Proc : pc'[r] = "clatStore" =>
            pc[r] = "clatStore" \/ (r = p /\ HasCLAT(x))
    BY <1>4 DEF TypeOK, InstallXlat, AfterCLAT
  <2>5. \A d \in Client : clatV6'[d] # None => clatV6'[d] = Clat[d] /\ HasCLAT(d)
    BY <2>3 DEF ClatInv
  <2>6. \A d \in Client : clatV6[d] # None => clatV6'[d] = clatV6[d]
    BY <2>3
  <2>7. \A r \in Proc : pc'[r] = "clatStore" => clatV6'[ac[r]] = Clat[Xport(r)]
    <3>1. clatV6'[c] = Clat[x] \/ ~HasCLAT(x)
      BY <2>1, <2>3, <2>5
    <3>2. ASSUME NEW r \in Proc, pc[r] = "clatStore"
          PROVE  clatV6'[ac[r]] = Clat[Xport(r)]
      <4>1. ac[r] \in Client /\ clatV6[ac[r]] = Clat[Xport(r)] /\ Clat[Xport(r)] # None
        BY <3>2 DEF TypeOK, ClatInv, HasCLAT, BoundPC
      <4>2. QED
        BY <2>6, <4>1
    <3>3. QED
      BY <2>4, <3>1, <3>2
  <2>8. \A a \in Addr : clients[a] # None =>
            a = Native[clients[a]] \/ a = clatV6'[clients[a]]
    BY <2>6 DEF TypeOK, ClatInv
  <2>9. \A q \in Queue : TunClat(tun[q])'
    <3>1. ASSUME NEW q \in Queue PROVE TunClat(tun[q])'
      <4>1. tun[q] \in TunLocals /\ TunBound(tun[q]) /\ TunClat(tun[q])
        BY DEF TypeOK, ClatInv
      <4>2. tun[q].pc \in {"choose", "clat", "write"} =>
                tun[q].dst \in Addr /\ tun[q].ac \in Client
        BY <4>1 DEF TunLocals, TunBound
      <4>3. QED
        BY <2>3, <2>6, <4>1, <4>2 DEF TunClat
    <3>2. QED
      BY <3>1
  <2>10. QED
    BY <2>3, <2>5, <2>7, <2>8, <2>9 DEF ClatInv, Xport
<1>5. ASSUME NEW p \in Proc, InstallKey(p) PROVE ClatInv'
  <2> DEFINE x == Xport(p)
  <2>1. x \in Transport /\ Clat[x] \in Addr /\ ac[p] \in Client /\ clatV6[ac[p]] = Clat[x]
    BY <1>5 DEF TypeOK, ClatInv, InstallKey, Xport, HasCLAT, BoundPC
  <2>2. \A a \in Addr : clients'[a] # None =>
            a = Native[clients'[a]] \/ a = clatV6[clients'[a]]
    BY <1>5, <2>1 DEF TypeOK, ClatInv, InstallKey
  <2>3. \A r \in Proc : pc'[r] = "clatStore" => pc[r] = "clatStore"
    BY <1>5 DEF TypeOK, InstallKey, AfterCLAT
  <2>4. UNCHANGED <<clatV6, ac, sess, tun>>
    BY <1>5 DEF InstallKey
  <2>5. QED
    BY <2>2, <2>3, <2>4 DEF ClatInv, TunClat, Xport
<1>6. ASSUME NEW p \in Proc, DeregNative(p) PROVE ClatInv'
  BY <1>6 DEF TypeOK, ClatInv, TunClat, Xport, DeregNative, CompareAndDelete
<1>7. ASSUME NEW p \in Proc, DeregClat(p) PROVE ClatInv'
  BY <1>7 DEF TypeOK, ClatInv, TunClat, Xport, DeregClat, CompareAndDelete, Rest
<1>8. ASSUME NEW t \in Tunnel, AttachCSTP(t) PROVE ClatInv'
  BY <1>8 DEF TypeOK, ClatInv, TunClat, Xport, AttachCSTP
<1>9. ASSUME NEW t \in Tunnel, ClosePrev(t) PROVE ClatInv'
  BY <1>9 DEF TypeOK, ClatInv, TunClat, Xport, ClosePrev, shared
<1>10. ASSUME NEW t \in Tunnel, LeaveCSTP(t) PROVE ClatInv'
  BY <1>10 DEF TypeOK, ClatInv, TunClat, Xport, LeaveCSTP
<1>11. ASSUME NEW t \in Tunnel, CloseSelf(t) PROVE ClatInv'
  BY <1>11 DEF TypeOK, ClatInv, TunClat, Xport, CloseSelf, shared
<1>12. ASSUME NEW s \in Session, AdmitSession(s) PROVE ClatInv'
  BY <1>12 DEF TypeOK, ClatInv, TunClat, Xport, AdmitSession, shared
<1>13. ASSUME NEW s \in Session, KnownSession(s) PROVE ClatInv'
  BY <1>13 DEF TypeOK, ClatInv, TunClat, Xport, KnownSession, shared
<1>14. ASSUME NEW s \in Session, EvictSession(s) PROVE ClatInv'
  BY <1>14 DEF TypeOK, ClatInv, TunClat, Xport, EvictSession, RemoveSession, shared
<1>14a. CASE TouchSession
  BY <1>14a DEF TypeOK, ClatInv, TunClat, Xport, TouchSession, shared
<1>14b. ASSUME NEW s \in Session, RemoveAll(s) PROVE ClatInv'
  BY <1>14b DEF TypeOK, ClatInv, TunClat, Xport, RemoveAll, RemoveSession, shared
<1>15. CASE AttachDTLS
  BY <1>15 DEF TypeOK, ClatInv, TunClat, Xport, AttachDTLS
<1>16. CASE ForwardPacket
  BY <1>16 DEF TypeOK, ClatInv, TunClat, Xport, ForwardPacket, Rest, shared
<1>17. CASE ForwardDisconnect
  BY <1>17 DEF TypeOK, ClatInv, TunClat, Xport, ForwardDisconnect, RemoveSession, shared
<1>18. ASSUME NEW p \in Dtls, EvictLoad(p) PROVE ClatInv'
  BY <1>18 DEF TypeOK, ClatInv, TunClat, Xport, EvictLoad, Rest, shared
<1>19. ASSUME NEW p \in Dtls, DetachDTLS(p) PROVE ClatInv'
  BY <1>19 DEF TypeOK, ClatInv, TunClat, Xport, DetachDTLS, Rest
<1>20. ASSUME NEW q \in Queue, TunQueue(q) PROVE ClatInv'
  <2>1. TunClat(IdleTun) /\ TunClat([IdleTun EXCEPT !.pc = "exit"])
    BY DEF TunClat, IdleTun
  <2>2. ASSUME NEW dst \in Addr, NEW n \in Size, TunRead(q, dst, n) PROVE ClatInv'
    BY <2>2, TunClatStep DEF TunRead, IdleTun, TunClat, ClatInv
  <2>3. CASE TunChoose(q)
    <3> DEFINE r == [tun[q] EXCEPT !.pc = "clat", !.tr = chooseTransport(tun[q].ac)]
    <3>1. tun[q] \in TunLocals /\ TunClat(tun[q]) /\ tun[q].pc = "choose"
      BY <2>3 DEF TypeOK, ClatInv, TunChoose
    <3>2. TunClat(r)
      BY <3>1 DEF TunClat, TunLocals
    <3>3. QED
      BY <2>1, <2>3, <3>2, TunClatStep DEF TunChoose
  <2>4. CASE TunClassify(q)
    <3> DEFINE c == tun[q].ac
               v == clatV6[c]
               w == IF v # None /\ tun[q].dst = v THEN v ELSE None
               r == [tun[q] EXCEPT !.pc = "write", !.xlat = w]
    <3>1. /\ tun[q] \in TunLocals /\ TunClat(tun[q]) /\ tun[q].pc = "clat"
          /\ c \in Client /\ tun[q].dst \in Addr
      BY <2>4 DEF TypeOK, ClatInv, TunClassify, TunLocals, TunBound
    <3>2. v # None => v # Native[c]
      BY <3>1 DEF ClatInv, HasCLAT
    <3>3. w = IF tun[q].dst = Native[c] THEN None ELSE tun[q].dst
      BY <3>1, <3>2 DEF TunClat
    <3>4. TunClat(r)
      BY <3>1, <3>3 DEF TunClat, TunLocals
    <3>5. SetTun(q, r) \/ SetTun(q, IdleTun)
      BY <2>4 DEF TunClassify
    <3>6. QED
      BY <2>1, <2>4, <3>4, <3>5, TunClatStep DEF TunClassify
  <2>5. CASE TunWrite(q)
    BY <2>1, <2>5, TunClatStep DEF TunWrite
  <2>6. QED
    BY <1>20, <2>2, <2>3, <2>4, <2>5 DEF TunQueue
<1>21. CASE Cancel
  BY <1>21 DEF ClatInv, TunClat, Xport, Cancel, shared
<1>22. CASE UNCHANGED vars
  BY <1>22 DEF ClatInv, TunClat, Xport, vars
<1>23. QED
  BY <1>1, <1>2, <1>3, <1>4, <1>5, <1>6, <1>7, <1>8, <1>9, <1>10, <1>11, <1>12,
     <1>13, <1>14, <1>14a, <1>14b, <1>15, <1>16, <1>17, <1>18, <1>19, <1>20, <1>21, <1>22
     DEF Next, PumpTunnel, Registry, Callback

LEMMA ClatInvHolds ==
    ASSUME UniformClat PROVE Spec => []ClatInv
<1>1. Init => ClatInv
  <2>1. Init => \A p \in Proc : pc[p] # "clatStore"
    BY DEF Init
  <2>2. Init => \A q \in Queue : TunClat(tun[q])
    BY DEF Init, IdleTun, TunClat
  <2> QED BY <2>1, <2>2 DEF Init, ClatInv
<1> QED BY <1>1, BridgeInv, ClatInvStep, PTL DEF Spec

(* installCLAT and pumpTunQueue: when a device has one CLAT /128, a packet *)
(* found under the CLAT key is translated for that /128 and a packet found *)
(* under the native key is not, at every interleaving.                     *)
THEOREM ClatKeyTranslated ==
    ASSUME UniformClat PROVE Spec => []ClatTranslated
<1>1. DeviceInv /\ ClatInv => ClatTranslated
  BY DEF DeviceInv, ClatInv, ClatTranslated, TunClat, TunOwned
<1> QED BY <1>1, BridgeInv, ClatInvHolds, PTL

(***************************************************************************)
(* Ingress.                                                                *)
(***************************************************************************)
(* The translator a pumping tunnel holds was read from its client after    *)
(* installCLAT, and no step changes it while the tunnel pumps.             *)
LEMMA IngressStep ==
    ASSUME UniformClat
    PROVE  TypeOK /\ DeviceInv /\ ClatInv /\ IngressTranslatorCSTP /\ [Next]_vars
               => IngressTranslatorCSTP'
<1> USE KindsDisjoint, IdentityTypes DEF Transport, Client, Dtls, Proc, Goto
<1> SUFFICES ASSUME TypeOK, DeviceInv, ClatInv, IngressTranslatorCSTP, [Next]_vars
             PROVE  IngressTranslatorCSTP'
  OBVIOUS
<1>1. ASSUME NEW p \in Proc, InstallXlat(p) PROVE IngressTranslatorCSTP'
  <2>1. /\ Xport(p) \in Transport /\ ac[p] \in Client
        /\ Native[ac[p]] = Native[Xport(p)] /\ Clat[ac[p]] = Clat[Xport(p)]
    BY <1>1 DEF TypeOK, DeviceInv, InstallXlat, Xport, BoundPC, UniformClat
  <2>2. ~HasCLAT(Xport(p)) => clatV6[ac[p]] = None
    BY <2>1 DEF ClatInv, HasCLAT
  <2>3. \A t \in Tunnel : pc'[t] = "pump" =>
            \/ pc[t] = "pump" /\ xlat'[t] = xlat[t]
            \/ t = p /\ ~HasCLAT(t) /\ xlat'[t] = clatV6[ac[t]]
    BY <1>1 DEF TypeOK, InstallXlat, AfterCLAT, Xport
  <2> QED BY <2>2, <2>3 DEF IngressTranslatorCSTP, Xport
<1>2. ASSUME NEW p \in Proc, InstallKey(p) PROVE IngressTranslatorCSTP'
  <2>1. clatV6[ac[p]] = Clat[Xport(p)] /\ HasCLAT(Xport(p))
    BY <1>2 DEF TypeOK, ClatInv, InstallKey
  <2>2. \A t \in Tunnel : pc'[t] = "pump" =>
            \/ pc[t] = "pump" /\ xlat'[t] = xlat[t]
            \/ t = p /\ xlat'[t] = clatV6[ac[t]]
    BY <1>2 DEF TypeOK, InstallKey, AfterCLAT
  <2> QED BY <2>1, <2>2 DEF IngressTranslatorCSTP, Xport
<1>3. ASSUME NEW t \in Tunnel, CloseSelf(t) PROVE IngressTranslatorCSTP'
  BY <1>3 DEF TypeOK, IngressTranslatorCSTP, CloseSelf
<1>4. CASE UNCHANGED xlat /\ \A t \in Tunnel : pc'[t] = "pump" => pc[t] = "pump"
  BY <1>4 DEF IngressTranslatorCSTP
<1>5. ASSUME NEW t \in Tunnel, Connect(t) \/ TunnelCloses(t) \/ AttachCSTP(t)
                               \/ ClosePrev(t) \/ LeaveCSTP(t)
      PROVE  IngressTranslatorCSTP'
  BY <1>4, <1>5 DEF TypeOK, Connect, TunnelCloses, AttachCSTP, ClosePrev, LeaveCSTP
<1>6. ASSUME NEW p \in Proc, LoadOrCreateClient(p) \/ DeregNative(p) \/ DeregClat(p)
      PROVE  IngressTranslatorCSTP'
  BY <1>4, <1>6 DEF TypeOK, LoadOrCreateClient, DeregNative, DeregClat, Rest
<1>7. ASSUME NEW s \in Session, AdmitSession(s) \/ KnownSession(s) \/ EvictSession(s)
                                \/ RemoveAll(s)
      PROVE  IngressTranslatorCSTP'
  BY <1>4, <1>7 DEF TypeOK, AdmitSession, KnownSession, EvictSession, RemoveAll, RemoveSession
<1>8. CASE TouchSession \/ AttachDTLS \/ ForwardPacket \/ ForwardDisconnect
  BY <1>4, <1>8 DEF TypeOK, TouchSession, AttachDTLS, ForwardPacket, Rest, ForwardDisconnect,
                    RemoveSession
<1>9. ASSUME NEW p \in Dtls, EvictLoad(p) \/ DetachDTLS(p) PROVE IngressTranslatorCSTP'
  BY <1>4, <1>9 DEF TypeOK, EvictLoad, DetachDTLS, Rest
<1>10. ASSUME NEW q \in Queue, TunQueue(q) PROVE IngressTranslatorCSTP'
  BY <1>4, <1>10 DEF TunQueue, TunRead, TunChoose, TunClassify, TunWrite, TunOnly
<1>11. CASE Cancel \/ UNCHANGED vars
  BY <1>4, <1>11 DEF Cancel, vars
<1> QED
  BY <1>1, <1>2, <1>3, <1>5, <1>6, <1>7, <1>8, <1>9, <1>10, <1>11
     DEF Next, PumpTunnel, Registry, Callback

(* pumpTunnel: when a device has one CLAT /128, the translator a tunnel    *)
(* pumps with is its own identity's, although another transport of the     *)
(* device may have built it.                                               *)
THEOREM IngressTranslated ==
    ASSUME UniformClat PROVE Spec => []IngressTranslatorCSTP
<1>1. Init => IngressTranslatorCSTP
  BY DEF Init, IngressTranslatorCSTP, Proc
<1> QED BY <1>1, BridgeInv, ClatInvHolds, IngressStep, PTL DEF Spec
=============================================================================
