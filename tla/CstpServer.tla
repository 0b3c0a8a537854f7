----------------------------- MODULE CstpServer -----------------------------
(***************************************************************************)
(* internal/cstp, from the first POST to the tunnel in the bridge's hands: *)
(* the cookie table (cookie.go), handleInit and handleAuth (server.go),    *)
(* handleConnect (connect.go), Accept and Close (cstp.go), bridge.run.     *)
(*                                                                         *)
(* Every request runs on a goroutine of its own.  A region under           *)
(* sessionTable.mu, and an unlocked read of a session row, is one step.  A *)
(* row is named by its opaque id; ids and tokens are random, so a fresh    *)
(* name is never one used before.                                          *)
(***************************************************************************)
EXTENDS Integers, Sequences

CONSTANTS
    Req,        \* request goroutines of net/http
    Opaque,     \* opaque ids: session rows
    Token,      \* webvpn cookie values
    Tunnel,     \* *Tunnel values
    User, Password, Device, None,
    Creds,      \* what Verifier.Verify answers: device id, or None
    TTL,        \* SessionTimeout
    MaxNow,     \* bound on the clock
    Cap         \* capacity of Server.tunnels

ASSUME ServerTypes ==
    /\ Creds \in [User \X Password -> Device \cup {None}]
    /\ TTL \in Nat /\ MaxNow \in Nat /\ Cap \in Nat \ {0}
    /\ None \notin Opaque \cup Token \cup User \cup Device \cup Tunnel

VARIABLES
    byOpaque,   \* rows reachable by their opaque id
    byToken,    \* token -> row
    token, username, deviceID, expiresAt,   \* fields of a row
    pc, sess, user, dev, cookie,            \* locals of a request
    verified,   \* <<row, user, device>> for every Verify that succeeded
    tun,        \* tunnel -> "none", "live" (goroutines running) or "closed"
    row,        \* tunnel -> <<row, token presented, device>>
    mine,       \* request -> the tunnel newTunnel gave it
    queue,      \* Server.tunnels
    accepted,   \* tunnels Accept returned to bridge.run
    runs,       \* bridge.run is still in its loop
    cancelled, srvClosed, now

rows == <<byOpaque, byToken, token, username, deviceID, expiresAt>>
locals == <<pc, sess, user, dev, cookie, mine>>
server == <<tun, row, queue, accepted, runs, cancelled, srvClosed>>
vars == <<rows, locals, server, verified, now>>

Init ==
    /\ byOpaque = {}
    /\ byToken = [k \in Token |-> None]
    /\ token = [o \in Opaque |-> None]
    /\ username = [o \in Opaque |-> None]
    /\ deviceID = [o \in Opaque |-> None]
    /\ expiresAt = [o \in Opaque |-> -1]
    /\ pc = [r \in Req |-> "idle"]
    /\ sess = [r \in Req |-> None]
    /\ user = [r \in Req |-> None]
    /\ dev = [r \in Req |-> None]
    /\ cookie = [r \in Req |-> None]
    /\ mine = [r \in Req |-> None]
    /\ verified = {}
    /\ tun = [t \in Tunnel |-> "none"]
    /\ row = [t \in Tunnel |-> None]
    /\ queue = <<>>
    /\ accepted = {}
    /\ runs = TRUE
    /\ cancelled = FALSE /\ srvClosed = FALSE
    /\ now = 0

Goto(r, l) == pc' = [pc EXCEPT ![r] = l]

(* The request is answered and its locals are gone.                        *)
Answer(r) ==
    /\ Goto(r, "idle")
    /\ sess' = [sess EXCEPT ![r] = None]
    /\ user' = [user EXCEPT ![r] = None]
    /\ dev' = [dev EXCEPT ![r] = None]
    /\ cookie' = [cookie EXCEPT ![r] = None]
    /\ mine' = [mine EXCEPT ![r] = None]

Stay == UNCHANGED locals

(***************************************************************************)
(* sessionTable                                                            *)
(***************************************************************************)
(* now.After(expiresAt)                                                    *)
Expired(o) == now > expiresAt[o]

(* newOpaque: a row nobody has seen, keyed by its id.                      *)
newOpaque(o) ==
    /\ expiresAt[o] = -1
    /\ byOpaque' = byOpaque \cup {o}
    /\ expiresAt' = [expiresAt EXCEPT ![o] = now + TTL]
    /\ UNCHANGED <<byToken, token, username, deviceID>>

(* deleteLocked: the id, and the token the row carries at the moment.      *)
deleteLocked(o) ==
    /\ byOpaque' = byOpaque \ {o}
    /\ byToken' = [k \in Token |-> IF k = token[o] THEN None ELSE byToken[k]]
    /\ UNCHANGED <<token, username, deviceID, expiresAt>>

(* lookupToken walks byToken and compares the rows' tokens, not the keys.  *)
Matches(k) ==
    {o \in Opaque : token[o] = k /\ \E key \in Token : byToken[key] = o}

(***************************************************************************)
(* handleInit and handleAuth                                               *)
(***************************************************************************)
handleInit(r, o) ==
    /\ pc[r] = "idle"
    /\ newOpaque(o)
    /\ Stay
    /\ UNCHANGED <<server, verified, now>>

(* handleAuth: lookupOpaque of the id in the body or the cookie.           *)
AuthLookup(r, o) ==
    /\ pc[r] = "idle"
    /\ Goto(r, "auth")
    /\ \/ /\ o \notin byOpaque
          /\ UNCHANGED <<rows, sess>>
       \/ /\ o \in byOpaque /\ Expired(o)
          /\ deleteLocked(o)
          /\ UNCHANGED sess
       \/ /\ o \in byOpaque /\ ~Expired(o)
          /\ sess' = [sess EXCEPT ![r] = o]
          /\ UNCHANGED rows
    /\ UNCHANGED <<user, dev, cookie, mine, server, verified, now>>

NoUsername(r) == sess[r] # None => username[sess[r]] = None

(* The username step: reuse the row, or mint one.                          *)
AuthUsername(r, u, o) ==
    /\ pc[r] = "auth"
    /\ NoUsername(r)
    /\ \/ /\ sess[r] # None
          /\ UNCHANGED <<rows, sess>>
       \/ /\ sess[r] = None
          /\ newOpaque(o)
          /\ sess' = [sess EXCEPT ![r] = o]
    /\ user' = [user EXCEPT ![r] = u]
    /\ Goto(r, "stash")
    /\ UNCHANGED <<dev, cookie, mine, server, verified, now>>

(* No username in the reply: prompt again on a fresh row.                  *)
AuthPrompt(r, o) ==
    /\ pc[r] = "auth"
    /\ NoUsername(r)
    /\ newOpaque(o)
    /\ Answer(r)
    /\ UNCHANGED <<server, verified, now>>

stashUsername(r) ==
    LET o == sess[r] IN
    /\ pc[r] = "stash"
    /\ username' = IF o \in byOpaque /\ ~Expired(o)
                     THEN [username EXCEPT ![o] = user[r]] ELSE username
    /\ Answer(r)
    /\ UNCHANGED <<byOpaque, byToken, token, deviceID, expiresAt, server,
                   verified, now>>

(* Mutant: a failed Verify falls through with the row's last device.       *)
PasswordFallsThrough(r, p) ==
    LET u == username[sess[r]] IN
    /\ pc[r] = "auth"
    /\ ~NoUsername(r)
    /\ user' = [user EXCEPT ![r] = u]
    /\ dev' = [dev EXCEPT ![r] = CHOOSE d \in Device : TRUE]
    /\ verified' = IF Creds[<<u, p>>] = None THEN verified
                   ELSE verified \cup {<<sess[r], u, Creds[<<u, p>>]>>}
    /\ Goto(r, "promote")
    /\ UNCHANGED <<rows, sess, cookie, mine, server, now>>

(* The password step: the stashed username is read without the lock and    *)
(* verified; Verify touches nothing here.                                  *)
AuthPassword(r, p) ==
    LET u == username[sess[r]]
        d == Creds[<<u, p>>] IN
    /\ pc[r] = "auth"
    /\ ~NoUsername(r)
    /\ \/ /\ d = None
          /\ Answer(r)
          /\ UNCHANGED verified
       \/ /\ d # None
          /\ user' = [user EXCEPT ![r] = u]
          /\ dev' = [dev EXCEPT ![r] = d]
          /\ verified' = verified \cup {<<sess[r], u, d>>}
          /\ Goto(r, "promote")
          /\ UNCHANGED <<sess, cookie, mine>>
    /\ UNCHANGED <<rows, server, now>>

(* promote, first region: the row must still be indexed, else a 500.       *)
PromoteFind(r) ==
    /\ pc[r] = "promote"
    /\ \/ /\ sess[r] \in byOpaque
          /\ Goto(r, "mint")
          /\ UNCHANGED <<sess, user, dev, cookie, mine>>
       \/ /\ sess[r] \notin byOpaque
          /\ Answer(r)
    /\ UNCHANGED <<rows, server, verified, now>>

(* Mutant: promote skips the device of a row reaped between its regions.   *)
PromoteKeepsDevice(r, k) ==
    LET o == sess[r] IN
    /\ pc[r] = "mint"
    /\ \A x \in Opaque : token[x] # k
    /\ byToken[k] = None
    /\ token' = [token EXCEPT ![o] = k]
    /\ username' = [username EXCEPT ![o] = user[r]]
    /\ deviceID' = IF o \in byOpaque THEN [deviceID EXCEPT ![o] = dev[r]]
                   ELSE deviceID
    /\ expiresAt' = [expiresAt EXCEPT ![o] = now + TTL]
    /\ byToken' = [byToken EXCEPT ![k] = o]
    /\ Answer(r)
    /\ UNCHANGED <<byOpaque, server, verified, now>>

(* promote, second region: a fresh token.                                  *)
PromoteMint(r, k) ==
    LET o == sess[r] IN
    /\ pc[r] = "mint"
    /\ \A x \in Opaque : token[x] # k
    /\ byToken[k] = None
    /\ token' = [token EXCEPT ![o] = k]
    /\ username' = [username EXCEPT ![o] = user[r]]
    /\ deviceID' = [deviceID EXCEPT ![o] = dev[r]]
    /\ expiresAt' = [expiresAt EXCEPT ![o] = now + TTL]
    /\ byToken' = [byToken EXCEPT ![k] = o]
    /\ Answer(r)
    /\ UNCHANGED <<byOpaque, server, verified, now>>

(***************************************************************************)
(* handleConnect                                                           *)
(***************************************************************************)
ConnectLookup(r, k, o) ==
    /\ pc[r] = "idle"
    /\ o \in Matches(k)
    /\ \/ /\ Expired(o)
          /\ deleteLocked(o)
          /\ Stay
       \/ /\ ~Expired(o)
          /\ sess' = [sess EXCEPT ![r] = o]
          /\ cookie' = [cookie EXCEPT ![r] = k]
          /\ Goto(r, "resolve")
          /\ UNCHANGED <<rows, user, dev, mine>>
    /\ UNCHANGED <<server, verified, now>>

(* Resolve, hijack, write the response: any of them may fail.              *)
ConnectResolve(r) ==
    /\ pc[r] = "resolve"
    /\ \/ /\ dev' = [dev EXCEPT ![r] = deviceID[sess[r]]]
          /\ Goto(r, "touch")
          /\ UNCHANGED <<sess, user, cookie, mine>>
       \/ Answer(r)
    /\ UNCHANGED <<rows, server, verified, now>>

(* touch, then newTunnel starts the reader and the heartbeat.              *)
ConnectTouch(r, t) ==
    /\ pc[r] = "touch"
    /\ tun[t] = "none"
    /\ expiresAt' = [expiresAt EXCEPT ![sess[r]] = now + TTL]
    /\ tun' = [tun EXCEPT ![t] = "live"]
    /\ row' = [row EXCEPT ![t] = <<sess[r], cookie[r], dev[r]>>]
    /\ mine' = [mine EXCEPT ![r] = t]
    /\ Goto(r, "publish")
    /\ UNCHANGED <<byOpaque, byToken, token, username, deviceID, sess, user,
                   dev, cookie, queue, accepted, runs, cancelled, srvClosed,
                   verified, now>>

(* Mutant: the select has no closeCh case.                                 *)
PublishOnly(r) ==
    /\ pc[r] = "publish"
    /\ Len(queue) < Cap /\ ~srvClosed
    /\ queue' = Append(queue, mine[r])
    /\ Answer(r)
    /\ UNCHANGED <<rows, tun, row, accepted, runs, cancelled, srvClosed,
                   verified, now>>

(* Mutant: the select has a default case, which answers and forgets.       *)
PublishDrops(r) ==
    /\ pc[r] = "publish"
    /\ \/ /\ Len(queue) < Cap /\ ~srvClosed
          /\ queue' = Append(queue, mine[r])
          /\ UNCHANGED tun
       \/ /\ srvClosed
          /\ tun' = [tun EXCEPT ![mine[r]] = "closed"]
          /\ UNCHANGED queue
       \/ /\ srvClosed \/ Len(queue) = Cap
          /\ UNCHANGED <<tun, queue>>
    /\ Answer(r)
    /\ UNCHANGED <<rows, row, accepted, runs, cancelled, srvClosed, verified, now>>

(* The select: send, or closeCh.  Once Close has run both cases are ready; *)
(* a send on the closed channel panics, net/http recovers, and the         *)
(* hijacked connection stays as it is.                                     *)
Publish(r) ==
    /\ pc[r] = "publish"
    /\ \/ /\ Len(queue) < Cap /\ ~srvClosed
          /\ queue' = Append(queue, mine[r])
          /\ UNCHANGED tun
       \/ /\ srvClosed
          /\ tun' = [tun EXCEPT ![mine[r]] = "closed"]
          /\ UNCHANGED queue
       \/ /\ srvClosed
          /\ UNCHANGED <<tun, queue>>
    /\ Answer(r)
    /\ UNCHANGED <<rows, row, accepted, runs, cancelled, srvClosed, verified, now>>

(***************************************************************************)
(* Accept, bridge.run, Close                                               *)
(***************************************************************************)
Accept ==
    /\ runs
    /\ queue # <<>>
    /\ accepted' = accepted \cup {Head(queue)}
    /\ queue' = Tail(queue)
    /\ UNCHANGED <<rows, locals, tun, row, runs, cancelled, srvClosed, verified, now>>

(* Accept returns an error and bridge.run its loop.                        *)
RunReturns ==
    /\ runs
    /\ cancelled \/ srvClosed
    /\ runs' = FALSE
    /\ UNCHANGED <<rows, locals, tun, row, queue, accepted, cancelled, srvClosed,
                   verified, now>>

(* A tunnel ends on its own: peer, bad frame, idle timer, its pump.        *)
TunnelCloses(t) ==
    /\ tun[t] = "live"
    /\ tun' = [tun EXCEPT ![t] = "closed"]
    /\ UNCHANGED <<rows, locals, row, queue, accepted, runs, cancelled,
                   srvClosed, verified, now>>

Cancel ==
    /\ ~cancelled
    /\ cancelled' = TRUE
    /\ UNCHANGED <<rows, locals, tun, row, queue, accepted, runs, srvClosed,
                   verified, now>>

(* Server.Close, from the shutdown goroutine.                              *)
Close ==
    /\ cancelled /\ ~srvClosed
    /\ srvClosed' = TRUE
    /\ UNCHANGED <<rows, locals, tun, row, queue, accepted, runs, cancelled,
                   verified, now>>

Tick ==
    /\ now < MaxNow
    /\ now' = now + 1
    /\ UNCHANGED <<rows, locals, server, verified>>

Handler(r) ==
    \/ \E u \in User, o \in Opaque : AuthUsername(r, u, o)
    \/ \E o \in Opaque : AuthPrompt(r, o)
    \/ stashUsername(r)
    \/ \E p \in Password : AuthPassword(r, p)
    \/ PromoteFind(r)
    \/ \E k \in Token : PromoteMint(r, k)
    \/ ConnectResolve(r)
    \/ \E t \in Tunnel : ConnectTouch(r, t)
    \/ Publish(r)

Arrives(r) ==
    \/ \E o \in Opaque : handleInit(r, o) \/ AuthLookup(r, o)
    \/ \E k \in Token, o \in Opaque : ConnectLookup(r, k, o)

Next ==
    \/ \E r \in Req : Arrives(r) \/ Handler(r)
    \/ Accept \/ RunReturns \/ Cancel \/ Close \/ Tick
    \/ \E t \in Tunnel : TunnelCloses(t)

Spec == Init /\ [][Next]_vars

(* The goroutines that serve the channel are scheduled; shutdown goes on   *)
(* to Close.  Nothing is assumed of clients, the clock or the verifier.    *)
Fairness ==
    /\ \A r \in Req : WF_vars(Publish(r))
    /\ WF_vars(Accept \/ RunReturns)
    /\ WF_vars(Close)

FairSpec == Spec /\ Fairness

(***************************************************************************)
(* Properties                                                              *)
(***************************************************************************)
ReqPC == {"idle", "auth", "stash", "promote", "mint", "resolve", "touch",
          "publish"}

RowsOK ==
    /\ byOpaque \subseteq Opaque
    /\ byToken \in [Token -> Opaque \cup {None}]
    /\ token \in [Opaque -> Token \cup {None}]
    /\ username \in [Opaque -> User \cup {None}]
    /\ deviceID \in [Opaque -> Device \cup {None}]
    /\ expiresAt \in [Opaque -> Int]
    /\ \A o \in Opaque : token[o] # None => deviceID[o] # None

LocalsOK ==
    /\ pc \in [Req -> ReqPC]
    /\ sess \in [Req -> Opaque \cup {None}]
    /\ user \in [Req -> User \cup {None}]
    /\ dev \in [Req -> Device \cup {None}]
    /\ cookie \in [Req -> Token \cup {None}]
    /\ mine \in [Req -> Tunnel \cup {None}]
    /\ \A r \in Req :
        /\ pc[r] \notin {"idle", "auth"} => sess[r] # None
        /\ pc[r] \in {"stash", "promote", "mint"} => user[r] # None
        /\ pc[r] \in {"promote", "mint", "touch", "publish"} => dev[r] # None
        /\ pc[r] \in {"resolve", "touch", "publish"} => cookie[r] # None
        /\ pc[r] = "publish" => mine[r] # None

ServerOK ==
    /\ verified \subseteq Opaque \X User \X Device
    /\ tun \in [Tunnel -> {"none", "live", "closed"}]
    /\ row \in [Tunnel -> (Opaque \X Token \X Device) \cup {None}]
    /\ queue \in Seq(Tunnel)
    /\ accepted \subseteq Tunnel
    /\ runs \in BOOLEAN /\ cancelled \in BOOLEAN /\ srvClosed \in BOOLEAN
    /\ now \in Nat

(* A CONNECT only ever holds a row whose device is known.                  *)
Resolvable ==
    \A r \in Req : pc[r] = "resolve" => deviceID[sess[r]] # None

TypeOK == RowsOK /\ LocalsOK /\ ServerOK /\ Resolvable

(* Some Verify of a password posted on row o answered device d.            *)
VerifiedOn(o, d) == \E u \in User : <<o, u, d>> \in verified

(* handleAuth/handleConnect: a tunnel carries the identity of a device     *)
(* that a successful Verify on its own session row returned, although the  *)
(* row is found, read, promoted again and touched in separate steps.       *)
TunnelDeviceVerified ==
    \A t \in Tunnel : row[t] # None => VerifiedOn(row[t][1], row[t][3])

(* Who has tunnel t in hand: the request that made it, until its select;   *)
(* a place of the channel; the bridge, once Accept has returned it.        *)
Holders(t) ==
    {<<"request", r>> : r \in {x \in Req : pc[x] = "publish" /\ mine[x] = t}}
      \cup {<<"channel", i>> : i \in {j \in DOMAIN queue : queue[j] = t}}
      \cup {<<"bridge", t>> : x \in accepted \cap {t}}

(* handleConnect, Accept: a tunnel is handed on from the request through   *)
(* the channel to the bridge and never shared on the way; and until        *)
(* Server.Close none whose goroutines run is dropped, though the channel   *)
(* is full, bridge.run has left Accept, or the client is gone already.     *)
TunnelOwned ==
    \A t \in Tunnel :
        /\ \A g, h \in Holders(t) : g = h
        /\ tun[t] = "live" /\ ~srvClosed => Holders(t) # {}

(* handleConnect's select: a request with a tunnel to hand over is never   *)
(* stuck, with a full channel, a bridge that has left Accept, or Close.    *)
PublishAnswered ==
    \A r \in Req : pc[r] = "publish" ~> pc[r] = "idle"

=============================================================================
