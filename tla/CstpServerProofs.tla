-------------------------- MODULE CstpServerProofs --------------------------
(* Theorems about CstpServer, for any sets of requests, rows, cookies,     *)
(* tunnels and credentials. *)
EXTENDS CstpServer, TLAPS

(* An answered request leaves no locals behind.                            *)
LEMMA AnswerStep ==
    ASSUME NEW r \in Req, LocalsOK, Answer(r)
    PROVE  /\ LocalsOK'
           /\ pc'[r] = "idle"
           /\ \A x \in Req : pc'[x] # "idle" =>
                pc'[x] = pc[x] /\ sess'[x] = sess[x] /\ user'[x] = user[x] /\ dev'[x] = dev[x]
  BY DEF LocalsOK, ReqPC, Answer, Goto

(* Reaping a row keeps the indexes well formed.                            *)
LEMMA ReapStep ==
    ASSUME NEW o \in Opaque, RowsOK, deleteLocked(o)
    PROVE  RowsOK' /\ UNCHANGED deviceID
  BY DEF RowsOK, deleteLocked

(* So does minting a row.                                                  *)
LEMMA MintStep ==
    ASSUME NEW o \in Opaque, TypeOK, newOpaque(o)
    PROVE  RowsOK' /\ UNCHANGED deviceID
  BY ServerTypes DEF TypeOK, RowsOK, ServerOK, newOpaque

(* Verify accepted user u and device d on the row of request r.            *)
PasswordAccepted(r, u, d) ==
    /\ sess[r] \in Opaque
    /\ user' = [user EXCEPT ![r] = u]
    /\ dev' = [dev EXCEPT ![r] = d]
    /\ verified' = verified \cup {<<sess[r], u, d>>}
    /\ Goto(r, "promote")
    /\ UNCHANGED <<sess, cookie, mine>>

(* The password step either re-prompts or has a verified device in hand.   *)
LEMMA PasswordStep ==
    ASSUME NEW r \in Req, NEW p \in Password, TypeOK, AuthPassword(r, p)
    PROVE  \/ Answer(r) /\ UNCHANGED verified
           \/ \E u \in User, d \in Device : PasswordAccepted(r, u, d)
<1>1. sess[r] \in Opaque /\ username[sess[r]] \in User
  BY ServerTypes DEF TypeOK, LocalsOK, RowsOK, AuthPassword, NoUsername
<1>2. PICK u \in User : u = username[sess[r]]
  BY <1>1
<1>3. <<u, p>> \in User \X Password
  OBVIOUS
<1>4. Creds[<<u, p>>] \in Device \cup {None}
  BY <1>3, ServerTypes
<1>5. CASE Creds[<<u, p>>] = None
  BY <1>2, <1>5 DEF AuthPassword
<1>6. CASE Creds[<<u, p>>] # None
  <2>1. Creds[<<u, p>>] \in Device
    BY <1>4, <1>6
  <2>2. PasswordAccepted(r, u, Creds[<<u, p>>])
    BY <1>1, <1>2, <1>6 DEF AuthPassword, PasswordAccepted
  <2>3. QED
    BY <2>1, <2>2
<1>7. QED
  BY <1>5, <1>6

(* Every step of the HTTP handlers, of Accept and of Close keeps the       *)
(* cookie table and the requests' locals well formed; in particular a row  *)
(* with a cookie always has a device.                                      *)
LEMMA TypeStep == TypeOK /\ [Next]_vars => TypeOK'
<1> USE ServerTypes
<1> SUFFICES ASSUME TypeOK, [Next]_vars PROVE TypeOK'
  OBVIOUS
<1>1. ASSUME NEW r \in Req, NEW o \in Opaque, handleInit(r, o) PROVE TypeOK'
  BY <1>1, MintStep
     DEF TypeOK, handleInit, Stay, LocalsOK, ServerOK, Resolvable, locals, server
<1>2. ASSUME NEW r \in Req, NEW o \in Opaque, AuthLookup(r, o) PROVE TypeOK'
  <2>1. RowsOK' /\ UNCHANGED deviceID
    BY <1>2, ReapStep DEF TypeOK, RowsOK, AuthLookup, rows
  <2>2. /\ pc' = [pc EXCEPT ![r] = "auth"]
        /\ \E v \in Opaque \cup {None} : sess' = [sess EXCEPT ![r] = v]
        /\ UNCHANGED <<user, dev, cookie, mine>>
    BY <1>2 DEF TypeOK, LocalsOK, AuthLookup, Goto
  <2>3. LocalsOK' /\ Resolvable'
    BY <2>1, <2>2 DEF TypeOK, LocalsOK, Resolvable, ReqPC
  <2>4. QED
    BY <1>2, <2>1, <2>3 DEF TypeOK, ServerOK, AuthLookup, server
<1>3. ASSUME NEW r \in Req, NEW k \in Token, NEW o \in Opaque, ConnectLookup(r, k, o)
      PROVE TypeOK'
  <2>1. CASE Expired(o)
    BY <1>3, <2>1, ReapStep
       DEF TypeOK, ConnectLookup, LocalsOK, ServerOK, Resolvable, Stay, locals, server
  <2>2. CASE ~Expired(o)
    <3>1. deviceID[o] # None
      BY <1>3 DEF TypeOK, RowsOK, ConnectLookup, Matches
    <3>2. /\ pc' = [pc EXCEPT ![r] = "resolve"] /\ sess' = [sess EXCEPT ![r] = o]
          /\ cookie' = [cookie EXCEPT ![r] = k] /\ UNCHANGED <<rows, user, dev, mine>>
      BY <1>3, <2>2 DEF ConnectLookup, Goto
    <3>3. LocalsOK' /\ Resolvable'
      BY <3>1, <3>2 DEF TypeOK, LocalsOK, Resolvable, ReqPC, rows
    <3>4. QED
      BY <1>3, <3>2, <3>3 DEF TypeOK, RowsOK, ServerOK, ConnectLookup, rows, server
  <2>3. QED
    BY <2>1, <2>2
<1>4. ASSUME NEW r \in Req, NEW u \in User, NEW o \in Opaque, AuthUsername(r, u, o)
      PROVE TypeOK'
  <2>1. RowsOK' /\ UNCHANGED deviceID
    BY <1>4, MintStep DEF TypeOK, RowsOK, AuthUsername, rows
  <2>2. /\ pc' = [pc EXCEPT ![r] = "stash"] /\ user' = [user EXCEPT ![r] = u]
        /\ \E v \in Opaque : sess' = [sess EXCEPT ![r] = v]
        /\ UNCHANGED <<dev, cookie, mine>>
    BY <1>4 DEF TypeOK, LocalsOK, AuthUsername, Goto
  <2>3. LocalsOK' /\ Resolvable'
    BY <2>1, <2>2 DEF TypeOK, LocalsOK, Resolvable, ReqPC
  <2>4. QED
    BY <1>4, <2>1, <2>3 DEF TypeOK, ServerOK, AuthUsername, server
<1>5. ASSUME NEW r \in Req, NEW o \in Opaque, AuthPrompt(r, o) PROVE TypeOK'
  BY <1>5, MintStep, AnswerStep DEF TypeOK, AuthPrompt, ServerOK, Resolvable, server
<1>6. ASSUME NEW r \in Req, stashUsername(r) PROVE TypeOK'
  <2>1. RowsOK'
    BY <1>6 DEF TypeOK, RowsOK, LocalsOK, stashUsername
  <2>2. QED
    BY <1>6, <2>1, AnswerStep DEF TypeOK, stashUsername, ServerOK, Resolvable, server
<1>7. ASSUME NEW r \in Req, NEW p \in Password, AuthPassword(r, p) PROVE TypeOK'
  <2>1. CASE Answer(r) /\ UNCHANGED verified
    BY <1>7, <2>1, AnswerStep
       DEF TypeOK, AuthPassword, RowsOK, ServerOK, Resolvable, rows, server
  <2>2. CASE \E u \in User, d \in Device : PasswordAccepted(r, u, d)
    <3>1. PICK u \in User, d \in Device : PasswordAccepted(r, u, d)
      BY <2>2
    <3>2. LocalsOK' /\ Resolvable'
      BY <1>7, <3>1
         DEF TypeOK, LocalsOK, Resolvable, ReqPC, PasswordAccepted, AuthPassword,
             NoUsername, Goto, rows
    <3>3. verified' \subseteq Opaque \X User \X Device
      BY <3>1 DEF TypeOK, ServerOK, PasswordAccepted
    <3>4. QED
      BY <1>7, <3>2, <3>3 DEF TypeOK, RowsOK, ServerOK, AuthPassword, rows, server
  <2>3. QED
    BY <1>7, <2>1, <2>2, PasswordStep
<1>8. ASSUME NEW r \in Req, PromoteFind(r) PROVE TypeOK'
  <2>1. CASE sess[r] \in byOpaque
    <3>1. pc' = [pc EXCEPT ![r] = "mint"] /\ pc[r] = "promote"
          /\ UNCHANGED <<sess, user, dev, cookie, mine>>
      BY <1>8, <2>1 DEF PromoteFind, Goto
    <3>2. LocalsOK'
      BY <3>1 DEF TypeOK, LocalsOK, ReqPC
    <3>3. QED
      BY <1>8, <3>1, <3>2
         DEF TypeOK, PromoteFind, LocalsOK, RowsOK, ServerOK, Resolvable, rows, server
  <2>2. CASE sess[r] \notin byOpaque
    BY <1>8, <2>2, AnswerStep
       DEF TypeOK, PromoteFind, RowsOK, ServerOK, Resolvable, rows, server
  <2>3. QED
    BY <2>1, <2>2
<1>9. ASSUME NEW r \in Req, NEW k \in Token, PromoteMint(r, k) PROVE TypeOK'
  <2>1. RowsOK' /\ \A o \in Opaque : deviceID[o] # None => deviceID'[o] # None
    <3>1. sess[r] \in Opaque /\ user[r] \in User /\ dev[r] \in Device
      BY <1>9 DEF TypeOK, LocalsOK, PromoteMint
    <3>2. now + TTL \in Int
      BY DEF TypeOK, ServerOK
    <3>3. byToken' \in [Token -> Opaque \cup {None}]
      BY <1>9, <3>1 DEF TypeOK, RowsOK, PromoteMint
    <3>4. /\ token' \in [Opaque -> Token \cup {None}]
          /\ username' \in [Opaque -> User \cup {None}]
          /\ deviceID' \in [Opaque -> Device \cup {None}]
          /\ expiresAt' \in [Opaque -> Int]
      BY <1>9, <3>1, <3>2 DEF TypeOK, RowsOK, PromoteMint
    <3>5. \A o \in Opaque : (token'[o] # None \/ deviceID[o] # None) => deviceID'[o] # None
      BY <1>9, <3>1 DEF TypeOK, RowsOK, PromoteMint
    <3>6. QED
      BY <1>9, <3>3, <3>4, <3>5 DEF TypeOK, RowsOK, PromoteMint
  <2>2. \A x \in Req : pc[x] = "resolve" => sess[x] \in Opaque
    BY DEF TypeOK, LocalsOK
  <2>3. QED
    BY <1>9, <2>1, <2>2, AnswerStep
       DEF TypeOK, PromoteMint, ServerOK, Resolvable, server
<1>10. ASSUME NEW r \in Req, ConnectResolve(r) PROVE TypeOK'
  <2>1. CASE dev' = [dev EXCEPT ![r] = deviceID[sess[r]]] /\ Goto(r, "touch")
             /\ UNCHANGED <<sess, user, cookie, mine>>
    <3>1. deviceID[sess[r]] \in Device /\ pc[r] = "resolve"
      BY <1>10 DEF TypeOK, RowsOK, LocalsOK, Resolvable, ConnectResolve
    <3>2. LocalsOK'
      BY <2>1, <3>1 DEF TypeOK, LocalsOK, ReqPC, Goto
    <3>3. Resolvable'
      BY <1>10, <2>1 DEF TypeOK, LocalsOK, Resolvable, ConnectResolve, Goto, rows
    <3>4. QED
      BY <1>10, <3>2, <3>3 DEF TypeOK, ConnectResolve, RowsOK, ServerOK, rows, server
  <2>2. CASE Answer(r)
    BY <1>10, <2>2, AnswerStep
       DEF TypeOK, ConnectResolve, RowsOK, ServerOK, Resolvable, rows, server
  <2>3. QED
    BY <1>10, <2>1, <2>2 DEF ConnectResolve
<1>11. ASSUME NEW r \in Req, NEW t \in Tunnel, ConnectTouch(r, t) PROVE TypeOK'
  BY <1>11 DEF TypeOK, RowsOK, LocalsOK, ServerOK, Resolvable, ReqPC, ConnectTouch, Goto
<1>12. ASSUME NEW r \in Req, Publish(r) PROVE TypeOK'
  <2>1. mine[r] \in Tunnel
    BY <1>12 DEF TypeOK, LocalsOK, Publish
  <2>2. ServerOK'
    <3>1. Append(queue, mine[r]) \in Seq(Tunnel)
      BY <2>1 DEF TypeOK, ServerOK
    <3>2. queue' \in Seq(Tunnel)
      BY <1>12, <3>1 DEF TypeOK, ServerOK, Publish
    <3>3. tun' \in [Tunnel -> {"none", "live", "closed"}]
      BY <1>12 DEF TypeOK, ServerOK, Publish
    <3>4. QED
      BY <1>12, <3>2, <3>3 DEF TypeOK, ServerOK, Publish
  <2>3. QED
    BY <1>12, <2>2, AnswerStep DEF TypeOK, Publish, RowsOK, Resolvable, rows
<1>13. CASE Accept
  BY <1>13 DEF TypeOK, RowsOK, LocalsOK, ServerOK, Resolvable, Accept, rows, locals
<1>14. CASE RunReturns
  BY <1>14 DEF TypeOK, RowsOK, LocalsOK, ServerOK, Resolvable, RunReturns, rows, locals
<1>15. CASE Cancel
  BY <1>15 DEF TypeOK, RowsOK, LocalsOK, ServerOK, Resolvable, Cancel, rows, locals
<1>16. CASE Close
  BY <1>16 DEF TypeOK, RowsOK, LocalsOK, ServerOK, Resolvable, Close, rows, locals
<1>17. CASE Tick
  BY <1>17
     DEF TypeOK, RowsOK, LocalsOK, ServerOK, Resolvable, Tick, rows, locals,
         server
<1>18. ASSUME NEW t \in Tunnel, TunnelCloses(t) PROVE TypeOK'
  BY <1>18
     DEF TypeOK, RowsOK, LocalsOK, ServerOK, Resolvable, TunnelCloses, rows,
         locals
<1>19. CASE UNCHANGED vars
  BY <1>19
     DEF TypeOK, RowsOK, LocalsOK, ServerOK, Resolvable, vars, rows, locals,
         server
<1>20. QED
  BY <1>1, <1>2, <1>3, <1>4, <1>5, <1>6, <1>7, <1>8, <1>9, <1>10,
     <1>11, <1>12, <1>13, <1>14, <1>15, <1>16, <1>17, <1>18, <1>19
     DEF Next, Arrives, Handler

(* The empty table of NewServer is well formed.                            *)
LEMMA InitTypeOK == Init => TypeOK
<1> USE ServerTypes DEF Init
<1>1. Init => RowsOK
  BY DEF RowsOK
<1>2. Init => LocalsOK /\ Resolvable
  BY DEF LocalsOK, Resolvable, ReqPC
<1>3. Init => ServerOK
  <2>1. <<>> \in Seq(Tunnel)
    OBVIOUS
  <2>2. Init => tun \in [Tunnel -> {"none", "live", "closed"}]
    OBVIOUS
  <2>3. Init => row \in [Tunnel -> (Opaque \X Token \X Device) \cup {None}]
    OBVIOUS
  <2>4. Init => runs \in BOOLEAN /\ cancelled \in BOOLEAN /\ srvClosed \in BOOLEAN
    BY Zenon
  <2>5. Init => verified \subseteq Opaque \X User \X Device /\ accepted \subseteq Tunnel
    BY Zenon
  <2>6. Init => queue \in Seq(Tunnel)
    BY <2>1, Zenon
  <2>7. Init => now \in Nat
    OBVIOUS
  <2>8. QED
    BY <2>2, <2>3, <2>4, <2>5, <2>6, <2>7, Zenon DEF ServerOK
<1>4. QED
  BY <1>1, <1>2, <1>3 DEF TypeOK

(* cookie.go, server.go, connect.go: the type invariant.                   *)
THEOREM ServerTypeCorrect == Spec => []TypeOK
  BY InitTypeOK, TypeStep, PTL DEF Spec

(* What a request and a row know has been verified on that row: the        *)
(* inductive form of TunnelDeviceVerified.                                 *)
VerifiedInv ==
    /\ \A o \in Opaque : deviceID[o] # None => VerifiedOn(o, deviceID[o])
    /\ \A r \in Req : pc[r] \in {"promote", "mint"} =>
        <<sess[r], user[r], dev[r]>> \in verified
    /\ \A r \in Req : pc[r] \in {"touch", "publish"} => VerifiedOn(sess[r], dev[r])
    /\ TunnelDeviceVerified

(* Verify comes before promote and promote before CONNECT on every row.    *)
LEMMA VerifiedStep == TypeOK /\ VerifiedInv /\ [Next]_vars => VerifiedInv'
<1> USE ServerTypes
<1> SUFFICES ASSUME TypeOK, VerifiedInv, [Next]_vars PROVE VerifiedInv'
  OBVIOUS
<1>1. ASSUME NEW r \in Req, NEW o \in Opaque, handleInit(r, o) PROVE VerifiedInv'
  BY <1>1
        DEF VerifiedInv, VerifiedOn, TunnelDeviceVerified, handleInit, newOpaque,
            Stay, locals, server
<1>2. ASSUME NEW r \in Req, NEW o \in Opaque, AuthLookup(r, o) PROVE VerifiedInv'
  BY <1>2
        DEF TypeOK, VerifiedInv, VerifiedOn, TunnelDeviceVerified, LocalsOK,
            AuthLookup, deleteLocked, Goto, rows, server
<1>3. ASSUME NEW r \in Req, NEW k \in Token, NEW o \in Opaque, ConnectLookup(r, k, o)
      PROVE  VerifiedInv'
  BY <1>3
     DEF TypeOK, LocalsOK, VerifiedInv, VerifiedOn, TunnelDeviceVerified,
         ConnectLookup, deleteLocked, Stay, Goto, rows, locals, server
<1>4. ASSUME NEW r \in Req, NEW u \in User, NEW o \in Opaque, AuthUsername(r, u, o)
      PROVE  VerifiedInv'
  BY <1>4
     DEF TypeOK, LocalsOK, VerifiedInv, VerifiedOn, TunnelDeviceVerified,
         AuthUsername, newOpaque, Goto, rows, server
<1>5. ASSUME NEW r \in Req, NEW o \in Opaque, AuthPrompt(r, o) PROVE VerifiedInv'
  BY <1>5, AnswerStep
        DEF TypeOK, VerifiedInv, VerifiedOn, TunnelDeviceVerified, AuthPrompt,
            newOpaque, server
<1>6. ASSUME NEW r \in Req, stashUsername(r) PROVE VerifiedInv'
  BY <1>6, AnswerStep
     DEF TypeOK, VerifiedInv, VerifiedOn, TunnelDeviceVerified, stashUsername, server
<1>7. ASSUME NEW r \in Req, NEW p \in Password, AuthPassword(r, p) PROVE VerifiedInv'
  <2>1. UNCHANGED <<deviceID, row>>
    BY <1>7 DEF AuthPassword, rows, server
  <2>2. CASE Answer(r) /\ UNCHANGED verified
    BY <2>1, <2>2, AnswerStep DEF TypeOK, VerifiedInv, VerifiedOn, TunnelDeviceVerified
  <2>3. CASE \E u \in User, d \in Device : PasswordAccepted(r, u, d)
    <3>1. PICK u \in User, d \in Device : PasswordAccepted(r, u, d)
      BY <2>3
    <3>2. ASSUME NEW o, NEW e, VerifiedOn(o, e) PROVE VerifiedOn(o, e)'
      BY <3>1, <3>2, Zenon DEF VerifiedOn, PasswordAccepted
    <3>3. ASSUME NEW x \in Req, pc'[x] \in {"promote", "mint"}
          PROVE  <<sess'[x], user'[x], dev'[x]>> \in verified'
      BY <3>1, <3>3 DEF TypeOK, LocalsOK, VerifiedInv, PasswordAccepted, Goto
    <3>4. ASSUME NEW x \in Req, pc'[x] \in {"touch", "publish"}
          PROVE  VerifiedOn(sess[x], dev[x]) /\ sess'[x] = sess[x] /\ dev'[x] = dev[x]
      BY <3>1, <3>4 DEF TypeOK, LocalsOK, VerifiedInv, PasswordAccepted, Goto
    <3>5. (\A o \in Opaque : deviceID[o] # None => VerifiedOn(o, deviceID[o]))'
      BY <2>1, <3>2 DEF VerifiedInv
    <3>6. TunnelDeviceVerified'
      BY <2>1, <3>2 DEF VerifiedInv, TunnelDeviceVerified
    <3>7. \A x \in Req : pc'[x] \in {"touch", "publish"} => VerifiedOn(sess[x], dev[x])'
      BY <3>2, <3>4
    <3>8. QED
      BY <3>3, <3>5, <3>6, <3>7 DEF VerifiedInv
  <2>4. QED
    BY <1>7, <2>2, <2>3, PasswordStep
<1>8. ASSUME NEW r \in Req, PromoteFind(r) PROVE VerifiedInv'
  <2>1. UNCHANGED <<deviceID, row, verified>> /\ pc[r] = "promote"
    BY <1>8 DEF PromoteFind, rows, server
  <2>2. CASE Answer(r)
    BY <2>1, <2>2, AnswerStep DEF TypeOK, VerifiedInv, VerifiedOn, TunnelDeviceVerified
  <2>3. CASE Goto(r, "mint") /\ UNCHANGED <<sess, user, dev, cookie, mine>>
    BY <2>1, <2>3
       DEF TypeOK, LocalsOK, VerifiedInv, VerifiedOn, TunnelDeviceVerified, Goto
  <2>4. QED
    BY <1>8, <2>2, <2>3 DEF PromoteFind
<1>9. ASSUME NEW r \in Req, NEW k \in Token, PromoteMint(r, k) PROVE VerifiedInv'
  <2>1. sess[r] \in Opaque /\ VerifiedOn(sess[r], dev[r])
    BY <1>9 DEF TypeOK, LocalsOK, VerifiedInv, VerifiedOn, PromoteMint
  <2>2. deviceID' = [deviceID EXCEPT ![sess[r]] = dev[r]] /\ UNCHANGED <<row, verified>>
    BY <1>9 DEF PromoteMint, server
  <2>3. \A o \in Opaque : deviceID'[o] # None => VerifiedOn(o, deviceID'[o])
    BY <2>1, <2>2 DEF TypeOK, RowsOK, VerifiedInv
  <2>4. QED
    BY <1>9, <2>2, <2>3, AnswerStep
       DEF TypeOK, VerifiedInv, VerifiedOn, TunnelDeviceVerified, PromoteMint
<1>10. ASSUME NEW r \in Req, ConnectResolve(r) PROVE VerifiedInv'
  <2>1. UNCHANGED <<deviceID, row, verified>> /\ pc[r] = "resolve"
    BY <1>10 DEF ConnectResolve, rows, server
  <2>2. CASE Answer(r)
    BY <2>1, <2>2, AnswerStep DEF TypeOK, VerifiedInv, VerifiedOn, TunnelDeviceVerified
  <2>3. CASE /\ dev' = [dev EXCEPT ![r] = deviceID[sess[r]]]
             /\ Goto(r, "touch") /\ UNCHANGED <<sess, user, cookie, mine>>
    <3>1. VerifiedOn(sess[r], deviceID[sess[r]])
      BY <2>1 DEF TypeOK, LocalsOK, Resolvable, VerifiedInv
    <3>2. /\ pc' = [pc EXCEPT ![r] = "touch"] /\ UNCHANGED <<sess, user>>
          /\ dev'[r] = deviceID[sess[r]]
          /\ \A x \in Req \ {r} : dev'[x] = dev[x] /\ pc'[x] = pc[x]
          /\ pc'[r] = "touch"
      BY <2>3 DEF TypeOK, LocalsOK, Goto
    <3>3. \A x \in Req : pc'[x] \in {"touch", "publish"} => VerifiedOn(sess[x], dev'[x])
      BY <3>1, <3>2 DEF VerifiedInv
    <3>4. \A x \in Req : pc'[x] \in {"promote", "mint"} =>
              <<sess[x], user[x], dev'[x]>> \in verified
      BY <3>2 DEF VerifiedInv
    <3>5. QED
      BY <2>1, <3>2, <3>3, <3>4 DEF VerifiedInv, VerifiedOn, TunnelDeviceVerified
  <2>4. QED
    BY <1>10, <2>2, <2>3 DEF ConnectResolve
<1>11. ASSUME NEW r \in Req, NEW t \in Tunnel, ConnectTouch(r, t) PROVE VerifiedInv'
  BY <1>11
        DEF TypeOK, VerifiedInv, VerifiedOn, TunnelDeviceVerified, LocalsOK,
            ServerOK, ConnectTouch, Goto
<1>12. ASSUME NEW r \in Req, Publish(r) PROVE VerifiedInv'
  BY <1>12, AnswerStep
     DEF TypeOK, VerifiedInv, VerifiedOn, TunnelDeviceVerified, Publish, rows
<1>13. CASE Accept
  BY <1>13
     DEF VerifiedInv, VerifiedOn, TunnelDeviceVerified, Accept, rows, locals
<1>14. CASE RunReturns
  BY <1>14
     DEF VerifiedInv, VerifiedOn, TunnelDeviceVerified, RunReturns, rows, locals
<1>15. CASE Cancel
  BY <1>15
     DEF VerifiedInv, VerifiedOn, TunnelDeviceVerified, Cancel, rows, locals
<1>16. CASE Close
  BY <1>16
     DEF VerifiedInv, VerifiedOn, TunnelDeviceVerified, Close, rows, locals
<1>17. CASE Tick
  BY <1>17
     DEF VerifiedInv, VerifiedOn, TunnelDeviceVerified, Tick, rows, locals, server
<1>18. ASSUME NEW t \in Tunnel, TunnelCloses(t) PROVE VerifiedInv'
  BY <1>18
     DEF VerifiedInv, VerifiedOn, TunnelDeviceVerified, TunnelCloses, rows, locals
<1>19. CASE UNCHANGED vars
  BY <1>19
     DEF VerifiedInv, VerifiedOn, TunnelDeviceVerified, vars, rows, locals, server
<1>20. QED
  BY <1>1, <1>2, <1>3, <1>4, <1>5, <1>6, <1>7, <1>8, <1>9,
     <1>10, <1>11, <1>12, <1>13, <1>14, <1>15, <1>16, <1>17, <1>18, <1>19
     DEF Next, Arrives, Handler

(* handleAuth and handleConnect: at every interleaving of any number of    *)
(* requests, a tunnel carries a device that a Verify on its row returned.  *)
THEOREM TunnelsVerified == Spec => []TunnelDeviceVerified
<1>1. Init => VerifiedInv
  BY DEF Init, VerifiedInv, TunnelDeviceVerified
<1>2. VerifiedInv => TunnelDeviceVerified
  BY DEF VerifiedInv
<1>3. QED
  BY <1>1, <1>2, ServerTypeCorrect, VerifiedStep, PTL DEF Spec

(* Holders, one kind at a time.                                            *)
Offers(r, t) == pc[r] = "publish" /\ mine[r] = t
Queued(i, t) == i \in DOMAIN queue /\ queue[i] = t

(* TunnelOwned made inductive: no two hold the same tunnel, nobody holds   *)
(* one that newTunnel has not made yet, and a running one is held.         *)
OwnedInv ==
    \A t \in Tunnel :
        /\ \A r, x \in Req : Offers(r, t) /\ Offers(x, t) => r = x
        /\ \A i, j \in DOMAIN queue : Queued(i, t) /\ Queued(j, t) => i = j
        /\ \A r \in Req, i \in DOMAIN queue : ~(Offers(r, t) /\ Queued(i, t))
        /\ t \in accepted =>
             /\ \A r \in Req : ~Offers(r, t)
             /\ \A i \in DOMAIN queue : ~Queued(i, t)
        /\ tun[t] = "none" =>
             /\ t \notin accepted
             /\ \A r \in Req : ~Offers(r, t)
             /\ \A i \in DOMAIN queue : ~Queued(i, t)
        /\ tun[t] = "live" /\ ~srvClosed =>
             \/ \E r \in Req : Offers(r, t)
             \/ \E i \in DOMAIN queue : Queued(i, t)
             \/ t \in accepted

(* The two statements agree.                                               *)
LEMMA OwnedByOne == OwnedInv => TunnelOwned
<1> SUFFICES ASSUME OwnedInv, NEW t \in Tunnel
             PROVE  /\ \A g, h \in Holders(t) : g = h
                    /\ tun[t] = "live" /\ ~srvClosed => Holders(t) # {}
  BY DEF TunnelOwned
<1>1. ASSUME NEW g \in Holders(t)
      PROVE  \/ \E r \in Req : g = <<"request", r>> /\ Offers(r, t)
             \/ \E i \in DOMAIN queue : g = <<"channel", i>> /\ Queued(i, t)
             \/ g = <<"bridge", t>> /\ t \in accepted
  BY <1>1 DEF Holders, Offers, Queued
<1>2. ASSUME NEW g \in Holders(t), NEW h \in Holders(t) PROVE g = h
  BY <1>1, <1>2 DEF OwnedInv
<1>3. ASSUME tun[t] = "live", ~srvClosed PROVE Holders(t) # {}
  <2>1. CASE \E r \in Req : Offers(r, t)
    BY <2>1 DEF Holders, Offers
  <2>2. CASE \E i \in DOMAIN queue : Queued(i, t)
    BY <2>2 DEF Holders, Queued
  <2>3. CASE t \in accepted
    BY <2>3 DEF Holders
  <2> QED BY <1>3, <2>1, <2>2, <2>3 DEF OwnedInv
<1> QED BY <1>2, <1>3

(* A step that makes no tunnel, hands none on and ends no offer.           *)
LEMMA OwnedKept ==
    ASSUME OwnedInv, UNCHANGED <<queue, accepted>>, srvClosed => srvClosed',
           \A r \in Req, t \in Tunnel : Offers(r, t)' <=> Offers(r, t),
           \A t \in Tunnel : tun'[t] # tun[t] => tun[t] # "none" /\ tun'[t] = "closed"
    PROVE  OwnedInv'
  BY DEF OwnedInv, Queued

(* A request that answers before its select holds no tunnel.               *)
LEMMA AnswersNoOffer ==
    ASSUME TypeOK, NEW r \in Req, pc[r] # "publish", Answer(r)
    PROVE  \A x \in Req, t \in Tunnel : Offers(x, t)' <=> Offers(x, t)
  BY DEF TypeOK, LocalsOK, Answer, Goto, Offers

(* Nor does one that moves on to another step short of it.                 *)
LEMMA MovesNoOffer ==
    ASSUME TypeOK, NEW r \in Req, NEW l, pc[r] # "publish", l # "publish",
           Goto(r, l), UNCHANGED mine
    PROVE  \A x \in Req, t \in Tunnel : Offers(x, t)' <=> Offers(x, t)
  BY DEF TypeOK, LocalsOK, Goto, Offers

(* newTunnel: the new tunnel is in the hands of its request alone.         *)
LEMMA TouchOwns ==
    ASSUME TypeOK, OwnedInv, NEW r \in Req, NEW n \in Tunnel, ConnectTouch(r, n)
    PROVE  OwnedInv'
<1>1. /\ pc[r] = "touch" /\ tun[n] = "none"
      /\ tun' = [tun EXCEPT ![n] = "live"]
      /\ mine' = [mine EXCEPT ![r] = n] /\ pc' = [pc EXCEPT ![r] = "publish"]
      /\ UNCHANGED <<queue, accepted, srvClosed>>
  BY DEF ConnectTouch, Goto
<1>2. \A x \in Req, t \in Tunnel :
          Offers(x, t)' <=> (x = r /\ t = n) \/ Offers(x, t)
  BY <1>1 DEF TypeOK, LocalsOK, Offers
<1>3. \A x \in Req, t \in Tunnel : Offers(x, t) => t # n
  BY <1>1 DEF OwnedInv
<1>4. \A t \in Tunnel : tun'[t] = IF t = n THEN "live" ELSE tun[t]
  BY <1>1 DEF TypeOK, ServerOK
<1> QED BY <1>1, <1>2, <1>3, <1>4 DEF OwnedInv, Queued

(* The select: the tunnel leaves its request for the channel, or Close has *)
(* run and it is closed or, after the panic, nobody's.                     *)
LEMMA PublishHandsOn ==
    ASSUME TypeOK, OwnedInv, NEW r \in Req, Publish(r)
    PROVE  OwnedInv'
<1>1. mine[r] \in Tunnel /\ Offers(r, mine[r])
  BY DEF TypeOK, LocalsOK, Publish, Offers
<1>2. \A x \in Req, t \in Tunnel : Offers(x, t)' <=> x # r /\ Offers(x, t)
  BY DEF TypeOK, LocalsOK, Publish, Answer, Goto, Offers
<1>3. UNCHANGED <<accepted, srvClosed>>
  BY DEF Publish
<1>4. CASE ~srvClosed
  <2>1. queue \in Seq(Tunnel) /\ queue' = Append(queue, mine[r]) /\ UNCHANGED tun
    BY <1>4 DEF TypeOK, ServerOK, Publish
  <2>2. /\ DOMAIN queue = 1..Len(queue) /\ Len(queue) \in Nat
        /\ DOMAIN queue' = 1..(Len(queue) + 1)
        /\ queue'[Len(queue) + 1] = mine[r]
        /\ \A i \in DOMAIN queue : queue'[i] = queue[i]
    BY <1>1, <2>1
  <2>3. \A i \in DOMAIN queue', t \in Tunnel :
            Queued(i, t)' <=> Queued(i, t) \/ (i = Len(queue) + 1 /\ t = mine[r])
    BY <2>2 DEF Queued
  <2>4. \A i, t : Queued(i, t) => i \in DOMAIN queue /\ i # Len(queue) + 1
    BY <2>2 DEF Queued
  <2>5. Len(queue) + 1 \in DOMAIN queue' /\ \A i \in DOMAIN queue : i \in DOMAIN queue'
    BY <2>2
  <2>6. ASSUME NEW t \in Tunnel
        PROVE  /\ \A x, y \in Req : Offers(x, t)' /\ Offers(y, t)' => x = y
               /\ \A i, j \in DOMAIN queue' : Queued(i, t)' /\ Queued(j, t)' => i = j
               /\ \A x \in Req, i \in DOMAIN queue' : ~(Offers(x, t)' /\ Queued(i, t)')
    <3>1. \A x \in Req : Offers(x, t)' => Offers(x, t) /\ t # mine[r]
      BY <1>1, <1>2 DEF OwnedInv
    <3>2. \A i \in DOMAIN queue : Queued(i, t) => t # mine[r]
      BY <1>1 DEF OwnedInv
    <3> QED BY <2>3, <2>4, <3>1, <3>2 DEF OwnedInv
  <2>7. ASSUME NEW t \in Tunnel, t \in accepted \/ tun[t] = "none"
        PROVE  /\ tun[t] = "none" => t \notin accepted
               /\ \A x \in Req : ~Offers(x, t)'
               /\ \A i \in DOMAIN queue' : ~Queued(i, t)'
    BY <1>1, <1>2, <2>3, <2>4, <2>7 DEF OwnedInv
  <2>8. ASSUME NEW t \in Tunnel, tun[t] = "live"
        PROVE  \/ \E x \in Req : Offers(x, t)'
               \/ \E i \in DOMAIN queue' : Queued(i, t)'
               \/ t \in accepted
    <3>1. CASE t = mine[r]
      BY <2>3, <2>5, <3>1
    <3>2. CASE t # mine[r]
      <4>1. \A x \in Req : Offers(x, t) => Offers(x, t)'
        BY <1>2, <3>2 DEF Offers
      <4> QED BY <1>4, <2>3, <2>5, <2>8, <4>1 DEF OwnedInv
    <3> QED BY <3>1, <3>2
  <2> QED BY <1>3, <2>1, <2>6, <2>7, <2>8 DEF OwnedInv
<1>5. CASE srvClosed
  <2>1. UNCHANGED queue
    BY <1>5 DEF Publish
  <2>2. \A t \in Tunnel : tun'[t] # tun[t] => t = mine[r] /\ tun'[t] = "closed"
    BY <1>1, <1>5 DEF TypeOK, ServerOK, Publish
  <2> QED BY <1>1, <1>2, <1>3, <1>5, <2>1, <2>2 DEF OwnedInv, Queued
<1> QED BY <1>4, <1>5

(* Accept: from the head of the channel to the bridge.                     *)
LEMMA AcceptHandsOn ==
    ASSUME TypeOK, OwnedInv, Accept
    PROVE  OwnedInv'
<1>1. /\ queue \in Seq(Tunnel) /\ queue # <<>> /\ queue' = Tail(queue)
      /\ accepted' = accepted \cup {Head(queue)} /\ UNCHANGED <<pc, mine, tun, srvClosed>>
  BY DEF TypeOK, ServerOK, Accept, locals
<1>2. /\ DOMAIN queue = 1..Len(queue) /\ Len(queue) \in Nat \ {0}
      /\ DOMAIN queue' = 1..(Len(queue) - 1)
      /\ \A i \in DOMAIN queue' : queue'[i] = queue[i + 1]
      /\ Head(queue) = queue[1] /\ Head(queue) \in Tunnel
  BY <1>1
<1>3. \A i \in DOMAIN queue', t \in Tunnel :
          /\ Queued(i, t)' <=> Queued(i + 1, t)
          /\ i + 1 \in DOMAIN queue /\ i + 1 # 1
          /\ \A j \in DOMAIN queue' : i + 1 = j + 1 => i = j
  BY <1>2 DEF Queued
<1>4. 1 \in DOMAIN queue /\ \A t \in Tunnel : Queued(1, t) <=> t = Head(queue)
  BY <1>2 DEF Queued
<1>5. \A i \in DOMAIN queue : i # 1 => i - 1 \in DOMAIN queue' /\ i = (i - 1) + 1
  BY <1>2
<1>6. \A x \in Req, t \in Tunnel : Offers(x, t)' <=> Offers(x, t)
  BY <1>1 DEF Offers
<1>7. ASSUME NEW t \in Tunnel
      PROVE  /\ \A i, j \in DOMAIN queue' : Queued(i, t)' /\ Queued(j, t)' => i = j
             /\ t = Head(queue) => \A i \in DOMAIN queue' : ~Queued(i, t)'
             /\ \A i \in DOMAIN queue' : Queued(i, t)' => Queued(i + 1, t) /\ i + 1 \in DOMAIN queue
             /\ (\E i \in DOMAIN queue : Queued(i, t)) =>
                   t = Head(queue) \/ \E i \in DOMAIN queue' : Queued(i, t)'
  <2>1. \A i, j \in DOMAIN queue : Queued(i, t) /\ Queued(j, t) => i = j
    BY DEF OwnedInv
  <2>2. \A i, j \in DOMAIN queue' : Queued(i, t)' /\ Queued(j, t)' => i = j
    BY <1>3, <2>1
  <2>3. t = Head(queue) => \A i \in DOMAIN queue' : ~Queued(i, t)'
    BY <1>3, <1>4, <2>1
  <2>4. (\E i \in DOMAIN queue : Queued(i, t)) =>
            t = Head(queue) \/ \E i \in DOMAIN queue' : Queued(i, t)'
    BY <1>3, <1>4, <1>5
  <2> QED BY <1>3, <2>2, <2>3, <2>4
<1>8. ASSUME NEW t \in Tunnel, t = Head(queue)
      PROVE  /\ tun[t] # "none" /\ t \notin accepted /\ \A x \in Req : ~Offers(x, t)
  BY <1>4, <1>8 DEF OwnedInv
<1> QED BY <1>1, <1>6, <1>7, <1>8 DEF OwnedInv

(* Every step keeps each tunnel in one pair of hands.                      *)
LEMMA OwnedStep == TypeOK /\ OwnedInv /\ [Next]_vars => OwnedInv'
<1> SUFFICES ASSUME TypeOK, OwnedInv, [Next]_vars PROVE OwnedInv'
  OBVIOUS
<1>1. ASSUME NEW r \in Req, Arrives(r) PROVE OwnedInv'
  <2>1. UNCHANGED <<queue, accepted, srvClosed, tun, mine>> /\ pc[r] = "idle"
    BY <1>1 DEF Arrives, handleInit, AuthLookup, ConnectLookup, Stay, locals, server
  <2>2. \E l \in {"idle", "auth", "resolve"} : Goto(r, l)
    BY <1>1, <2>1
       DEF TypeOK, LocalsOK, Arrives, handleInit, AuthLookup, ConnectLookup, Goto,
           Stay, locals
  <2>3. \A x \in Req, t \in Tunnel : Offers(x, t)' <=> Offers(x, t)
    BY <2>1, <2>2, MovesNoOffer
  <2> QED BY <2>1, <2>3, OwnedKept DEF Offers
<1>2. ASSUME NEW r \in Req, Handler(r) PROVE OwnedInv'
  <2>1. CASE Publish(r)
    BY <2>1, PublishHandsOn
  <2>2. CASE \E t \in Tunnel : ConnectTouch(r, t)
    BY <2>2, TouchOwns
  <2>3. CASE \/ \E u \in User, o \in Opaque : AuthUsername(r, u, o)
             \/ \E o \in Opaque : AuthPrompt(r, o)
             \/ stashUsername(r)
             \/ \E p \in Password : AuthPassword(r, p)
             \/ PromoteFind(r)
             \/ \E k \in Token : PromoteMint(r, k)
             \/ ConnectResolve(r)
    <3>1. UNCHANGED <<queue, accepted, srvClosed, tun>> /\ pc[r] # "publish"
      BY <2>3 DEF AuthUsername, AuthPrompt, stashUsername, AuthPassword, PromoteFind,
                  PromoteMint, ConnectResolve, server
    <3>2. \/ Answer(r)
          \/ \E l \in {"stash", "promote", "mint", "touch"} : Goto(r, l) /\ UNCHANGED mine
      BY <2>3 DEF AuthUsername, AuthPrompt, stashUsername, AuthPassword, PromoteFind,
                  PromoteMint, ConnectResolve
    <3>3. \A x \in Req, t \in Tunnel : Offers(x, t)' <=> Offers(x, t)
      BY <3>1, <3>2, AnswersNoOffer, MovesNoOffer
    <3> QED BY <3>1, <3>3, OwnedKept DEF Offers
  <2> QED BY <1>2, <2>1, <2>2, <2>3 DEF Handler
<1>3. CASE Accept
  BY <1>3, AcceptHandsOn
<1>4. CASE RunReturns \/ Cancel \/ Close \/ Tick \/ UNCHANGED vars
  <2>1. UNCHANGED <<queue, accepted, tun, pc, mine>> /\ (srvClosed => srvClosed')
    BY <1>4 DEF RunReturns, Cancel, Close, Tick, vars, locals, server
  <2>2. \A x \in Req, t \in Tunnel : Offers(x, t)' <=> Offers(x, t)
    BY <2>1 DEF Offers
  <2> QED BY <2>1, <2>2, OwnedKept DEF Offers
<1>5. ASSUME NEW t \in Tunnel, TunnelCloses(t) PROVE OwnedInv'
  <2>1. UNCHANGED <<queue, accepted, srvClosed, pc, mine>>
    BY <1>5 DEF TunnelCloses, locals
  <2>2. \A x \in Tunnel : tun'[x] # tun[x] => tun[x] # "none" /\ tun'[x] = "closed"
    BY <1>5 DEF TunnelCloses, TypeOK, ServerOK
  <2>3. \A x \in Req, y \in Tunnel : Offers(x, y)' <=> Offers(x, y)
    BY <2>1 DEF Offers
  <2> QED BY <2>1, <2>2, <2>3, OwnedKept DEF Offers
<1> QED BY <1>1, <1>2, <1>3, <1>4, <1>5 DEF Next

(* handleConnect, Accept, Close: for any number of requests and any        *)
(* capacity of the channel, a tunnel has one holder at a time and, until   *)
(* Server.Close, a running one has a holder.                               *)
THEOREM TunnelsOwned == Spec => []TunnelOwned
<1>1. Init => OwnedInv
  BY DEF Init, OwnedInv, Offers, Queued
<1> QED BY <1>1, ServerTypeCorrect, OwnedStep, OwnedByOne, PTL DEF Spec
=============================================================================
