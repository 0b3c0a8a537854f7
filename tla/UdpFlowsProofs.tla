--------------------------- MODULE UdpFlowsProofs ---------------------------
(***************************************************************************)
(* The maps of UdpFlows agree for every number of flows, readers and       *)
(* elements.  The four ways the table changes (removeEntry, Touch and the  *)
(* two branches of remember) get one lemma each; the actions reduce to     *)
(* them.  The limit on the number of flows is a second layer over that     *)
(* invariant: the list is a strict order of a finite set, so it has a      *)
(* back, and an eviction always makes room.                                *)
(***************************************************************************)
EXTENDS UdpFlows, FiniteSetTheorems, WellFoundedInduction, TLAPS

TableOK ==
    /\ flows \in [Kernel -> Elem \cup {None}]
    /\ reverse \in [Real -> Elem \cup {None}]
    /\ lru \subseteq Live \X Live
    /\ ent \in [Elem -> Entry \cup {None}]

(* No entry is from the future.                                            *)
SeenByNow == \A e \in Live : ent[e].lastSeen <= now

(* The part of the invariant that only the table is in.                    *)
Agree == TableOK /\ MapsAgree /\ Attribution /\ LatestOwnsReturn /\ ListByAge /\ SeenByNow

RestOK ==
    /\ now \in 0..MaxNow
    /\ pc \in [Reader -> {"read", "remember"}]
    /\ job \in [Reader -> [from : Kernel, real : Real] \cup {None}]
    /\ \A p \in Reader : pc[p] = "remember" => job[p] # None
    /\ heard \in [Kernel -> SUBSET Real]
    /\ \A p \in Reader : pc[p] = "remember" => job[p].real \in heard[job[p].from]
    /\ newest \in [Real -> Kernel \cup {None}]

IInv == Agree /\ RestOK

(* An announcement once made is not unmade.                                *)
HeardGrows == \A k \in Kernel : heard[k] \subseteq heard'[k]

(* What remember leaves of the history of return paths.                    *)
NewestOf(k, r) ==
    newest' = IF Reported(k) = r THEN newest ELSE [newest EXCEPT ![r] = k]

(* A flow entry and a reader's job are not None.                           *)
LEMMA NotNone ==
    /\ \A x \in Entry : x # None
    /\ \A x \in [from : Kernel, real : Real] : x # None
<1>1. MaxNow \in Nat /\ None \notin [key : Kernel, real : Real, lastSeen : Nat]
                     /\ None \notin [from : Kernel, real : Real]
  BY FlowsTypes
<1>2. Entry \subseteq [key : Kernel, real : Real, lastSeen : Nat]
  BY <1>1 DEF Entry
<1> QED BY <1>1, <1>2

(* The parser answers an announced source or nothing.                      *)
LEMMA ParseType == \A dg \in Datagram : Parse(dg) \in Real \cup {None}
BY FlowsTypes DEF Parse, DatagramType

(* removeEntry, of any set of elements, leaves the maps and the list in    *)
(* agreement: what it drops from one it drops from all.                    *)
LEMMA RemoveKeeps ==
    ASSUME IInv, NEW S, removeEntry(S), UNCHANGED <<now, newest>>, HeardGrows
    PROVE  Agree'
<1> USE DEF IInv, Agree, TableOK, RestOK
<1>0. /\ None \notin Elem /\ None \notin Kernel /\ None \notin Real
      /\ Live = {e \in Elem : ent[e] # None}
      /\ Live' = Live \ S
  BY FlowsTypes DEF removeEntry, Live
<1>1. /\ flows' = [k \in Kernel |-> IF flows[k] \in S THEN None ELSE flows[k]]
      /\ reverse' = [r \in Real |-> IF reverse[r] \in S THEN None ELSE reverse[r]]
      /\ ent' = [e \in Elem |-> IF e \in S THEN None ELSE ent[e]]
      /\ lru' = {p \in lru : p[1] \notin S /\ p[2] \notin S}
  BY DEF removeEntry, FlowsWithout, ReverseWithout, Without
<1>2. \A e \in Live' : e \in Live /\ e \in Elem /\ e \notin S /\ ent'[e] = ent[e]
  BY <1>0, <1>1
<1>3. TableOK'
  <2>1. lru' \subseteq (Live \ S) \X (Live \ S)
    BY <1>1
  <2> QED BY <1>0, <1>1, <2>1
<1>4. MapsAgree'
  <2>1. ASSUME NEW k \in Kernel, flows'[k] # None
        PROVE  flows'[k] \in Live' /\ ent'[flows'[k]].key = k
    BY <1>0, <1>1, <2>1 DEF MapsAgree
  <2>2. ASSUME NEW e \in Live' PROVE flows'[ent'[e].key] = e
    <3>1. ent[e] \in Entry
      BY <1>2, <1>0
    <3>2. ent[e].key \in Kernel
      BY <3>1 DEF Entry
    <3> QED BY <1>1, <1>2, <3>2 DEF MapsAgree
  <2>3. ASSUME NEW r \in Real, reverse'[r] # None
        PROVE  reverse'[r] \in Live' /\ ent'[reverse'[r]].real = r
    BY <1>0, <1>1, <2>3 DEF MapsAgree
  <2> QED BY <2>1, <2>2, <2>3 DEF MapsAgree
<1>5. Attribution'
  <2>1. ASSUME NEW k \in Kernel, flows'[k] # None
        PROVE  ent'[flows'[k]].real \in heard'[k]
    BY <1>0, <1>1, <2>1 DEF Attribution, MapsAgree, HeardGrows
  <2>2. ASSUME NEW r \in Real, reverse'[r] # None
        PROVE  r \in heard'[ent'[reverse'[r]].key]
    <3>1. reverse'[r] = reverse[r] /\ reverse[r] \in Live /\ reverse[r] \notin S
      BY <1>0, <1>1, <2>2 DEF MapsAgree
    <3>2. ent'[reverse[r]] = ent[reverse[r]] /\ ent[reverse[r]].key \in Kernel
      BY <1>0, <1>1, <3>1 DEF Entry
    <3> QED BY <3>1, <3>2, <2>2 DEF Attribution, HeardGrows
  <2> QED BY <2>1, <2>2 DEF Attribution
<1>6. LatestOwnsReturn'
  <2> SUFFICES ASSUME NEW r \in Real, newest[r] # None,
                      flows'[newest[r]] # None, ent'[flows'[newest[r]]].real = r
               PROVE  reverse'[r] = flows'[newest[r]]
    BY DEF LatestOwnsReturn
  <2>1. newest[r] \in Kernel
    OBVIOUS
  <2>2. flows'[newest[r]] = flows[newest[r]] /\ flows[newest[r]] \notin S
    BY <1>1, <2>1
  <2>3. flows[newest[r]] \in Live
    BY <2>1, <2>2 DEF MapsAgree
  <2>4. ent[flows[newest[r]]].real = r
    BY <1>0, <1>1, <2>2, <2>3
  <2>5. reverse[r] = flows[newest[r]]
    BY <2>2, <2>4 DEF LatestOwnsReturn
  <2> QED BY <1>1, <2>2, <2>5
<1>7. ListByAge' /\ SeenByNow'
  <2>1. \A e, f \in Live' : e # f => (<<e, f>> \in lru' <=> <<f, e>> \notin lru')
    BY <1>1, <1>2 DEF ListByAge
  <2>2. ASSUME NEW p \in lru' PROVE ent'[p[1]].lastSeen >= ent'[p[2]].lastSeen
    <3>1. p \in lru /\ p[1] \notin S /\ p[2] \notin S /\ p[1] \in Elem /\ p[2] \in Elem
      BY <1>0, <1>1
    <3> QED BY <1>1, <3>1 DEF ListByAge
  <2>3. SeenByNow'
    BY <1>2 DEF SeenByNow
  <2> QED BY <2>1, <2>2, <2>3 DEF ListByAge
<1> QED BY <1>3, <1>4, <1>5, <1>6, <1>7

(* Moving an element to the front, with a fresh time, keeps the list an    *)
(* order by age.                                                           *)
LEMMA FrontKeeps ==
    ASSUME IInv, NEW e \in Live, NEW n \in Entry, n.lastSeen = now,
           ent' = [ent EXCEPT ![e] = n], lru' = MoveToFront(e, Live), now' = now
    PROVE  /\ Live' = Live
           /\ lru' \subseteq Live \X Live
           /\ ent' \in [Elem -> Entry \cup {None}]
           /\ ListByAge' /\ SeenByNow'
<1> USE DEF IInv, Agree, TableOK, RestOK
<1>0. e \in Elem /\ n # None
  BY NotNone DEF Live
<1>1. /\ ent'[e] = n
      /\ \A f \in Elem : f # e => ent'[f] = ent[f]
      /\ ent' \in [Elem -> Entry \cup {None}]
  BY <1>0
<1>2. Live' = Live
  BY <1>0, <1>1 DEF Live
<1>3. lru' = {p \in lru : p[1] # e /\ p[2] # e} \cup {<<e, f>> : f \in Live \ {e}}
  BY DEF MoveToFront, Without
<1>4. lru' \subseteq Live \X Live
  BY <1>3
<1>5. \A g, f \in Live' : g # f => (<<g, f>> \in lru' <=> <<f, g>> \notin lru')
  <2> SUFFICES ASSUME NEW g \in Live, NEW f \in Live, g # f
               PROVE  <<g, f>> \in lru' <=> <<f, g>> \notin lru'
    BY <1>2
  <2>1. CASE g = e
    BY <1>3, <2>1
  <2>2. CASE f = e
    BY <1>3, <2>2
  <2>3. CASE g # e /\ f # e
    BY <1>3, <2>3 DEF ListByAge
  <2> QED BY <2>1, <2>2, <2>3
<1>6. ASSUME NEW p \in lru' PROVE ent'[p[1]].lastSeen >= ent'[p[2]].lastSeen
  <2>1. CASE p \in lru /\ p[1] # e /\ p[2] # e
    <3>1. p[1] \in Elem /\ p[2] \in Elem
      BY <2>1 DEF Live
    <3> QED BY <1>1, <2>1, <3>1 DEF ListByAge
  <2>2. CASE \E f \in Live \ {e} : p = <<e, f>>
    <3>1. PICK f \in Live \ {e} : p = <<e, f>>
      BY <2>2
    <3>2. f \in Elem /\ ent[f] \in Entry /\ ent[f].lastSeen <= now
      BY DEF Live, SeenByNow
    <3>3. now \in Int /\ ent[f].lastSeen \in Int
      BY <3>2, FlowsTypes DEF Entry
    <3> QED BY <1>0, <1>1, <3>1, <3>2, <3>3
  <2> QED BY <1>3, <2>1, <2>2
<1>7. SeenByNow'
  <2>1. now \in Int
    BY FlowsTypes
  <2> QED BY <1>1, <1>2, <2>1 DEF SeenByNow, Live
<1> QED BY <1>1, <1>2, <1>4, <1>5, <1>6, <1>7 DEF ListByAge

(* Traffic of a flow, in either direction, touches its time only.          *)
LEMMA TouchKeeps ==
    ASSUME IInv, NEW e \in Live, Touch(e), UNCHANGED <<now, newest>>, HeardGrows
    PROVE  Agree'
<1> USE DEF IInv, Agree, TableOK, RestOK
<1> DEFINE n == [ent[e] EXCEPT !.lastSeen = now]
<1>0. e \in Elem /\ ent[e] \in Entry
  BY DEF Live
<1>1. n \in Entry /\ n.lastSeen = now /\ n.key = ent[e].key /\ n.real = ent[e].real
  BY <1>0, FlowsTypes DEF Entry
<1>2. ent' = [ent EXCEPT ![e] = n] /\ lru' = MoveToFront(e, Live)
      /\ flows' = flows /\ reverse' = reverse
  BY DEF Touch
<1>3. /\ Live' = Live
      /\ lru' \subseteq Live \X Live
      /\ ent' \in [Elem -> Entry \cup {None}]
      /\ ListByAge' /\ SeenByNow'
  <2> HIDE DEF n
  <2> QED BY <1>1, <1>2, FrontKeeps
<1>4. \A f \in Elem : ent[f] \in Entry => ent'[f].key = ent[f].key /\ ent'[f].real = ent[f].real
  BY <1>0, <1>1, <1>2
<1>5. \A f \in Live : f \in Elem /\ ent[f] \in Entry
  BY DEF Live
<1>6. MapsAgree'
  BY <1>2, <1>3, <1>4, <1>5 DEF MapsAgree
<1>7. Attribution'
  <2>1. \A f \in Live : ent[f].key \in Kernel
    BY <1>5 DEF Entry
  <2> QED BY <1>2, <1>4, <1>5, <2>1 DEF Attribution, MapsAgree, HeardGrows
<1>8. LatestOwnsReturn'
  BY <1>2, <1>4, <1>5 DEF LatestOwnsReturn, MapsAgree
<1> QED BY <1>2, <1>3, <1>6, <1>7, <1>8

(* remember of a flow that is there: the changed source takes the reverse  *)
(* mapping along.                                                          *)
LEMMA KnownKeeps ==
    ASSUME IInv, NEW k \in Kernel, NEW r \in Real, RememberKnown(k, r),
           r \in heard[k], NewestOf(k, r), UNCHANGED <<now, heard>>
    PROVE  Agree'
<1> USE DEF IInv, Agree, TableOK, RestOK
<1> DEFINE e == flows[k]
<1> DEFINE n == [key |-> k, real |-> r, lastSeen |-> now]
<1>0. e # None /\ e \in Live /\ e \in Elem /\ ent[e] \in Entry /\ ent[e].key = k
  BY DEF RememberKnown, MapsAgree, Live
<1>1. n \in Entry /\ n.lastSeen = now
  BY DEF Entry
<1>2. ent' = [ent EXCEPT ![e] = n] /\ lru' = MoveToFront(e, Live) /\ flows' = flows
  BY DEF RememberKnown
<1>3. /\ Live' = Live
      /\ lru' \subseteq Live \X Live
      /\ ent' \in [Elem -> Entry \cup {None}]
      /\ ListByAge' /\ SeenByNow'
  <2> HIDE DEF n, e
  <2> QED BY <1>0, <1>1, <1>2, FrontKeeps
<1>4. ent'[e].key = k /\ ent'[e].real = r /\ (\A f \in Elem : f # e => ent'[f] = ent[f])
  BY <1>0, <1>2
<1>5. \A f \in Live : f \in Elem /\ ent[f] \in Entry /\ ent[f].key \in Kernel
  BY DEF Live, Entry
<1>6. newest' = IF ent[e].real = r THEN newest ELSE [newest EXCEPT ![r] = k]
  BY <1>0 DEF NewestOf, Reported
<1>7. \/ /\ ent[e].real # r
         /\ reverse' = [ReverseWithout({e}) EXCEPT ![r] = e]
         /\ newest' = [newest EXCEPT ![r] = k]
      \/ ent[e].real = r /\ reverse' = reverse /\ newest' = newest
  BY <1>6 DEF RememberKnown
<1>8. \A x \in Real : \/ x = r /\ ent[e].real # r /\ reverse'[x] = e /\ newest'[x] = k
                      \/ x # r /\ ent[e].real # r /\ newest'[x] = newest[x]
                               /\ reverse'[x] = IF reverse[x] = e THEN None ELSE reverse[x]
                      \/ ent[e].real = r /\ reverse'[x] = reverse[x] /\ newest'[x] = newest[x]
  BY <1>0, <1>7 DEF ReverseWithout
<1>9. reverse' \in [Real -> Elem \cup {None}]
  BY <1>0, <1>7 DEF ReverseWithout
<1>10. \A j \in Kernel : flows[j] = e => j = k
  BY <1>0 DEF MapsAgree
<1> HIDE DEF e, n
<1>11. MapsAgree'
  <2>1. ASSUME NEW j \in Kernel, flows'[j] # None
        PROVE  flows'[j] \in Live' /\ ent'[flows'[j]].key = j
    BY <1>0, <1>2, <1>3, <1>4, <1>5, <1>10, <2>1 DEF MapsAgree
  <2>2. ASSUME NEW f \in Live' PROVE flows'[ent'[f].key] = f
    BY <1>0, <1>2, <1>3, <1>4, <1>5 DEF MapsAgree, e
  <2>3. ASSUME NEW x \in Real, reverse'[x] # None
        PROVE  reverse'[x] \in Live' /\ ent'[reverse'[x]].real = x
    BY <1>0, <1>3, <1>4, <1>5, <1>8, <2>3 DEF MapsAgree
  <2> QED BY <2>1, <2>2, <2>3 DEF MapsAgree
<1>12. Attribution'
  <2>1. ASSUME NEW j \in Kernel, flows'[j] # None
        PROVE  ent'[flows'[j]].real \in heard[j]
    <3>1. CASE j = k
      BY <1>2, <1>4, <3>1 DEF e
    <3>2. CASE j # k
      BY <1>2, <1>4, <1>5, <1>10, <2>1, <3>2 DEF Attribution, MapsAgree
    <3> QED BY <3>1, <3>2
  <2>2. ASSUME NEW x \in Real, reverse'[x] # None
        PROVE  x \in heard[ent'[reverse'[x]].key]
    <3>1. reverse'[x] \in Live' /\ ent'[reverse'[x]].real = x
      BY <1>11, <2>2 DEF MapsAgree
    <3>2. flows'[ent'[reverse'[x]].key] = reverse'[x] /\ ent'[reverse'[x]].key \in Kernel
      BY <1>3, <1>4, <1>5, <1>11, <3>1 DEF MapsAgree
    <3>3. reverse'[x] # None
      BY <2>2
    <3> QED BY <2>1, <3>1, <3>2, <3>3
  <2> QED BY <2>1, <2>2 DEF Attribution
<1>13. LatestOwnsReturn'
  <2> SUFFICES ASSUME NEW x \in Real, newest'[x] # None,
                      flows'[newest'[x]] # None, ent'[flows'[newest'[x]]].real = x
               PROVE  reverse'[x] = flows'[newest'[x]]
    BY DEF LatestOwnsReturn
  <2>1. CASE x = r /\ ent[e].real # r
    BY <1>2, <1>8, <2>1 DEF e
  <2>2. CASE x # r /\ ent[e].real # r
    <3>1. newest'[x] = newest[x] /\ newest[x] \in Kernel
      BY <1>8, <2>2
    <3>2. flows[newest[x]] # e
      BY <1>2, <1>4, <2>2, <3>1
    <3>3. flows[newest[x]] \in Live /\ flows[newest[x]] \in Elem
      BY <1>2, <1>5, <3>1 DEF MapsAgree
    <3>4. ent[flows[newest[x]]].real = x
      BY <1>2, <1>4, <3>1, <3>2, <3>3
    <3>5. reverse[x] = flows[newest[x]]
      BY <1>2, <3>1, <3>4 DEF LatestOwnsReturn
    <3> QED BY <1>2, <1>8, <2>2, <3>1, <3>2, <3>5
  <2>3. CASE ent[e].real = r
    <3>1. newest'[x] = newest[x] /\ reverse'[x] = reverse[x] /\ newest[x] \in Kernel
      BY <1>8, <2>3
    <3>2. flows[newest[x]] \in Live /\ flows[newest[x]] \in Elem
      BY <1>2, <1>5, <3>1 DEF MapsAgree
    <3>3. ent[flows[newest[x]]].real = x
      BY <1>2, <1>4, <2>3, <3>1, <3>2
    <3> QED BY <1>2, <3>1, <3>3 DEF LatestOwnsReturn
  <2> QED BY <2>1, <2>2, <2>3
<1> QED BY <1>2, <1>3, <1>9, <1>11, <1>12, <1>13

(* remember of a new flow, the evicted ones leaving in the same step.      *)
LEMMA NewKeeps ==
    ASSUME IInv, NEW k \in Kernel, NEW r \in Real, RememberNew(k, r),
           r \in heard[k], NewestOf(k, r), UNCHANGED <<now, heard>>
    PROVE  Agree'
<1> USE DEF IInv, Agree, TableOK, RestOK
<1> DEFINE S == Evicted
<1> DEFINE n == [key |-> k, real |-> r, lastSeen |-> now]
<1>0. S \subseteq Live /\ Live \subseteq Elem /\ None \notin Elem
  BY FlowsTypes DEF Evicted, Back, Live
<1>1. PICK e \in Elem \ Live :
        /\ ent' = [x \in Elem |-> IF x = e THEN n ELSE IF x \in S THEN None ELSE ent[x]]
        /\ lru' = Without(S) \cup {<<e, f>> : f \in Live \ S}
        /\ flows' = [FlowsWithout(S) EXCEPT ![k] = e]
        /\ reverse' = [ReverseWithout(S) EXCEPT ![r] = e]
  BY DEF RememberNew
<1>2. flows[k] = None /\ newest' = [newest EXCEPT ![r] = k]
  <2>1. flows[k] = None /\ r # None
    BY FlowsTypes DEF RememberNew
  <2> QED BY <2>1 DEF NewestOf, Reported
<1>3. n \in Entry /\ n # None /\ n.key = k /\ n.real = r /\ n.lastSeen = now
  BY NotNone DEF Entry
<1> HIDE DEF S, n
<1>4. /\ ent'[e] = n
      /\ \A x \in Live \ S : ent'[x] = ent[x]
      /\ Live' = (Live \ S) \cup {e}
  BY <1>0, <1>1, <1>3 DEF Live
<1>5. /\ flows'[k] = e
      /\ \A j \in Kernel : j # k => flows'[j] = IF flows[j] \in S THEN None ELSE flows[j]
      /\ reverse'[r] = e
      /\ \A x \in Real : x # r => reverse'[x] = IF reverse[x] \in S THEN None ELSE reverse[x]
  BY <1>1 DEF FlowsWithout, ReverseWithout
<1>6. lru' = {p \in lru : p[1] \notin S /\ p[2] \notin S} \cup {<<e, f>> : f \in Live \ S}
  BY <1>1 DEF Without
<1>7. TableOK'
  <2>1. flows' \in [Kernel -> Elem \cup {None}] /\ reverse' \in [Real -> Elem \cup {None}]
    BY <1>1 DEF FlowsWithout, ReverseWithout
  <2>2. ent' \in [Elem -> Entry \cup {None}]
    BY <1>1, <1>3
  <2>3. lru' \subseteq Live' \X Live'
    BY <1>4, <1>6
  <2> QED BY <2>1, <2>2, <2>3
<1>8. \A f \in Live : f \in Elem /\ ent[f] \in Entry /\ ent[f].key \in Kernel /\ ent[f].key # k
  <2>1. ASSUME NEW f \in Live PROVE f \in Elem /\ ent[f] \in Entry /\ ent[f].key \in Kernel
    BY DEF Live, Entry
  <2>2. ASSUME NEW f \in Live PROVE ent[f].key # k
    BY <1>0, <1>2, <2>1 DEF MapsAgree
  <2> QED BY <2>1, <2>2
<1>9. MapsAgree'
  <2>1. ASSUME NEW j \in Kernel, flows'[j] # None
        PROVE  flows'[j] \in Live' /\ ent'[flows'[j]].key = j
    <3>1. CASE j = k
      BY <1>3, <1>4, <1>5, <3>1
    <3>2. CASE j # k
      BY <1>4, <1>5, <2>1, <3>2 DEF MapsAgree
    <3> QED BY <3>1, <3>2
  <2>2. ASSUME NEW f \in Live' PROVE flows'[ent'[f].key] = f
    <3>1. CASE f = e
      BY <1>3, <1>4, <1>5, <3>1
    <3>2. CASE f \in Live \ S
      BY <1>4, <1>5, <1>8, <3>2 DEF MapsAgree
    <3> QED BY <1>4, <3>1, <3>2
  <2>3. ASSUME NEW x \in Real, reverse'[x] # None
        PROVE  reverse'[x] \in Live' /\ ent'[reverse'[x]].real = x
    <3>1. CASE x = r
      BY <1>3, <1>4, <1>5, <3>1
    <3>2. CASE x # r
      BY <1>4, <1>5, <2>3, <3>2 DEF MapsAgree
    <3> QED BY <3>1, <3>2
  <2> QED BY <2>1, <2>2, <2>3 DEF MapsAgree
<1>10. Attribution'
  <2>1. ASSUME NEW j \in Kernel, flows'[j] # None
        PROVE  ent'[flows'[j]].real \in heard[j]
    <3>1. CASE j = k
      BY <1>3, <1>4, <1>5, <3>1
    <3>2. CASE j # k
      BY <1>4, <1>5, <2>1, <3>2 DEF Attribution, MapsAgree
    <3> QED BY <3>1, <3>2
  <2>2. ASSUME NEW x \in Real, reverse'[x] # None
        PROVE  x \in heard[ent'[reverse'[x]].key]
    <3>1. reverse'[x] \in Live' /\ ent'[reverse'[x]].real = x
      BY <1>9, <2>2 DEF MapsAgree
    <3>2. flows'[ent'[reverse'[x]].key] = reverse'[x] /\ ent'[reverse'[x]].key \in Kernel
      BY <1>3, <1>4, <1>8, <1>9, <3>1 DEF MapsAgree
    <3> QED BY <2>1, <2>2, <3>1, <3>2
  <2> QED BY <2>1, <2>2 DEF Attribution
<1>11. LatestOwnsReturn'
  <2> SUFFICES ASSUME NEW x \in Real, newest'[x] # None,
                      flows'[newest'[x]] # None, ent'[flows'[newest'[x]]].real = x
               PROVE  reverse'[x] = flows'[newest'[x]]
    BY DEF LatestOwnsReturn
  <2>1. CASE x = r
    BY <1>2, <1>5, <2>1
  <2>2. CASE x # r
    <3>1. newest'[x] = newest[x] /\ newest[x] \in Kernel
      BY <1>2, <2>2
    <3>2. newest[x] # k
      BY <1>3, <1>4, <1>5, <2>2, <3>1
    <3>3. flows'[newest[x]] = flows[newest[x]] /\ flows[newest[x]] \notin S /\ flows[newest[x]] # None
      BY <1>5, <3>1, <3>2
    <3>4. flows[newest[x]] \in Live
      BY <3>1, <3>3 DEF MapsAgree
    <3>5. reverse[x] = flows[newest[x]]
      BY <1>4, <3>1, <3>3, <3>4 DEF LatestOwnsReturn
    <3> QED BY <1>5, <2>2, <3>1, <3>3, <3>5
  <2> QED BY <2>1, <2>2
<1>12. ListByAge' /\ SeenByNow'
  <2>1. \A g, f \in Live' : g # f => (<<g, f>> \in lru' <=> <<f, g>> \notin lru')
    <3> SUFFICES ASSUME NEW g \in Live', NEW f \in Live', g # f
                 PROVE  <<g, f>> \in lru' <=> <<f, g>> \notin lru'
      OBVIOUS
    <3>1. CASE g = e
      BY <1>4, <1>6, <3>1
    <3>2. CASE f = e
      BY <1>4, <1>6, <3>2
    <3>3. CASE g # e /\ f # e
      BY <1>4, <1>6, <3>3 DEF ListByAge
    <3> QED BY <3>1, <3>2, <3>3
  <2>2. ASSUME NEW p \in lru' PROVE ent'[p[1]].lastSeen >= ent'[p[2]].lastSeen
    <3>1. CASE p \in lru /\ p[1] \notin S /\ p[2] \notin S
      BY <1>4, <3>1 DEF ListByAge
    <3>2. CASE \E f \in Live \ S : p = <<e, f>>
      <4>1. PICK f \in Live \ S : p = <<e, f>>
        BY <3>2
      <4>2. ent[f].lastSeen <= now /\ ent[f].lastSeen \in Int /\ now \in Int
        BY <1>8, FlowsTypes DEF SeenByNow, Entry
      <4> QED BY <1>3, <1>4, <4>1, <4>2
    <3> QED BY <1>6, <3>1, <3>2
  <2>3. SeenByNow'
    <3>1. now \in Int
      BY FlowsTypes
    <3> QED BY <1>3, <1>4, <3>1 DEF SeenByNow
  <2> QED BY <2>1, <2>2, <2>3 DEF ListByAge
<1> QED BY <1>7, <1>9, <1>10, <1>11, <1>12

-----------------------------------------------------------------------------
LEMMA InitIInv == Init => IInv
<1> SUFFICES ASSUME Init PROVE IInv
  OBVIOUS
<1>1. Live = {}
  BY DEF Init, Live
<1>2. TableOK /\ MapsAgree /\ Attribution /\ LatestOwnsReturn /\ ListByAge /\ SeenByNow
  BY <1>1 DEF Init, TableOK, MapsAgree, Attribution, LatestOwnsReturn, ListByAge, SeenByNow
<1>3. RestOK
  BY FlowsTypes DEF Init, RestOK
<1> QED BY <1>2, <1>3 DEF IInv, Agree

LEMMA NextIInv == IInv /\ [Next]_vars => IInv'
<1> SUFFICES ASSUME IInv, [Next]_vars PROVE IInv'
  OBVIOUS
<1>1. ASSUME NEW p \in Reader, Remember(p) PROVE IInv'
  <2>1. /\ job[p].from \in Kernel /\ job[p].real \in Real
        /\ job[p].real \in heard[job[p].from]
        /\ NewestOf(job[p].from, job[p].real)
        /\ UNCHANGED <<now, heard>>
    BY <1>1 DEF IInv, RestOK, Remember, NewestOf
  <2>2. Agree'
    <3>1. CASE RememberKnown(job[p].from, job[p].real)
      BY <2>1, <3>1, KnownKeeps
    <3>2. CASE RememberNew(job[p].from, job[p].real)
      BY <2>1, <3>2, NewKeeps
    <3> QED BY <1>1, <3>1, <3>2 DEF Remember
  <2>3. newest' \in [Real -> Kernel \cup {None}]
    BY <2>1 DEF NewestOf, IInv, RestOK
  <2>4. RestOK'
    BY <1>1, <2>1, <2>3 DEF Remember, IInv, RestOK
  <2> QED BY <2>2, <2>4 DEF IInv
<1>0. ASSUME NEW k \in Kernel, NEW dg \in Datagram, Hear(k, dg)
      PROVE  /\ heard' \in [Kernel -> SUBSET Real] /\ HeardGrows
             /\ Parse(dg) # None => Parse(dg) \in heard'[k]
  <2>1. {Parse(dg)} \ {None} \subseteq Real
    BY ParseType
  <2> QED BY <1>0, <2>1 DEF Hear, HeardGrows, IInv, RestOK
<1>2. ASSUME NEW p \in Reader, NEW k \in Kernel, NEW dg \in Datagram, ReadCached(p, k, dg)
      PROVE  IInv'
  <2>1. flows[k] \in Live /\ Touch(flows[k]) /\ UNCHANGED <<now, pc, job, newest>> /\ Hear(k, dg)
    BY <1>2 DEF ReadCached, IInv, Agree, MapsAgree
  <2>2. heard' \in [Kernel -> SUBSET Real] /\ HeardGrows
    BY <1>0, <2>1
  <2>3. Agree'
    BY <2>1, <2>2, TouchKeeps
  <2>4. RestOK'
    BY <2>1, <2>2 DEF IInv, RestOK, HeardGrows
  <2> QED BY <2>3, <2>4 DEF IInv
<1>3. ASSUME NEW p \in Reader, NEW k \in Kernel, NEW dg \in Datagram, ReadUnknown(p, k, dg)
      PROVE  IInv'
  <2>1. removeEntry({flows[k]}) /\ UNCHANGED <<now, newest>> /\ Hear(k, dg)
    BY <1>3 DEF ReadUnknown
  <2>0. /\ heard' \in [Kernel -> SUBSET Real] /\ HeardGrows
        /\ Parse(dg) # None => Parse(dg) \in heard'[k]
    BY <1>0, <2>1
  <2>2. Agree'
    BY <2>0, <2>1, RemoveKeeps
  <2>3. \/ UNCHANGED <<pc, job>>
        \/ /\ Parse(dg) # None
           /\ pc' = [pc EXCEPT ![p] = "remember"]
           /\ job' = [job EXCEPT ![p] = [from |-> k, real |-> Parse(dg)]]
    BY <1>3 DEF ReadUnknown
  <2>4. RestOK'
    <3>1. CASE UNCHANGED <<pc, job>>
      BY <2>0, <2>1, <3>1 DEF IInv, RestOK, HeardGrows
    <3>2. CASE /\ Parse(dg) # None
               /\ pc' = [pc EXCEPT ![p] = "remember"]
               /\ job' = [job EXCEPT ![p] = [from |-> k, real |-> Parse(dg)]]
      <4>1. Parse(dg) \in Real
        BY <3>2, ParseType
      <4>2. [from |-> k, real |-> Parse(dg)] \in [from : Kernel, real : Real]
        BY <4>1
      <4>3. [from |-> k, real |-> Parse(dg)] # None
        BY <4>2, NotNone
      <4>4. ASSUME NEW q \in Reader, pc'[q] = "remember"
            PROVE  job'[q].real \in heard'[job'[q].from]
        <5>1. CASE q = p
          BY <2>0, <3>2, <5>1 DEF IInv, RestOK
        <5>2. CASE q # p
          <6>1. pc[q] = "remember" /\ job'[q] = job[q] /\ job[q].from \in Kernel
            BY <3>2, <4>4, <5>2 DEF IInv, RestOK
          <6> QED BY <2>0, <6>1 DEF IInv, RestOK, HeardGrows
        <5> QED BY <5>1, <5>2
      <4> QED BY <2>0, <2>1, <3>2, <4>1, <4>3, <4>4 DEF IInv, RestOK
    <3> QED BY <2>3, <3>1, <3>2
  <2> QED BY <2>2, <2>4 DEF IInv
<1>4. ASSUME NEW r \in Real, WriteKnown(r) PROVE IInv'
  <2>1. reverse[r] \in Live /\ Touch(reverse[r]) /\ UNCHANGED <<now, pc, job, heard, newest>>
    BY <1>4 DEF WriteKnown, IInv, Agree, MapsAgree
  <2>2. Agree'
    BY <2>1, TouchKeeps DEF HeardGrows
  <2>3. RestOK'
    BY <2>1 DEF IInv, RestOK
  <2> QED BY <2>2, <2>3 DEF IInv
<1>5. ASSUME NEW r \in Real, WriteUnknown(r) PROVE IInv'
  <2>1. removeEntry({reverse[r]}) /\ UNCHANGED <<now, pc, job, heard, newest>>
    BY <1>5 DEF WriteUnknown
  <2> QED BY <2>1, RemoveKeeps DEF IInv, RestOK, HeardGrows
<1>6. ASSUME EvictIdle PROVE IInv'
  <2>1. PICK S : removeEntry(S)
    BY <1>6 DEF EvictIdle
  <2>2. UNCHANGED <<now, pc, job, heard, newest>>
    BY <1>6 DEF EvictIdle
  <2> QED BY <2>1, <2>2, RemoveKeeps DEF IInv, RestOK, HeardGrows
<1>7. ASSUME Tick PROVE IInv'
  <2>1. UNCHANGED <<table, pc, job, heard, newest>> /\ now' = now + 1 /\ now < MaxNow
    BY <1>7 DEF Tick
  <2>2. TableOK' /\ MapsAgree' /\ Attribution' /\ LatestOwnsReturn' /\ ListByAge'
    BY <2>1 DEF table, Live, IInv, Agree, TableOK, MapsAgree, Attribution, LatestOwnsReturn,
                ListByAge
  <2>3. SeenByNow'
    <3>1. Live' = Live /\ ent' = ent
      BY <2>1 DEF table, Live
    <3>2. \A e \in Live : ent[e].lastSeen \in Int
      BY FlowsTypes DEF IInv, Agree, TableOK, Live, Entry
    <3>3. now \in Int
      BY FlowsTypes DEF IInv, RestOK
    <3> QED BY <2>1, <3>1, <3>2, <3>3 DEF IInv, Agree, SeenByNow
  <2>4. RestOK'
    BY <2>1, FlowsTypes DEF IInv, RestOK
  <2> QED BY <2>2, <2>3, <2>4 DEF IInv, Agree
<1>8. ASSUME UNCHANGED vars PROVE IInv'
  BY <1>8 DEF vars, table, IInv, Agree, RestOK, TableOK, MapsAgree, Attribution,
              LatestOwnsReturn, ListByAge, SeenByNow, Live
<1> QED BY <1>1, <1>2, <1>3, <1>4, <1>5, <1>6, <1>7, <1>8 DEF Next

LEMMA FlowsInv == Spec => []IInv
BY InitIInv, NextIInv, PTL DEF Spec

(* removeEntry, remember and both lookups keep flows, reverse and the list *)
(* one table, for any number of concurrent readers: the same live entries, *)
(* the list by age, so that evictIdle may stop at the first fresh one and  *)
(* the element at the back is the one idle longest.                        *)
THEOREM FlowsTable == Spec => []TableInv
<1>1. IInv => TypeOK
  BY DEF IInv, Agree, TableOK, RestOK, TypeOK
<1>2. IInv => MapsAgree /\ ListByAge
  BY DEF IInv, Agree
<1> QED BY <1>1, <1>2, FlowsInv, PTL DEF TableInv

(* For any number of flows and readers: a datagram is reported under       *)
(* something its own kernel source announced, and a kernel source is       *)
(* answered only for that; of the flows reported under one source the      *)
(* return path is the last one's to come to be, as long as it is.          *)
THEOREM FlowsAddressOwners == Spec => []AddressOwners
<1>1. IInv => Attribution /\ LatestOwnsReturn
  BY DEF IInv, Agree
<1> QED BY <1>1, FlowsInv, PTL DEF AddressOwners
-----------------------------------------------------------------------------
(* The list is a strict order: with ListByAge, every two live elements     *)
(* have one place each in it.                                              *)
ListOrder ==
    /\ \A e \in Live : <<e, e>> \notin lru
    /\ \A e, f, g \in Live : <<e, f>> \in lru /\ <<f, g>> \in lru => <<e, g>> \in lru

Bound == ListOrder /\ FlowsBounded

(* Live elements are told apart by their kernel source, so there are no    *)
(* more of them than kernel sources.                                       *)
LEMMA LiveFinite == IInv => IsFiniteSet(Live)
<1> SUFFICES ASSUME IInv PROVE IsFiniteSet(Live)
  OBVIOUS
<1> DEFINE key == [e \in Live |-> ent[e].key]
<1>1. \A e \in Live : ent[e].key \in Kernel /\ flows[ent[e].key] = e
  BY DEF IInv, Agree, TableOK, MapsAgree, Live, Entry
<1>2. key \in [Live -> Kernel]
  BY <1>1
<1>3. \A e, f \in Live : key[e] = key[f] => e = f
  BY <1>1
<1>4. key \in Injection(Live, Kernel)
  BY <1>2, <1>3 DEF Injection, IsInjective
<1> QED BY <1>4, FlowsTypes, FS_Injection

(* A set of naturals that is not empty has a least member.                 *)
LEMMA LeastNatural ==
    ASSUME NEW T \in SUBSET Nat, T # {}
    PROVE  \E x \in T : \A y \in T : x <= y
<1>1. PICK x \in T : \A y \in T : <<y, x>> \notin OpToRel(<, Nat)
  BY WFMin, NatLessThanWellFounded, Zenon
<1>2. \A y \in T : ~(y < x)
  BY <1>1, Zenon DEF OpToRel
<1> QED BY <1>2

(* A list that is not empty has a back: the element with the fewest behind *)
(* it has none behind it.                                                  *)
LEMMA BackExists ==
    ASSUME IInv, ListOrder, Live # {}
    PROVE  Back # {}
<1> DEFINE Behind(e) == {f \in Live : <<e, f>> \in lru}
           T == {n \in Nat : \E e \in Live : n = Cardinality(Behind(e))}
<1>1. \A e \in Live : IsFiniteSet(Behind(e)) /\ Cardinality(Behind(e)) \in Nat
  <2> TAKE e \in Live
  <2>1. Behind(e) \in SUBSET Live
    OBVIOUS
  <2>2. IsFiniteSet(Behind(e))
    BY <2>1, LiveFinite, FS_Subset
  <2> QED BY <2>2, FS_CardinalityType
<1>2. T \in SUBSET Nat /\ T # {}
  <2>1. PICK e \in Live : TRUE
    OBVIOUS
  <2>2. Cardinality(Behind(e)) \in T
    BY <1>1, <2>1
  <2> QED BY <2>2
<1>3. PICK n \in T : \A m \in T : n <= m
  <2> HIDE DEF T
  <2> QED BY <1>2, LeastNatural
<1>4. PICK e \in Live : n = Cardinality(Behind(e))
  BY <1>3
<1>5. ASSUME NEW f \in Live, <<e, f>> \in lru PROVE FALSE
  <2>1. Behind(f) \in SUBSET Behind(e)
    BY <1>5 DEF ListOrder
  <2>2. f \in Behind(e) /\ f \notin Behind(f)
    BY <1>5 DEF ListOrder
  <2>3. Cardinality(Behind(f)) \in T
    BY <1>1
  <2>4. n <= Cardinality(Behind(f))
    BY <1>3, <2>3
  <2> HIDE DEF Behind
  <2>5. Cardinality(Behind(f)) <= Cardinality(Behind(e)) /\ Cardinality(Behind(e)) # Cardinality(Behind(f))
    BY <1>1, <2>1, <2>2, FS_Subset
  <2> QED BY <1>1, <1>4, <2>4, <2>5
<1>6. e \in Back
  BY <1>5 DEF Back
<1> QED BY <1>6

(* What leaves the table does not disturb the order of the rest, and       *)
(* removeEntry adds nothing.                                               *)
LEMMA RemoveBound ==
    ASSUME IInv, Bound, NEW S, removeEntry(S)
    PROVE  Bound'
<1>1. Live' = Live \ S /\ lru' = {p \in lru : p[1] \notin S /\ p[2] \notin S}
  <2>1. None \notin Elem
    BY FlowsTypes
  <2> QED BY <2>1 DEF removeEntry, Live, Without, IInv, Agree, TableOK
<1>2. ListOrder'
  BY <1>1 DEF ListOrder, Bound
<1>3. FlowsBounded'
  <2>1. Live' \in SUBSET Live /\ IsFiniteSet(Live)
    BY <1>1, LiveFinite
  <2>2. IsFiniteSet(Live') /\ Cardinality(Live') <= Cardinality(Live)
    BY <2>1, FS_Subset
  <2>3. Cardinality(Live') \in Nat /\ Cardinality(Live) \in Nat /\ MaxFlows \in Nat
    BY <2>1, <2>2, FS_CardinalityType, FlowsTypes
  <2> QED BY <2>2, <2>3 DEF FlowsBounded, Bound
<1> QED BY <1>2, <1>3 DEF Bound

(* An element that moves to the front stays before all the others, and no  *)
(* element comes or goes.                                                  *)
LEMMA FrontBound ==
    ASSUME IInv, Bound, NEW e \in Live, Live' = Live, lru' = MoveToFront(e, Live)
    PROVE  Bound'
<1>1. lru' = {p \in lru : p[1] # e /\ p[2] # e} \cup {<<e, f>> : f \in Live \ {e}}
  BY DEF MoveToFront, Without
<1>2. \A f, g \in Live : <<f, g>> \in lru' <=> (g # e /\ (f = e \/ <<f, g>> \in lru))
  BY <1>1 DEF Bound, ListOrder
<1>3. ListOrder'
  BY <1>2 DEF ListOrder, Bound
<1> QED BY <1>3 DEF FlowsBounded, Bound

(* A new flow: below the limit it is one more; at the limit the back goes  *)
(* first, and there is one.                                                *)
LEMMA NewBound ==
    ASSUME IInv, Bound, NEW k \in Kernel, NEW r \in Real, RememberNew(k, r)
    PROVE  Bound'
<1> DEFINE S == Evicted
           n == [key |-> k, real |-> r, lastSeen |-> now]
<1>0. S \subseteq Live /\ IsFiniteSet(Live) /\ MaxFlows \in Nat \ {0}
  BY LiveFinite, FlowsTypes DEF Evicted, Back
<1>1. PICK e \in Elem \ Live :
        /\ ent' = [x \in Elem |-> IF x = e THEN n ELSE IF x \in S THEN None ELSE ent[x]]
        /\ lru' = Without(S) \cup {<<e, f>> : f \in Live \ S}
  BY DEF RememberNew
<1>2. n # None
  <2>1. n \in Entry
    BY DEF Entry, IInv, RestOK
  <2> QED BY <2>1, NotNone
<1> HIDE DEF S, n
<1>3. Live' = (Live \ S) \cup {e}
  BY <1>0, <1>1, <1>2 DEF Live
<1>4. ListOrder'
  <2>1. lru' = {p \in lru : p[1] \notin S /\ p[2] \notin S} \cup {<<e, f>> : f \in Live \ S}
    BY <1>1 DEF Without
  <2>2. \A p \in lru : p[1] # e /\ p[2] # e
    BY <1>1 DEF IInv, Agree, TableOK
  <2>3. \A f, g \in Live' : <<f, g>> \in lru' <=> (g # e /\ (f = e \/ <<f, g>> \in lru))
    BY <1>1, <1>3, <2>1, <2>2
  <2>4. \A f \in Live' : f # e => f \in Live
    BY <1>3
  <2> QED BY <2>3, <2>4 DEF ListOrder, Bound
<1>5. IsFiniteSet(Live \ S) /\ Cardinality(Live \ S) \in Nat /\ Cardinality(Live) \in Nat
  BY <1>0, FS_Difference, FS_CardinalityType
<1>6. Cardinality(Live \ S) < MaxFlows
  <2>1. CASE Cardinality(Live) >= MaxFlows
    <3>1. Live # {}
      BY <1>0, <1>5, <2>1, FS_EmptySet
    <3>2. S # {}
      BY <2>1, <3>1, BackExists DEF Bound, S, Evicted
    <3>3. Live \ S # Live /\ Live \ S \in SUBSET Live
      BY <1>0, <3>2
    <3>4. Cardinality(Live \ S) <= Cardinality(Live) /\ Cardinality(Live) # Cardinality(Live \ S)
      BY <1>0, <3>3, FS_Subset
    <3> QED BY <1>0, <1>5, <3>4 DEF Bound, FlowsBounded
  <2>2. CASE Cardinality(Live) < MaxFlows
    <3>1. Cardinality(Live \ S) <= Cardinality(Live)
      BY <1>0, FS_Subset, Live \ S \in SUBSET Live
    <3> QED BY <1>0, <1>5, <2>2, <3>1
  <2> QED BY <1>0, <1>5, <2>1, <2>2
<1>7. Cardinality(Live') = Cardinality(Live \ S) + 1
  BY <1>1, <1>3, <1>5, FS_AddElement
<1>8. FlowsBounded'
  BY <1>0, <1>5, <1>6, <1>7 DEF FlowsBounded
<1> QED BY <1>4, <1>8 DEF Bound

LEMMA InitBound == Init => Bound
<1> SUFFICES ASSUME Init PROVE Bound
  OBVIOUS
<1>1. Live = {}
  BY DEF Init, Live
<1>2. Cardinality(Live) = 0 /\ MaxFlows \in Nat
  BY <1>1, FS_EmptySet, FlowsTypes
<1> QED BY <1>1, <1>2 DEF Bound, ListOrder, FlowsBounded

LEMMA NextBound == IInv /\ Bound /\ [Next]_vars => Bound'
<1> SUFFICES ASSUME IInv, Bound, [Next]_vars PROVE Bound'
  OBVIOUS
<1>0. ASSUME NEW e \in Live, Touch(e) PROVE Bound'
  <2> DEFINE n == [ent[e] EXCEPT !.lastSeen = now]
  <2>1. e \in Elem /\ ent[e] \in Entry /\ now \in 0..MaxNow
    BY DEF Live, IInv, Agree, TableOK, RestOK
  <2>2. n \in Entry /\ ent' = [ent EXCEPT ![e] = n] /\ lru' = MoveToFront(e, Live)
    BY <1>0, <2>1 DEF Touch, Entry
  <2>3. n # None
    BY <2>2, NotNone
  <2>4. Live' = Live
    <3> HIDE DEF n
    <3> QED BY <2>1, <2>2, <2>3 DEF Live, IInv, Agree, TableOK
  <2> QED BY <2>2, <2>4, FrontBound
<1>1. ASSUME NEW p \in Reader, Remember(p) PROVE Bound'
  <2> DEFINE k == job[p].from
             r == job[p].real
  <2>1. k \in Kernel /\ r \in Real
    BY <1>1 DEF IInv, RestOK, Remember
  <2>2. CASE RememberKnown(k, r)
    <3> DEFINE n == [key |-> k, real |-> r, lastSeen |-> now]
    <3>1. flows[k] \in Live /\ flows[k] \in Elem
      BY <2>1, <2>2 DEF RememberKnown, IInv, Agree, MapsAgree, Live
    <3>2. n # None
      <4>1. n \in Entry
        BY <2>1 DEF Entry, IInv, RestOK
      <4> QED BY <4>1, NotNone
    <3>3. ent' = [ent EXCEPT ![flows[k]] = n] /\ lru' = MoveToFront(flows[k], Live)
      BY <2>2 DEF RememberKnown
    <3>4. Live' = Live
      <4> HIDE DEF n, k
      <4> QED BY <3>1, <3>2, <3>3 DEF Live, IInv, Agree, TableOK
    <3> QED BY <3>1, <3>3, <3>4, FrontBound
  <2>3. CASE RememberNew(k, r)
    <3> HIDE DEF k, r
    <3> QED BY <2>1, <2>3, NewBound
  <2> QED BY <1>1, <2>2, <2>3 DEF Remember
<1>2. ASSUME NEW p \in Reader, NEW k \in Kernel, NEW dg \in Datagram, ReadCached(p, k, dg)
      PROVE  Bound'
  <2>1. flows[k] \in Live /\ Touch(flows[k])
    BY <1>2 DEF ReadCached, IInv, Agree, MapsAgree
  <2> QED BY <1>0, <2>1
<1>3. ASSUME NEW p \in Reader, NEW k \in Kernel, NEW dg \in Datagram, ReadUnknown(p, k, dg)
      PROVE  Bound'
  BY <1>3, RemoveBound DEF ReadUnknown
<1>4. ASSUME NEW r \in Real, WriteKnown(r) PROVE Bound'
  <2>1. reverse[r] \in Live /\ Touch(reverse[r])
    BY <1>4 DEF WriteKnown, IInv, Agree, MapsAgree
  <2> QED BY <1>0, <2>1
<1>5. ASSUME NEW r \in Real, WriteUnknown(r) PROVE Bound'
  BY <1>5, RemoveBound DEF WriteUnknown
<1>6. ASSUME EvictIdle PROVE Bound'
  <2>1. PICK S : removeEntry(S)
    BY <1>6 DEF EvictIdle
  <2> QED BY <2>1, RemoveBound
<1>7. ASSUME Tick \/ UNCHANGED vars PROVE Bound'
  <2>1. Live' = Live /\ lru' = lru
    BY <1>7 DEF Tick, vars, table, Live
  <2> QED BY <2>1 DEF Bound, ListOrder, FlowsBounded
<1> QED BY <1>1, <1>2, <1>3, <1>4, <1>5, <1>6, <1>7 DEF Next

(* DefaultUDPMaxFlows is never exceeded, for any limit and any number of   *)
(* readers between lookup and remember: remember drops the back of the     *)
(* list before the entry that would be one too many.                       *)
THEOREM FlowsBoundedHolds == Spec => []FlowsBounded
<1>1. Bound => FlowsBounded
  BY DEF Bound
<1> QED BY <1>1, FlowsInv, InitBound, NextBound, PTL DEF Spec
=============================================================================
