--------------------------- MODULE ResolverProofs ---------------------------
(***************************************************************************)
(* Resolver implements DeviceLookup for every number of callers, devices   *)
(* and every TTL.  Whatever a caller may be told next (the cached fact,    *)
(* the reply under way, the leader's result) is a fact of TPM's log, young *)
(* enough, and no older than anything told before: that needs the single   *)
(* flight, which keeps the answers of one device in order.                 *)
(***************************************************************************)
EXTENDS Resolver, TLAPS

Leading == {"sent", "replied", "finish"}

Types ==
    /\ enabled \in BOOLEAN
    /\ cache \in [Device -> [fact : Fact, putAt : 0..MaxNow] \cup {None}]
    /\ flight \in [Device -> Caller \cup {None}]
    /\ pc \in [Caller -> Pc] /\ dev \in [Caller -> Device \cup {None}]
    /\ due \in [Caller -> 0..MaxNow + HTTPTimeout]
    /\ reply \in [Caller -> Fact \cup {None}]
    /\ res \in [Caller -> Fact \cup {None}]
    /\ now \in 0..MaxNow
    /\ tpm \in [Device -> [ver : 0..MaxVer, doc : Doc]]
    /\ log \in [Device -> SUBSET Fact]
    /\ seen \in [Device -> 0..MaxVer] /\ floor \in [Caller -> 0..MaxVer]

Calls ==
    /\ \A c \in Caller : pc[c] = "idle" <=> dev[c] = None
    /\ \A c \in Caller : pc[c] \in Leading => flight[dev[c]] = c
    /\ \A c \in Caller : dev[c] # None => floor[c] <= seen[dev[c]]

World ==
    \A d \in Device :
        /\ [ver |-> tpm[d].ver, doc |-> tpm[d].doc, at |-> now] \in log[d]
        /\ seen[d] <= tpm[d].ver

(* A fact that may be told to any caller of d.                             *)
Tellable(d, f) == f \in log[d] /\ seen[d] <= f.ver /\ f.ver <= tpm[d].ver

Cached ==
    \A d \in Device : cache[d] # None =>
        /\ enabled
        /\ Tellable(d, cache[d].fact)
        /\ Usable(d, cache[d].fact.doc)
        /\ cache[d].putAt <= cache[d].fact.at + HTTPTimeout
        /\ cache[d].putAt <= now

Requests ==
    /\ \A c \in Caller : pc[c] = "sent" => now <= due[c] /\ due[c] <= now + HTTPTimeout
    /\ \A c \in Caller : pc[c] = "replied" =>
        /\ reply[c] # None /\ Tellable(dev[c], reply[c])
        /\ now <= due[c] /\ due[c] <= reply[c].at + HTTPTimeout
        /\ cache[dev[c]] # None => cache[dev[c]].fact.ver <= reply[c].ver

Bound == 2 * TTL + HTTPTimeout

Results ==
    \A c \in Caller : pc[c] = "finish" /\ res[c] # None =>
        /\ Tellable(dev[c], res[c])
        /\ Outcome(dev[c], res[c].doc) # Upstream
        /\ now <= res[c].at + Bound
        /\ cache[dev[c]] # None => cache[dev[c]].fact = res[c]

IInv == Types /\ Calls /\ World /\ Cached /\ Requests /\ Results

(* Numbers, and the facts that are not None.                               *)
LEMMA Basics ==
    /\ TTL \in Nat /\ HTTPTimeout \in Nat /\ MaxNow \in Nat /\ MaxVer \in Nat
    /\ None \notin Device /\ None \notin Caller
    /\ \A f \in Fact : f # None /\ f.ver \in Nat /\ f.at \in Nat
    /\ \A e \in [fact : Fact, putAt : 0..MaxNow] :
          e # None /\ e.fact \in Fact /\ e.putAt \in Nat
<1>1. TTL \in Nat /\ HTTPTimeout \in Nat /\ MaxNow \in Nat /\ MaxVer \in Nat
  BY ResolverTypes
<1>2. Fact \subseteq [ver : Nat, doc : Doc, at : Nat]
  BY <1>1 DEF Fact
<1>3. [fact : Fact, putAt : 0..MaxNow] \subseteq [fact : [ver : Nat, doc : Doc, at : Nat], putAt : Nat]
  BY <1>1, <1>2
<1> QED BY <1>1, <1>2, <1>3, ResolverTypes

(* The three kinds of outcome exclude each other.                          *)
LEMMA Kinds ==
    ASSUME NEW d, NEW doc, Usable(d, doc) \/ Terminal(d, doc)
    PROVE  Outcome(d, doc) # Upstream
BY DEF Usable, Terminal, Upstream

LEMMA InitIInv == Init => IInv
<1> SUFFICES ASSUME Init PROVE IInv
  OBVIOUS
<1> USE Basics DEF Init
<1>1. PICK f \in [Device -> Doc] :
        /\ tpm = [d \in Device |-> [ver |-> 0, doc |-> f[d]]]
        /\ log = [d \in Device |-> {[ver |-> 0, doc |-> f[d], at |-> 0]}]
  OBVIOUS
<1>2. tpm \in [Device -> [ver : 0..MaxVer, doc : Doc]] /\ log \in [Device -> SUBSET Fact]
  BY <1>1 DEF Fact
<1>3. Types
  BY <1>2 DEF Types, Pc
<1>4. Calls /\ Cached /\ Requests /\ Results
  BY DEF Calls, Cached, Requests, Results, Leading
<1>5. World
  BY <1>1 DEF World
<1> QED BY <1>3, <1>4, <1>5 DEF IInv

-----------------------------------------------------------------------------
(* A caller with a device is at work on one of Device.                     *)
LEMMA AtWork ==
    ASSUME IInv, NEW c \in Caller, pc[c] # "idle"
    PROVE  dev[c] \in Device /\ floor[c] <= seen[dev[c]]
BY DEF IInv, Types, Calls

(* Only one caller leads for a device.                                     *)
LEMMA OneLeader ==
    ASSUME IInv, NEW c \in Caller, NEW e \in Caller, pc[c] \in Leading, pc[e] \in Leading,
           dev[c] = dev[e]
    PROVE  c = e
BY DEF IInv, Calls

(* Steps of a caller that does not lead: only its pc, its device and what  *)
(* it was told change.                                                     *)
LEMMA QuietStep ==
    ASSUME IInv, NEW c \in Caller,
           \/ SoftMiss(c)
           \/ Join(c)
           \/ \E d \in Device : Call(c, d)
    PROVE  IInv'
<1> USE Basics DEF IInv
<1>1. UNCHANGED <<enabled, cache, flight, due, reply, res, now, tpm, log, seen>>
  BY DEF SoftMiss, Join, Call, world
<1>2. /\ pc' \in [Caller -> Pc]
      /\ \A e \in Caller : e # c => pc'[e] = pc[e]
      /\ pc'[c] \in {"soft", "do", "wait"} /\ pc[c] \notin Leading
  BY DEF SoftMiss, Join, Call, Types, Pc, Leading
<1>3. /\ dev' \in [Caller -> Device \cup {None}] /\ floor' \in [Caller -> 0..MaxVer]
      /\ \A e \in Caller : e # c => dev'[e] = dev[e] /\ floor'[e] = floor[e]
      /\ dev'[c] \in Device /\ floor'[c] <= seen[dev'[c]]
  <2>1. CASE SoftMiss(c) \/ Join(c)
    <3>1. pc[c] # "idle" /\ dev' = dev /\ floor' = floor
      BY <2>1 DEF SoftMiss, Join
    <3> QED BY <3>1, AtWork DEF Types
  <2>2. ASSUME NEW d \in Device, Call(c, d)
        PROVE  /\ dev' \in [Caller -> Device \cup {None}] /\ floor' \in [Caller -> 0..MaxVer]
               /\ \A e \in Caller : e # c => dev'[e] = dev[e] /\ floor'[e] = floor[e]
               /\ dev'[c] \in Device /\ floor'[c] <= seen[dev'[c]]
    BY <2>2 DEF Call, Types
  <2> QED BY <2>1, <2>2
<1>4. \A e \in Caller : pc'[e] \in Leading => e # c
  BY <1>2 DEF Leading
<1>5. Types'
  BY <1>1, <1>2, <1>3 DEF Types
<1>6. Calls'
  <2>1. \A e \in Caller : pc'[e] = "idle" <=> dev'[e] = None
    BY <1>2, <1>3 DEF Calls
  <2>2. \A e \in Caller : pc'[e] \in Leading => flight'[dev'[e]] = e
    BY <1>1, <1>2, <1>3, <1>4 DEF Calls
  <2>3. \A e \in Caller : dev'[e] # None => floor'[e] <= seen'[dev'[e]]
    BY <1>1, <1>3 DEF Calls
  <2> QED BY <2>1, <2>2, <2>3 DEF Calls
<1>7. World' /\ Cached'
  BY <1>1 DEF World, Cached, Tellable
<1>8. Requests'
  BY <1>1, <1>2, <1>3, <1>4 DEF Requests, Tellable, Leading
<1>9. Results'
  BY <1>1, <1>2, <1>3, <1>4 DEF Results, Tellable, Leading
<1> QED BY <1>5, <1>6, <1>7, <1>8, <1>9

(* The leader's own steps before it finishes: nobody is told anything.     *)
LEMMA LeadStep ==
    ASSUME IInv, NEW c \in Caller, Lead(c)
    PROVE  IInv'
<1> USE Basics DEF IInv
<1> DEFINE d == dev[c]
<1>1. /\ UNCHANGED <<enabled, cache, dev, reply, now, tpm, log, seen, floor>>
      /\ pc[c] = "do" /\ flight[d] = None /\ flight' = [flight EXCEPT ![d] = c]
  BY DEF Lead, world
<1>2. d \in Device
  BY <1>1, AtWork
<1>3. /\ \A e \in Caller : e # c => pc'[e] = pc[e] /\ due'[e] = due[e] /\ res'[e] = res[e]
      /\ pc' \in [Caller -> Pc] /\ due' \in [Caller -> 0..MaxNow + HTTPTimeout]
      /\ res' \in [Caller -> Fact \cup {None}]
      /\ \/ /\ pc'[c] = "finish" /\ cacheGetSoft(d) /\ res'[c] = cache[d].fact
         \/ /\ pc'[c] = "sent" /\ due'[c] = now + HTTPTimeout
  <2>1. cacheGetSoft(d) => cache[d].fact \in Fact
    BY <1>2 DEF cacheGetSoft, cacheGet, Types
  <2>2. now + HTTPTimeout \in 0..MaxNow + HTTPTimeout
    BY DEF Types
  <2>3. CASE cacheGetSoft(d)
    <3>1. /\ pc' = [pc EXCEPT ![c] = "finish"] /\ due' = due
          /\ res' = [res EXCEPT ![c] = cache[d].fact]
      BY <2>3 DEF Lead
    <3> QED BY <2>1, <2>3, <3>1 DEF Types, Pc
  <2>4. CASE ~cacheGetSoft(d)
    <3>1. /\ pc' = [pc EXCEPT ![c] = "sent"] /\ res' = res
          /\ due' = [due EXCEPT ![c] = now + HTTPTimeout]
      BY <2>4 DEF Lead
    <3> QED BY <2>2, <3>1 DEF Types, Pc
  <2> QED BY <2>3, <2>4
<1>4. \A e \in Caller : pc[e] \in Leading => dev[e] # d
  BY <1>1 DEF Calls
<1>5. Types'
  BY <1>1, <1>2, <1>3 DEF Types
<1>6. Calls'
  <2>1. \A e \in Caller : pc'[e] = "idle" <=> dev'[e] = None
    BY <1>1, <1>3 DEF Calls
  <2>2. ASSUME NEW e \in Caller, pc'[e] \in Leading PROVE flight'[dev'[e]] = e
    <3>1. CASE e = c
      BY <1>1, <1>2, <3>1 DEF Types
    <3>2. CASE e # c
      <4>1. pc[e] \in Leading /\ dev[e] \in Device
        BY <1>3, <2>2, <3>2, AtWork DEF Leading
      <4> QED BY <1>1, <1>2, <1>4, <4>1 DEF Calls, Types
    <3> QED BY <3>1, <3>2
  <2>3. \A e \in Caller : dev'[e] # None => floor'[e] <= seen'[dev'[e]]
    BY <1>1 DEF Calls
  <2> QED BY <2>1, <2>2, <2>3 DEF Calls
<1>7. World' /\ Cached'
  BY <1>1 DEF World, Cached, Tellable
<1>8. Requests'
  <2>1. ASSUME NEW e \in Caller, pc'[e] = "sent"
        PROVE  now' <= due'[e] /\ due'[e] <= now' + HTTPTimeout
    BY <1>1, <1>3, <2>1 DEF Requests, Types
  <2>2. ASSUME NEW e \in Caller, pc'[e] = "replied" PROVE e # c
    BY <1>3, <2>2
  <2> QED BY <1>1, <1>3, <2>1, <2>2 DEF Requests, Tellable
<1>9. Results'
  <2> SUFFICES ASSUME NEW e \in Caller, pc'[e] = "finish", res'[e] # None
               PROVE  /\ Tellable(dev[e], res'[e])
                      /\ Outcome(dev[e], res'[e].doc) # Upstream
                      /\ now <= res'[e].at + Bound
                      /\ cache[dev[e]] # None => cache[dev[e]].fact = res'[e]
    BY <1>1 DEF Results, Tellable
  <2>1. CASE e = c
    <3>1. cacheGetSoft(d) /\ res'[c] = cache[d].fact
      BY <1>3, <2>1
    <3>2. cache[d] # None /\ now <= cache[d].putAt + TTL /\ cache[d] \in [fact : Fact, putAt : 0..MaxNow]
      BY <1>2, <3>1 DEF cacheGetSoft, cacheGet, Types
    <3>3. /\ Tellable(d, res'[c]) /\ Usable(d, res'[c].doc)
          /\ cache[d].putAt <= res'[c].at + HTTPTimeout
      BY <1>2, <3>1, <3>2 DEF Cached
    <3>4. now \in Int /\ cache[d].putAt \in Int /\ res'[c].at \in Int
      BY <3>1, <3>2 DEF Types
    <3>5. now <= res'[c].at + Bound
      BY <3>2, <3>3, <3>4 DEF Bound
    <3> QED BY <2>1, <3>1, <3>3, <3>5, Kinds
  <2>2. CASE e # c
    BY <1>3, <2>2 DEF Results
  <2> QED BY <2>1, <2>2
<1> QED BY <1>5, <1>6, <1>7, <1>8, <1>9

LEMMA ReadStep ==
    ASSUME IInv, NEW c \in Caller, TPMReads(c)
    PROVE  IInv'
<1> USE Basics DEF IInv
<1> DEFINE d == dev[c]
<1> DEFINE f == [ver |-> tpm[d].ver, doc |-> tpm[d].doc, at |-> now]
<1>1. /\ UNCHANGED <<enabled, cache, flight, dev, due, res, now, tpm, log, seen, floor>>
      /\ pc[c] = "sent" /\ pc' = [pc EXCEPT ![c] = "replied"]
      /\ reply' = [reply EXCEPT ![c] = f]
  BY DEF TPMReads, world
<1>2. d \in Device
  BY <1>1, AtWork
<1>3. f \in log[d] /\ f \in Fact /\ f # None /\ f.at = now /\ f.ver = tpm[d].ver
  BY <1>2 DEF World, Types, Fact
<1>4. Tellable(d, f)
  BY <1>2, <1>3 DEF Tellable, World, Types
<1> HIDE DEF f
<1>5. Types'
  BY <1>1, <1>3 DEF Types, Pc
<1>6. Calls'
  BY <1>1 DEF Calls, Leading, Types
<1>7. World' /\ Cached'
  BY <1>1 DEF World, Cached, Tellable
<1>8. Requests'
  <2>1. \A e \in Caller : pc'[e] = "sent" => now' <= due'[e] /\ due'[e] <= now' + HTTPTimeout
    BY <1>1 DEF Requests, Types
  <2>2. ASSUME NEW e \in Caller, pc'[e] = "replied"
        PROVE  /\ reply'[e] # None /\ Tellable(dev[e], reply'[e])
               /\ now <= due[e] /\ due[e] <= reply'[e].at + HTTPTimeout
               /\ cache[dev[e]] # None => cache[dev[e]].fact.ver <= reply'[e].ver
    <3>1. CASE e = c
      <4>1. reply'[e] = f
        BY <1>1, <3>1 DEF Types
      <4>2. now <= due[e] /\ due[e] <= now + HTTPTimeout
        BY <1>1, <3>1 DEF Requests
      <4>3. cache[d] # None => cache[d].fact.ver <= f.ver
        BY <1>2, <1>3 DEF Cached, Tellable
      <4> QED BY <1>3, <1>4, <3>1, <4>1, <4>2, <4>3
    <3>2. CASE e # c
      BY <1>1, <2>2, <3>2 DEF Requests, Types
    <3> QED BY <3>1, <3>2
  <2> QED BY <1>1, <2>1, <2>2 DEF Requests, Tellable
<1>9. Results'
  BY <1>1 DEF Results, Tellable, Types
<1> QED BY <1>5, <1>6, <1>7, <1>8, <1>9
(* The end of a fetch: the leader's result r, and the cache holds r, what  *)
(* it held before, or nothing on the device.                               *)
LEMMA FetchResult ==
    ASSUME IInv, NEW c \in Caller, FetchFails(c) \/ Fetched(c)
    PROVE  \E r \in Fact \cup {None} :
             /\ res' = [res EXCEPT ![c] = r]
             /\ \/ cache' = cache
                \/ cache' = [cache EXCEPT ![dev[c]] = None]
                \/ /\ cache' = [cache EXCEPT ![dev[c]] = [fact |-> r, putAt |-> now]]
                   /\ enabled /\ r # None /\ Usable(dev[c], r.doc) /\ now <= r.at + HTTPTimeout
             /\ r # None =>
                  /\ Tellable(dev[c], r) /\ Outcome(dev[c], r.doc) # Upstream
                  /\ now <= r.at + Bound
                  /\ cache'[dev[c]] # None => cache'[dev[c]].fact = r
<1> USE Basics DEF IInv
<1> DEFINE d == dev[c]
<1>1. pc[c] \in {"sent", "replied"}
  BY DEF FetchFails, Fetched
<1>2. d \in Device /\ cache \in [Device -> [fact : Fact, putAt : 0..MaxNow] \cup {None}]
  BY <1>1, AtWork DEF Types
<1>3. now \in Nat
  BY DEF Types
<1>4. CASE Degrade(c)
  <2>1. CASE cacheGetHard(d)
    <3>1. /\ cache[d] # None /\ now <= cache[d].putAt + 2 * TTL
          /\ cache[d] \in [fact : Fact, putAt : 0..MaxNow]
      BY <1>2, <2>1 DEF cacheGetHard, cacheGet
    <3>2. res' = [res EXCEPT ![c] = cache[d].fact] /\ cache' = cache
      BY <1>4, <2>1 DEF Degrade
    <3>3. /\ Tellable(d, cache[d].fact) /\ Usable(d, cache[d].fact.doc)
          /\ cache[d].putAt <= cache[d].fact.at + HTTPTimeout
      BY <1>2, <3>1 DEF Cached
    <3>4. cache[d].putAt \in Nat /\ cache[d].fact \in Fact /\ cache[d].fact.at \in Nat
      BY <3>1
    <3>5. now <= cache[d].fact.at + Bound
      BY <1>3, <3>1, <3>3, <3>4 DEF Bound
    <3> HIDE DEF d
    <3> USE <3>4
    <3> WITNESS cache[d].fact \in Fact \cup {None}
    <3> QED BY <3>2, <3>3, <3>5, Kinds DEF d
  <2>2. CASE ~cacheGetHard(d)
    <3>1. res' = [res EXCEPT ![c] = None] /\ cache' = [cache EXCEPT ![d] = None]
      BY <1>4, <2>2 DEF Degrade
    <3> WITNESS None \in Fact \cup {None}
    <3> QED BY <3>1
  <2> QED BY <2>1, <2>2
<1>5. CASE pc[c] = "replied" /\ res' = [res EXCEPT ![c] = reply[c]]
        /\ \/ Usable(d, reply[c].doc) /\ cachePut(d, reply[c])
           \/ Terminal(d, reply[c].doc) /\ cacheDelete(d)
  <2>1. /\ reply[c] \in Fact /\ reply[c] # None /\ Tellable(d, reply[c])
        /\ now <= due[c] /\ due[c] <= reply[c].at + HTTPTimeout
    BY <1>5 DEF Requests, Types
  <2>2. now <= reply[c].at + HTTPTimeout /\ now <= reply[c].at + Bound
    <3>1. due[c] \in Int /\ reply[c].at \in Nat
      BY <2>1 DEF Types
    <3> QED BY <1>3, <2>1, <3>1 DEF Bound
  <2>3. Outcome(d, reply[c].doc) # Upstream
    BY <1>5, Kinds
  <2>4. \/ cache' = cache /\ cache[d] = None
        \/ cache' = [cache EXCEPT ![d] = None]
        \/ cache' = [cache EXCEPT ![d] = [fact |-> reply[c], putAt |-> now]]
             /\ enabled /\ Usable(d, reply[c].doc)
    BY <1>2, <1>5 DEF cachePut, cacheDelete, Cached
  <2>5. cache'[d] # None => cache'[d].fact = reply[c]
    BY <1>2, <2>4
  <2> HIDE DEF d
  <2> USE <2>1
  <2> WITNESS reply[c] \in Fact \cup {None}
  <2> QED BY <1>5, <2>1, <2>2, <2>3, <2>4, <2>5 DEF d
<1> QED BY <1>4, <1>5 DEF FetchFails, Fetched

LEMMA FetchStep ==
    ASSUME IInv, NEW c \in Caller, FetchFails(c) \/ Fetched(c)
    PROVE  IInv'
<1> USE Basics DEF IInv
<1> DEFINE d == dev[c]
<1>1. /\ UNCHANGED <<enabled, flight, dev, now, tpm, log, seen, floor>>
      /\ pc[c] \in {"sent", "replied"} /\ pc' = [pc EXCEPT ![c] = "finish"]
      /\ due' = [due EXCEPT ![c] = 0] /\ reply' = [reply EXCEPT ![c] = None]
  BY DEF FetchFails, Fetched, world
<1>2. d \in Device
  BY <1>1, AtWork
<1>3. PICK r \in Fact \cup {None} :
        /\ res' = [res EXCEPT ![c] = r]
        /\ \/ cache' = cache
           \/ cache' = [cache EXCEPT ![d] = None]
           \/ /\ cache' = [cache EXCEPT ![d] = [fact |-> r, putAt |-> now]]
              /\ enabled /\ r # None /\ Usable(d, r.doc) /\ now <= r.at + HTTPTimeout
        /\ r # None =>
             /\ Tellable(d, r) /\ Outcome(d, r.doc) # Upstream
             /\ now <= r.at + Bound
             /\ cache'[d] # None => cache'[d].fact = r
  BY FetchResult
<1>4. /\ cache' \in [Device -> [fact : Fact, putAt : 0..MaxNow] \cup {None}]
      /\ \A x \in Device : x # d => cache'[x] = cache[x]
      /\ \/ cache'[d] \in {cache[d], None}
         \/ /\ cache'[d] = [fact |-> r, putAt |-> now]
            /\ enabled /\ r # None /\ Usable(d, r.doc) /\ now <= r.at + HTTPTimeout
  BY <1>2, <1>3 DEF Types
<1>5. \A e \in Caller : e # c /\ pc[e] \in Leading => dev[e] \in Device /\ dev[e] # d
  BY <1>1, OneLeader, AtWork DEF Leading
<1>6. /\ \A e \in Caller : e # c => pc'[e] = pc[e] /\ due'[e] = due[e]
                                    /\ reply'[e] = reply[e] /\ res'[e] = res[e]
      /\ pc'[c] = "finish" /\ res'[c] = r
  BY <1>1, <1>3 DEF Types
<1>7. Types'
  BY <1>1, <1>3, <1>4 DEF Types, Pc
<1>8. Calls'
  BY <1>1, <1>6 DEF Calls, Leading
<1>9. World'
  BY <1>1 DEF World
<1>10. Cached'
  <2> SUFFICES ASSUME NEW x \in Device, cache'[x] # None
               PROVE  /\ enabled /\ Tellable(x, cache'[x].fact)
                      /\ Usable(x, cache'[x].fact.doc)
                      /\ cache'[x].putAt <= cache'[x].fact.at + HTTPTimeout
                      /\ cache'[x].putAt <= now
    BY <1>1 DEF Cached, Tellable
  <2>1. CASE cache'[x] = cache[x]
    BY <2>1 DEF Cached
  <2>2. CASE x = d /\ cache'[d] = [fact |-> r, putAt |-> now]
            /\ enabled /\ r # None /\ Usable(d, r.doc) /\ now <= r.at + HTTPTimeout
    <3>1. Tellable(d, r) /\ now <= now
      BY <1>3, <2>2 DEF Types
    <3>2. cache'[x].fact = r /\ cache'[x].putAt = now
      BY <2>2
    <3> QED BY <2>2, <3>1, <3>2
  <2> QED BY <1>4, <2>1, <2>2
<1>11. Requests'
  <2>1. \A e \in Caller : pc'[e] \in {"sent", "replied"} =>
          /\ e # c /\ pc[e] = pc'[e] /\ cache'[dev[e]] = cache[dev[e]]
    BY <1>4, <1>5, <1>6 DEF Leading
  <2> QED BY <1>1, <1>6, <2>1 DEF Requests, Tellable
<1>12. Results'
  <2> SUFFICES ASSUME NEW e \in Caller, pc'[e] = "finish", res'[e] # None
               PROVE  /\ Tellable(dev[e], res'[e])
                      /\ Outcome(dev[e], res'[e].doc) # Upstream
                      /\ now <= res'[e].at + Bound
                      /\ cache'[dev[e]] # None => cache'[dev[e]].fact = res'[e]
    BY <1>1 DEF Results, Tellable
  <2>1. CASE e = c
    BY <1>3, <1>6, <2>1
  <2>2. CASE e # c
    <3>1. pc[e] = "finish" /\ res[e] # None /\ res'[e] = res[e] /\ cache'[dev[e]] = cache[dev[e]]
      BY <1>4, <1>5, <1>6, <2>2 DEF Leading
    <3> QED BY <3>1 DEF Results
  <2> QED BY <2>1, <2>2
<1> QED BY <1>7, <1>8, <1>9, <1>10, <1>11, <1>12

-----------------------------------------------------------------------------
(* Telling a set of callers a fact that may be told: the cached one, or    *)
(* the result of the flight that ends.                                     *)
LEMMA Told ==
    ASSUME IInv, NEW c \in Caller, SoftHit(c) \/ Finish(c)
    PROVE  \E S \in SUBSET Caller, f \in Fact \cup {None} :
             /\ c \in S /\ \A e \in S : pc[e] # "idle" /\ dev[e] = dev[c]
             /\ Deliver(S, dev[c], f)
             /\ \A e \in Caller : pc[e] \in Leading /\ dev[e] = dev[c] /\ flight'[dev[c]] # e => e \in S
             /\ \A e \in S : pc[e] \in Leading => e = c
             /\ f # None =>
                  /\ Tellable(dev[c], f) /\ Outcome(dev[c], f.doc) # Upstream
                  /\ now <= f.at + Bound
                  /\ cache[dev[c]] # None => cache[dev[c]].fact = f
                  /\ \A e \in Caller \ S : pc[e] = "replied" /\ dev[e] = dev[c] => f.ver <= reply[e].ver
                  /\ \A e \in Caller \ S : pc[e] = "finish" /\ dev[e] = dev[c] /\ res[e] # None => res[e] = f
<1> USE Basics DEF IInv
<1> DEFINE d == dev[c]
<1>1. d \in Device /\ now \in Nat
  BY AtWork DEF SoftHit, Finish, Types
<1>2. CASE SoftHit(c)
  <2>1. /\ cache[d] # None /\ now <= cache[d].putAt + TTL
        /\ cache[d] \in [fact : Fact, putAt : 0..MaxNow] /\ pc[c] = "soft"
        /\ flight' = flight
    BY <1>1, <1>2 DEF SoftHit, cacheGetSoft, cacheGet, Types
  <2>2. /\ Tellable(d, cache[d].fact) /\ Usable(d, cache[d].fact.doc)
        /\ cache[d].putAt <= cache[d].fact.at + HTTPTimeout
    BY <1>1, <2>1 DEF Cached
  <2>3. cache[d].putAt \in Nat /\ cache[d].fact \in Fact /\ cache[d].fact.at \in Nat
    BY <2>1
  <2>4. now <= cache[d].fact.at + Bound
    BY <1>1, <2>1, <2>2, <2>3 DEF Bound
  <2>5. \A e \in Caller : /\ pc[e] \in Leading /\ dev[e] = d => flight'[d] = e
                          /\ pc[e] = "replied" /\ dev[e] = d => cache[d].fact.ver <= reply[e].ver
                          /\ pc[e] = "finish" /\ dev[e] = d /\ res[e] # None => res[e] = cache[d].fact
    BY <2>1 DEF Calls, Requests, Results
  <2>6. Deliver({c}, d, cache[d].fact)
    BY <1>2 DEF SoftHit
  <2>7. Outcome(d, cache[d].fact.doc) # Upstream
    BY <2>2, Kinds
  <2> HIDE DEF d
  <2> USE <2>3
  <2> WITNESS {c} \in SUBSET Caller, cache[d].fact \in Fact \cup {None}
  <2> QED BY <2>1, <2>2, <2>3, <2>4, <2>5, <2>6, <2>7 DEF d, Leading
<1>3. CASE Finish(c)
  <2>1. /\ pc[c] = "finish" /\ Deliver(Woken(c), d, res[c]) /\ res[c] \in Fact \cup {None}
    BY <1>3 DEF Finish, Types
  <2>2. \A e \in Caller : pc[e] \in Leading /\ dev[e] = d => e = c
    BY <2>1, OneLeader DEF Leading
  <2>3. /\ Woken(c) \in SUBSET Caller /\ c \in Woken(c)
        /\ \A e \in Woken(c) : e = c \/ (pc[e] = "wait" /\ dev[e] = d)
    BY DEF Woken, Waiters
  <2>4. res[c] # None =>
          /\ Tellable(d, res[c]) /\ Outcome(d, res[c].doc) # Upstream
          /\ now <= res[c].at + Bound
          /\ cache[d] # None => cache[d].fact = res[c]
    BY <2>1 DEF Results
  <2> HIDE DEF d
  <2> USE <2>1, <2>3
  <2> WITNESS Woken(c) \in SUBSET Caller, res[c] \in Fact \cup {None}
  <2> QED BY <2>1, <2>2, <2>3, <2>4 DEF d, Leading
<1> QED BY <1>2, <1>3

LEMMA DeliverStep ==
    ASSUME IInv, NEW c \in Caller, SoftHit(c) \/ Finish(c)
    PROVE  IInv'
<1> USE Basics DEF IInv
<1> DEFINE d == dev[c]
<1> DEFINE After(x, g) == g \in log'[x] /\ seen'[x] <= g.ver /\ g.ver <= tpm'[x].ver
<1>1. /\ d \in Device /\ UNCHANGED <<enabled, cache, due, reply, now, tpm, log>>
      /\ flight' \in [Device -> Caller \cup {None}] /\ res' \in [Caller -> Fact \cup {None}]
      /\ \A x \in Device : x # d => flight'[x] = flight[x]
      /\ \A e \in Caller : e # c => res'[e] = res[e]
  BY AtWork DEF SoftHit, Finish, Types, world
<1>2. PICK S \in SUBSET Caller, f \in Fact \cup {None} :
        /\ c \in S /\ \A e \in S : pc[e] # "idle" /\ dev[e] = d
        /\ Deliver(S, d, f)
        /\ \A e \in Caller : pc[e] \in Leading /\ dev[e] = d /\ flight'[d] # e => e \in S
        /\ \A e \in S : pc[e] \in Leading => e = c
        /\ f # None =>
             /\ Tellable(d, f) /\ Outcome(d, f.doc) # Upstream
             /\ now <= f.at + Bound
             /\ cache[d] # None => cache[d].fact = f
             /\ \A e \in Caller \ S : pc[e] = "replied" /\ dev[e] = d => f.ver <= reply[e].ver
             /\ \A e \in Caller \ S : pc[e] = "finish" /\ dev[e] = d /\ res[e] # None => res[e] = f
  BY Told
<1>3. /\ pc' \in [Caller -> Pc] /\ dev' \in [Caller -> Device \cup {None}]
      /\ floor' \in [Caller -> 0..MaxVer]
      /\ \A e \in S : pc'[e] = "idle" /\ dev'[e] = None
      /\ \A e \in Caller \ S : pc'[e] = pc[e] /\ dev'[e] = dev[e] /\ floor'[e] = floor[e]
  BY <1>2 DEF Deliver, Types, Pc
<1>4. /\ seen' \in [Device -> 0..MaxVer]
      /\ \A x \in Device : x # d => seen'[x] = seen[x]
      /\ seen[d] <= seen'[d] /\ seen'[d] <= tpm[d].ver
      /\ f = None => seen'[d] = seen[d]
      /\ f # None => seen'[d] = f.ver
  <2>1. seen[d] \in 0..MaxVer /\ tpm[d].ver \in 0..MaxVer /\ seen[d] <= tpm[d].ver
    BY <1>1 DEF World, Types
  <2>2. seen \in [Device -> 0..MaxVer]
    BY DEF Types
  <2>3. CASE f # None /\ f.ver > seen[d]
    <3>1. seen' = [seen EXCEPT ![d] = f.ver] /\ f.ver \in 0..MaxVer /\ f.ver <= tpm[d].ver
      BY <1>2, <2>3 DEF Deliver, Tellable, Fact
    <3> QED BY <1>1, <2>1, <2>2, <2>3, <3>1
  <2>4. CASE ~(f # None /\ f.ver > seen[d])
    <3>1. seen' = seen
      BY <1>2, <2>4 DEF Deliver
    <3>2. f # None => f.ver \in Nat /\ seen[d] <= f.ver
      BY <1>2 DEF Tellable
    <3> QED BY <1>1, <2>1, <2>2, <2>4, <3>1, <3>2
  <2> QED BY <2>3, <2>4
<1>5. Types'
  BY <1>1, <1>3, <1>4 DEF Types
<1>6. Calls'
  <2>1. \A e \in Caller : pc'[e] = "idle" <=> dev'[e] = None
    BY <1>2, <1>3 DEF Calls
  <2>2. ASSUME NEW e \in Caller, pc'[e] \in Leading PROVE flight'[dev'[e]] = e
    <3>1. e \notin S /\ pc[e] = pc'[e] /\ dev'[e] = dev[e] /\ dev[e] \in Device
      BY <1>2, <1>3, <2>2, AtWork DEF Leading
    <3>2. CASE dev[e] = d
      BY <1>2, <2>2, <3>1, <3>2
    <3>3. CASE dev[e] # d
      BY <1>1, <2>2, <3>1, <3>3 DEF Calls
    <3> QED BY <3>2, <3>3
  <2>3. ASSUME NEW e \in Caller, dev'[e] # None PROVE floor'[e] <= seen'[dev'[e]]
    <3>1. e \notin S /\ dev'[e] = dev[e] /\ floor'[e] = floor[e]
      BY <1>3, <2>3
    <3>2. dev[e] \in Device /\ floor[e] <= seen[dev[e]] /\ floor[e] \in Int
          /\ seen[dev[e]] \in Int /\ seen'[dev[e]] \in Int
      BY <1>4, <2>3, <3>1 DEF Calls, Types
    <3> QED BY <1>4, <3>1, <3>2
  <2> QED BY <2>1, <2>2, <2>3 DEF Calls
<1>7. World'
  BY <1>1, <1>4 DEF World
<1>8. \A x \in Device, g \in Fact :
        Tellable(x, g) /\ (x = d /\ f # None => f.ver <= g.ver) => After(x, g)
  BY <1>1, <1>4 DEF Tellable
<1>9. Cached'
  <2> SUFFICES ASSUME NEW x \in Device, cache[x] # None
               PROVE  /\ enabled /\ After(x, cache[x].fact)
                      /\ Usable(x, cache[x].fact.doc)
                      /\ cache[x].putAt <= cache[x].fact.at + HTTPTimeout
                      /\ cache[x].putAt <= now
    BY <1>1 DEF Cached, Tellable
  <2>1. cache[x].fact \in Fact /\ cache[x].fact.ver <= cache[x].fact.ver
    BY DEF Types
  <2>2. x = d /\ f # None => cache[x].fact = f
    BY <1>2
  <2>3. After(x, cache[x].fact)
    BY <1>8, <2>1, <2>2 DEF Cached
  <2> QED BY <2>3 DEF Cached
<1>10. Requests'
  <2>1. ASSUME NEW e \in Caller, pc'[e] = "sent"
        PROVE  now' <= due'[e] /\ due'[e] <= now' + HTTPTimeout
    BY <1>1, <1>3, <2>1 DEF Requests
  <2>2. ASSUME NEW e \in Caller, pc'[e] = "replied"
        PROVE  /\ reply[e] # None /\ After(dev'[e], reply[e])
               /\ now <= due[e] /\ due[e] <= reply[e].at + HTTPTimeout
               /\ cache[dev'[e]] # None => cache[dev'[e]].fact.ver <= reply[e].ver
    <3>1. e \notin S /\ pc[e] = "replied" /\ dev'[e] = dev[e] /\ dev[e] \in Device
      BY <1>3, <2>2, AtWork
    <3>2. /\ reply[e] # None /\ Tellable(dev[e], reply[e]) /\ reply[e] \in Fact
          /\ now <= due[e] /\ due[e] <= reply[e].at + HTTPTimeout
          /\ cache[dev[e]] # None => cache[dev[e]].fact.ver <= reply[e].ver
      BY <3>1 DEF Requests, Types
    <3>3. dev[e] = d /\ f # None => f.ver <= reply[e].ver
      BY <1>2, <3>1
    <3>4. After(dev[e], reply[e])
      BY <1>8, <3>1, <3>2, <3>3
    <3> QED BY <3>1, <3>2, <3>4 DEF Tellable
  <2> QED BY <1>1, <2>1, <2>2 DEF Requests, Tellable
<1>11. Results'
  <2>1. ASSUME NEW e \in Caller, pc'[e] = "finish", res'[e] # None
        PROVE  /\ After(dev'[e], res'[e])
               /\ Outcome(dev'[e], res'[e].doc) # Upstream
               /\ now <= res'[e].at + Bound
               /\ cache[dev'[e]] # None => cache[dev'[e]].fact = res'[e]
    <3>1. e \notin S /\ pc[e] = "finish" /\ dev'[e] = dev[e] /\ dev[e] \in Device
          /\ res'[e] = res[e]
      BY <1>1, <1>2, <1>3, <2>1, AtWork
    <3>2. /\ Tellable(dev[e], res[e]) /\ res[e] \in Fact
          /\ Outcome(dev[e], res[e].doc) # Upstream
          /\ now <= res[e].at + Bound
          /\ cache[dev[e]] # None => cache[dev[e]].fact = res[e]
      BY <2>1, <3>1 DEF Results, Types
    <3>3. dev[e] = d /\ f # None => f.ver <= res[e].ver
      <4>1. dev[e] = d /\ f # None => res[e] = f /\ res[e].ver \in Nat
        BY <1>2, <2>1, <3>1, <3>2
      <4> QED BY <4>1
    <3>4. After(dev[e], res[e])
      BY <1>8, <3>1, <3>2, <3>3
    <3> QED BY <3>1, <3>2, <3>4 DEF Tellable
  <2> QED BY <1>1, <2>1 DEF Results, Tellable
<1> QED BY <1>5, <1>6, <1>7, <1>9, <1>10, <1>11

-----------------------------------------------------------------------------
(* The world's own steps: facts stay in the log.                           *)
LEMMA ChangeStep ==
    ASSUME IInv, NEW d \in Device, NEW doc \in Doc, Change(d, doc)
    PROVE  IInv'
<1> USE Basics DEF IInv
<1> DEFINE After(x, g) == g \in log'[x] /\ seen'[x] <= g.ver /\ g.ver <= tpm'[x].ver
<1> DEFINE new == [ver |-> tpm[d].ver + 1, doc |-> doc, at |-> now]
<1>1. /\ UNCHANGED <<enabled, cache, flight, pc, dev, due, reply, res, now, seen, floor>>
      /\ tpm' = [tpm EXCEPT ![d] = [ver |-> tpm[d].ver + 1, doc |-> doc]]
      /\ log' = [log EXCEPT ![d] = log[d] \cup {new}]
      /\ tpm[d].ver < MaxVer
  BY DEF Change, local
<1>2. tpm[d].ver \in Nat /\ tpm[d].ver + 1 \in 0..MaxVer /\ new \in Fact
  BY <1>1 DEF Types, Fact
<1>3. Types'
  BY <1>1, <1>2 DEF Types
<1>4. \A x \in Device : /\ log[x] \subseteq log'[x] /\ tpm[x].ver <= tpm'[x].ver
                        /\ tpm[x].ver \in Nat /\ tpm'[x].ver \in Nat
  BY <1>1, <1>2 DEF Types
<1>5. \A x \in Device, g \in Fact : Tellable(x, g) => After(x, g)
  BY <1>1, <1>4 DEF Tellable
<1>6. Calls'
  BY <1>1 DEF Calls
<1>7. World'
  <2> SUFFICES ASSUME NEW x \in Device
               PROVE  /\ [ver |-> tpm'[x].ver, doc |-> tpm'[x].doc, at |-> now] \in log'[x]
                      /\ seen[x] <= tpm'[x].ver
    BY <1>1 DEF World
  <2>1. seen[x] <= tpm'[x].ver
    <3>1. seen[x] \in Int
      BY DEF Types
    <3>2. seen[x] <= tpm[x].ver
      BY DEF World
    <3> QED BY <1>4, <3>1, <3>2
  <2>2. CASE x = d
    <3>1. tpm'[x].ver = tpm[d].ver + 1 /\ tpm'[x].doc = doc /\ new \in log'[x]
      BY <1>1, <2>2 DEF Types
    <3> QED BY <2>1, <3>1
  <2>3. CASE x # d
    BY <1>1, <2>1, <2>3 DEF World, Types
  <2> QED BY <2>2, <2>3
<1>8. Cached'
  <2>1. \A x \in Device : cache[x] # None => After(x, cache[x].fact)
    BY <1>5 DEF Cached, Types
  <2> QED BY <1>1, <2>1 DEF Cached, Tellable
<1>9. Requests'
  <2>1. \A e \in Caller : pc[e] = "replied" => After(dev[e], reply[e])
    BY <1>5, AtWork DEF Requests, Types
  <2> QED BY <1>1, <2>1 DEF Requests, Tellable
<1>10. Results'
  <2>1. \A e \in Caller : pc[e] = "finish" /\ res[e] # None => After(dev[e], res[e])
    BY <1>5, AtWork DEF Results, Types
  <2> QED BY <1>1, <2>1 DEF Results, Tellable
<1> QED BY <1>3, <1>6, <1>7, <1>8, <1>9, <1>10

LEMMA TickStep == IInv /\ Tick => IInv'
<1> SUFFICES ASSUME IInv, Tick PROVE IInv'
  OBVIOUS
<1> USE Basics DEF IInv
<1> DEFINE After(x, g) == g \in log'[x] /\ seen'[x] <= g.ver /\ g.ver <= tpm'[x].ver
<1>1. /\ UNCHANGED <<enabled, cache, flight, pc, dev, due, reply, res, tpm, seen, floor>>
      /\ now' = now + 1 /\ now < MaxNow
      /\ log' = [d \in Device |->
           log[d] \cup {[ver |-> tpm[d].ver, doc |-> tpm[d].doc, at |-> now + 1]}]
      /\ \A c \in Caller :
           \/ pc[c] \in {"idle", "wait"}
           \/ pc[c] \in {"sent", "replied"} /\ now < due[c]
  BY DEF Tick, local
<1>2. now \in Nat /\ now' \in 0..MaxNow
  BY <1>1 DEF Types
<1>3. \A x \in Device : [ver |-> tpm[x].ver, doc |-> tpm[x].doc, at |-> now + 1] \in Fact
  BY <1>1, <1>2 DEF Types, Fact
<1>4. log' \in [Device -> SUBSET Fact]
  BY <1>1, <1>3 DEF Types
<1>5. Types'
  BY <1>1, <1>2, <1>4 DEF Types
<1>6. \A x \in Device, g \in Fact : Tellable(x, g) => After(x, g)
  BY <1>1 DEF Tellable
<1>7. Calls' /\ World'
  BY <1>1 DEF Calls, World
<1>8. Cached'
  <2>1. \A x \in Device : cache[x] # None => After(x, cache[x].fact)
    BY <1>6 DEF Cached, Types
  <2>2. \A x \in Device : cache[x] # None => cache[x].putAt <= now'
    BY <1>1, <1>2 DEF Cached, Types
  <2> QED BY <1>1, <2>1, <2>2 DEF Cached, Tellable
<1>9. Requests'
  <2>1. ASSUME NEW e \in Caller, pc[e] \in {"sent", "replied"}
        PROVE  now' <= due[e]
    BY <1>1, <1>2, <2>1 DEF Types
  <2>2. ASSUME NEW e \in Caller, pc[e] = "sent"
        PROVE  due[e] <= now' + HTTPTimeout
    BY <1>1, <1>2, <2>2 DEF Types, Requests
  <2>3. \A e \in Caller : pc[e] = "replied" => After(dev[e], reply[e])
    BY <1>6, AtWork DEF Requests, Types
  <2> QED BY <1>1, <2>1, <2>2, <2>3 DEF Requests, Tellable
<1>10. Results'
  BY <1>1 DEF Results
<1> QED BY <1>5, <1>7, <1>8, <1>9, <1>10

LEMMA StutterStep == IInv /\ UNCHANGED vars => IInv'
<1> SUFFICES ASSUME IInv, UNCHANGED vars PROVE IInv'
  OBVIOUS
<1> USE DEF IInv, vars, local, world
<1>1. Types' /\ Calls'
  BY DEF Types, Calls
<1>2. World' /\ Cached'
  BY DEF World, Cached, Tellable
<1>3. Requests' /\ Results'
  BY DEF Requests, Results, Tellable
<1> QED BY <1>1, <1>2, <1>3

LEMMA Invariance == Spec => []IInv
<1>1. IInv /\ [Next]_vars => IInv'
  <2> SUFFICES ASSUME IInv, [Next]_vars PROVE IInv'
    OBVIOUS
  <2>1. ASSUME NEW c \in Caller, Step(c) PROVE IInv'
    BY <2>1, QuietStep, LeadStep, FetchStep, DeliverStep DEF Step
  <2> QED BY <2>1, ReadStep, QuietStep, ChangeStep, TickStep, StutterStep DEF Next
<1> QED BY <1>1, InitIInv, PTL DEF Spec

(* What fetch makes of a document: an Identity of two pool addresses, or   *)
(* one of the three errors.                                                *)
Answer == Identity \cup {DeviceNotFound, NoTunnel, Upstream}

LEMMA OutcomeType ==
    ASSUME NEW d \in Device, NEW doc \in Doc
    PROVE  Outcome(d, doc) \in Answer
<1>1. doc \in DocType /\ PoolHost \subseteq Prefix /\ None \notin Prefix
  BY ResolverTypes
<1> DEFINE v6 == Or(doc.ocserv, doc.native)
<1> DEFINE clat == Or(doc.explicit, doc.clat)
<1>2. v6 \in Prefix \cup {None} /\ Or(doc.id, d) \in Device /\ doc.dtlsOff \in BOOLEAN
      /\ doc.status \in {200, 404, 500}
  BY <1>1 DEF Or, DocType
<1>3. CASE doc.status # 200
  BY <1>2, <1>3 DEF Outcome, Answer
<1>4. CASE doc.status = 200 /\ (v6 \notin PoolHost \/ clat \notin PoolHost)
  BY <1>1, <1>2, <1>4 DEF Outcome, Answer
<1>5. CASE doc.status = 200 /\ v6 \in PoolHost /\ clat \in PoolHost
  <2>1. Outcome(d, doc) = [err |-> "nil", id |-> Or(doc.id, d), v6 |-> v6, clat |-> clat,
                           dtlsOff |-> doc.dtlsOff]
    BY <1>1, <1>5 DEF Outcome
  <2> QED BY <1>2, <1>5, <2>1 DEF Answer, Identity
<1> QED BY <1>3, <1>4, <1>5

(* What a caller was told, and when TPM last answered.                     *)
Heard ==
    /\ got \in [Caller -> Answer \cup {None}]
    /\ okAt \in [Device -> 0..MaxNow \cup {None}]

LEMMA HeardStep == IInv /\ Heard /\ [Next]_vars => Heard'
<1> SUFFICES ASSUME IInv, Heard, [Next]_vars PROVE Heard'
  OBVIOUS
<1> USE DEF Heard
<1>1. ASSUME UNCHANGED <<got, okAt>> PROVE Heard'
  BY <1>1
<1>2. ASSUME NEW c \in Caller, NEW d \in Device, Call(c, d) PROVE Heard'
  BY <1>2 DEF Call
<1>3. ASSUME NEW c \in Caller, SoftHit(c) \/ Finish(c) PROVE Heard'
  <2>1. PICK S \in SUBSET Caller, f \in Fact \cup {None} : Deliver(S, dev[c], f)
    BY <1>3, Told
  <2>2. dev[c] \in Device
    BY <1>3, AtWork DEF SoftHit, Finish
  <2>3. f # None => Outcome(dev[c], f.doc) \in Answer
    BY <2>2, OutcomeType DEF Fact
  <2>4. got' \in [Caller -> Answer \cup {None}]
    BY <2>1, <2>3 DEF Deliver, Answer
  <2>5. okAt' = okAt
    BY <1>3 DEF SoftHit, Finish
  <2> QED BY <2>4, <2>5
<1>4. ASSUME NEW c \in Caller, FetchFails(c) \/ Fetched(c) PROVE Heard'
  <2>1. got' = got
    BY <1>4 DEF FetchFails, Fetched
  <2>2. now \in 0..MaxNow
    BY DEF IInv, Types
  <2>3. okAt' \in [Device -> 0..MaxNow \cup {None}]
    BY <1>4, <2>2 DEF FetchFails, Fetched, Degrade
  <2> QED BY <2>1, <2>3
<1>5. ASSUME NEW c \in Caller, SoftMiss(c) \/ Join(c) \/ Lead(c) \/ TPMReads(c) PROVE Heard'
  BY <1>1, <1>5 DEF SoftMiss, Join, Lead, TPMReads
<1>6. ASSUME NEW d \in Device, NEW doc \in Doc, Change(d, doc) PROVE Heard'
  BY <1>1, <1>6 DEF Change
<1>7. ASSUME Tick \/ UNCHANGED vars PROVE Heard'
  BY <1>1, <1>7 DEF Tick, vars
<1> QED BY <1>2, <1>3, <1>4, <1>5, <1>6, <1>7 DEF Next, Step

(* Resolve fails closed and fetches once: an Identity always holds two     *)
(* /128s of the pool, and at most one request is open for a device         *)
(* (singleflight), for every number of callers.                            *)
THEOREM ResolverTypeOK == Spec => []TypeOK
<1>1. Init => Heard
  BY ResolverTypes DEF Init, Heard
<1>2. IInv => OneFetch
  BY OneLeader DEF OneFetch, Leading
<1>3. IInv /\ Heard => TypeOK
  BY <1>2 DEF IInv, Types, Heard, Answer, TypeOK
<1> QED BY <1>1, <1>3, HeardStep, Invariance, PTL DEF Spec

-----------------------------------------------------------------------------
(* Every step of the resolver is a step of the abstract look-up, or a      *)
(* stutter.                                                                *)
LEMMA StepMaps ==
    ASSUME IInv, NEW c \in Caller, Step(c) \/ TPMReads(c)
    PROVE  [Lookup!Next]_Lookup!vars
<1> USE Basics DEF IInv
<1>1. CASE SoftMiss(c) \/ Join(c) \/ Lead(c) \/ FetchFails(c) \/ Fetched(c) \/ TPMReads(c)
  BY <1>1 DEF SoftMiss, Join, Lead, FetchFails, Fetched, TPMReads, world, Lookup!vars
<1>2. CASE SoftHit(c) \/ Finish(c)
  <2> DEFINE d == dev[c]
  <2>1. UNCHANGED <<now, tpm, log>> /\ d \in Device
    BY <1>2, AtWork DEF SoftHit, Finish, world
  <2>2. PICK S \in SUBSET Caller, f \in Fact \cup {None} :
          /\ c \in S /\ \A e \in S : pc[e] # "idle" /\ dev[e] = d
          /\ Deliver(S, d, f)
          /\ f # None =>
               /\ Tellable(d, f) /\ Outcome(d, f.doc) # Upstream
               /\ now <= f.at + Bound
    BY <1>2, Told
  <2>3. CASE f = None
    <3>1. Lookup!TellError(S, d)
      BY <2>1, <2>2, <2>3 DEF Deliver, Lookup!TellError, Lookup!Tell
    <3> QED BY <2>1, <3>1 DEF Lookup!Next
  <2>4. CASE f # None
    <3>1. f \in log[d] /\ f.at \in Nat /\ f.ver \in Nat /\ now \in Nat /\ seen[d] <= f.ver
      BY <2>2, <2>4 DEF Tellable, Types
    <3>2. f.at >= now - (2 * TTL + HTTPTimeout)
      BY <2>2, <2>4, <3>1 DEF Bound
    <3>3. \A e \in S : floor[e] <= f.ver
      <4>1. ASSUME NEW e \in S PROVE floor[e] <= f.ver
        <5>1. floor[e] <= seen[d] /\ floor[e] \in Nat /\ seen[d] \in Nat
          BY <2>1, <2>2, AtWork DEF Types
        <5> QED BY <3>1, <5>1
      <4> QED BY <4>1
    <3>4. Lookup!Tell(S, d, Outcome(d, f.doc))
      BY <2>1, <2>2, <2>4 DEF Deliver, Lookup!Tell
    <3>5. seen' = [seen EXCEPT ![d] = IF f.ver > @ THEN f.ver ELSE @]
      <4>1. seen \in [Device -> 0..MaxVer]
        BY DEF Types
      <4> QED BY <2>1, <2>2, <2>4, <4>1 DEF Deliver
    <3>6. Lookup!TellFact(S, d, f)
      BY <2>2, <2>4, <3>2, <3>3, <3>4, <3>5 DEF Lookup!TellFact
    <3> QED BY <2>1, <3>1, <3>6 DEF Lookup!Next
  <2> QED BY <2>3, <2>4
<1> QED BY <1>1, <1>2 DEF Step

(* TPMResolver.Resolve keeps its promise for every number of callers and   *)
(* devices and every TTL and timeout: an error, or a fact of TPM's no      *)
(* older than the hard lifetime and one request, never older than an       *)
(* answer given before the call.                                           *)
THEOREM ResolverImplementsLookup == Spec => LookupSpec
<1>1. Init => Lookup!Init
  BY DEF Init, Lookup!Init
<1>2. IInv /\ [Next]_vars => [Lookup!Next]_Lookup!vars
  <2> SUFFICES ASSUME IInv, [Next]_vars PROVE [Lookup!Next]_Lookup!vars
    OBVIOUS
  <2>1. ASSUME NEW c \in Caller, NEW d \in Device, Call(c, d)
        PROVE  Lookup!Next
    <3>1. Lookup!Call(c, d)
      BY <2>1 DEF Call, Lookup!Call, world, IInv, Calls
    <3> QED BY <3>1 DEF Lookup!Next
  <2>2. ASSUME NEW d \in Device, NEW doc \in Doc, Change(d, doc)
        PROVE  Lookup!Next
    <3>1. Lookup!Change(d, doc)
      BY <2>2 DEF Change, Lookup!Change, local
    <3> QED BY <3>1 DEF Lookup!Next
  <2>3. CASE Tick
    <3>1. Lookup!Tick
      BY <2>3 DEF Tick, Lookup!Tick, local
    <3> QED BY <3>1 DEF Lookup!Next
  <2>4. CASE UNCHANGED vars
    BY <2>4 DEF vars, local, world, Lookup!vars
  <2> QED BY <2>1, <2>2, <2>3, <2>4, StepMaps DEF Next
<1> QED BY <1>1, <1>2, Invariance, PTL DEF Spec, LookupSpec, Lookup!Spec

-----------------------------------------------------------------------------
(* The history of usable answers.  With the cache on, the entry of a       *)
(* device was put when TPM last gave a usable answer, or that is longer    *)
(* ago than the hard lifetime; and a leader that is about to report an     *)
(* error found nothing hard-fresh.                                         *)
Past(d) == now > okAt[d] + 2 * TTL

Remembered ==
    \A d \in Device : enabled /\ okAt[d] # None =>
        IF cache[d] = None THEN Past(d) ELSE cache[d].putAt = okAt[d]

NothingLeft ==
    \A c \in Caller : pc[c] = "finish" /\ res[c] = None /\ enabled /\ okAt[dev[c]] # None =>
        Past(dev[c])

Absorb == Heard /\ Remembered /\ NothingLeft

(* Degrading leaves both: what cacheGetHard drops had expired.             *)
LEMMA DegradeAbsorbs ==
    ASSUME IInv, Absorb, NEW c \in Caller, pc[c] \in {"sent", "replied"}, Degrade(c),
           pc' = [pc EXCEPT ![c] = "finish"], UNCHANGED <<enabled, dev, now>>
    PROVE  Remembered' /\ NothingLeft'
<1> USE Basics DEF IInv, Absorb, Heard
<1> DEFINE d == dev[c]
<1>1. /\ d \in Device /\ okAt' = okAt /\ now \in Nat
      /\ \A x \in Device : /\ okAt[x] # None => okAt[x] \in Nat
                           /\ cache[x] # None => cache[x].putAt \in Nat
  BY AtWork DEF Degrade, Types
<1>2. ~cacheGetHard(d) /\ enabled /\ okAt[d] # None => Past(d)
  BY <1>1 DEF cacheGetHard, cacheGet, Remembered, Past
<1>3. \A x \in Device : cache'[x] = IF x = d /\ ~cacheGetHard(d) THEN None ELSE cache[x]
  BY <1>1 DEF Degrade, Types
<1>4. Remembered'
  BY <1>1, <1>2, <1>3 DEF Remembered, Past
<1>5. res'[c] = None => ~cacheGetHard(d)
  <2>1. cacheGetHard(d) => cache[d] # None
    BY DEF cacheGetHard, cacheGet
  <2>2. cacheGetHard(d) => cache[d].fact # None
    BY <1>1, <2>1 DEF Types
  <2> QED BY <2>2 DEF Degrade, Types
<1>6. \A e \in Caller : e # c => pc'[e] = pc[e] /\ res'[e] = res[e]
  BY DEF Degrade, Types
<1>7. NothingLeft'
  BY <1>1, <1>2, <1>5, <1>6 DEF NothingLeft, Past
<1> QED BY <1>4, <1>7

LEMMA FetchedAbsorbs ==
    ASSUME IInv, Absorb, NEW c \in Caller, Fetched(c)
    PROVE  Remembered' /\ NothingLeft'
<1> USE Basics DEF IInv, Absorb, Heard
<1> DEFINE d == dev[c]
           f == reply[c]
<1>1. /\ d \in Device /\ now \in Nat /\ pc[c] = "replied" /\ f # None
      /\ pc' = [pc EXCEPT ![c] = "finish"] /\ UNCHANGED <<enabled, dev, now>>
  BY AtWork DEF Fetched, world, Requests, Types
<1>2. CASE Outcome(d, f.doc).err = "ErrUpstream" /\ Degrade(c)
  BY <1>1, <1>2, DegradeAbsorbs
<1>3. ASSUME res' = [res EXCEPT ![c] = f], \A e \in Caller : dev[e] = d /\ pc[e] = "finish" => FALSE,
             \A x \in Device : x # d => okAt'[x] = okAt[x]
      PROVE  NothingLeft'
  <2> SUFFICES ASSUME NEW e \in Caller, pc'[e] = "finish", res'[e] = None, enabled',
                      okAt'[dev'[e]] # None
               PROVE  now' > okAt'[dev'[e]] + 2 * TTL
    BY DEF NothingLeft, Past
  <2>1. e # c
    BY <1>1, <1>3 DEF Types
  <2>2. pc[e] = "finish" /\ res[e] = None
    BY <1>1, <1>3, <2>1 DEF Types
  <2>3. dev[e] \in Device /\ dev[e] # d
    BY <1>3, <2>2, AtWork
  <2> QED BY <1>1, <1>3, <2>2, <2>3 DEF NothingLeft, Past
<1>4. \A e \in Caller : dev[e] = d /\ pc[e] = "finish" => FALSE
  BY <1>1, OneLeader DEF Leading
<1>5. CASE Usable(d, f.doc) /\ cachePut(d, f) /\ res' = [res EXCEPT ![c] = f]
           /\ okAt' = [okAt EXCEPT ![d] = now]
  <2>1. \A x \in Device : okAt'[x] = IF x = d THEN now ELSE okAt[x]
    BY <1>5
  <2>2. enabled => \A x \in Device : cache'[x] = IF x = d THEN [fact |-> f, putAt |-> now] ELSE cache[x]
    BY <1>5 DEF cachePut, Types
  <2>3. [fact |-> f, putAt |-> now] # None
    <3>1. f \in Fact /\ now \in 0..MaxNow
      BY <1>1 DEF Types
    <3> QED BY <3>1
  <2>4. Remembered'
    BY <1>1, <2>1, <2>2, <2>3 DEF Remembered, Past
  <2> QED BY <1>3, <1>4, <1>5, <2>1, <2>4
<1>6. CASE Terminal(d, f.doc) /\ cacheDelete(d) /\ res' = [res EXCEPT ![c] = f]
           /\ okAt' = [okAt EXCEPT ![d] = None]
  <2>1. \A x \in Device : okAt'[x] = IF x = d THEN None ELSE okAt[x]
    BY <1>6
  <2>2. \A x \in Device : x # d => cache'[x] = cache[x]
    BY <1>6 DEF cacheDelete, Types
  <2>3. Remembered'
    BY <1>1, <2>1, <2>2 DEF Remembered, Past
  <2> QED BY <1>3, <1>4, <1>6, <2>1, <2>3
<1> QED BY <1>2, <1>5, <1>6 DEF Fetched

(* Every other step changes neither the cache nor the history, and makes   *)
(* no leader report an error.                                              *)
LEMMA AbsorbStep == IInv /\ Absorb /\ [Next]_vars => Absorb'
<1> SUFFICES ASSUME IInv, Absorb, [Next]_vars PROVE Absorb'
  OBVIOUS
<1>1. Heard'
  BY HeardStep DEF Absorb
<1> SUFFICES Remembered' /\ NothingLeft'
  BY <1>1 DEF Absorb
<1> USE Basics DEF IInv, Absorb, Heard
<1>2. now \in Nat /\ \A d \in Device : okAt[d] # None => okAt[d] \in Nat
  BY DEF Types
<1>3. ASSUME UNCHANGED <<enabled, cache, okAt>>, now' \in {now, now + 1},
             \A e \in Caller : pc'[e] = "finish" /\ res'[e] = None =>
                pc[e] = "finish" /\ res[e] = None /\ dev'[e] = dev[e]
      PROVE  Remembered' /\ NothingLeft'
  <2>1. \A d \in Device : Past(d) /\ okAt[d] # None => now' > okAt'[d] + 2 * TTL
    BY <1>2, <1>3 DEF Past
  <2>2. Remembered'
    BY <1>3, <2>1 DEF Remembered, Past
  <2>3. NothingLeft'
    BY <1>3, <2>1, AtWork DEF NothingLeft, Past
  <2> QED BY <2>2, <2>3
<1>4. ASSUME NEW c \in Caller, SoftMiss(c) \/ Join(c) \/ TPMReads(c) \/ \E d \in Device : Call(c, d)
      PROVE  Remembered' /\ NothingLeft'
  <2>1. UNCHANGED <<enabled, cache, okAt, now, res>>
    BY <1>4 DEF SoftMiss, Join, TPMReads, Call, world
  <2>2. \A e \in Caller : pc'[e] = "finish" => pc[e] = "finish" /\ dev'[e] = dev[e]
    BY <1>4 DEF SoftMiss, Join, TPMReads, Call, Types
  <2> QED BY <1>3, <2>1, <2>2
<1>5. ASSUME NEW c \in Caller, Lead(c) PROVE Remembered' /\ NothingLeft'
  <2>1. UNCHANGED <<enabled, cache, okAt, now, dev>> /\ dev[c] \in Device
    BY <1>5, AtWork DEF Lead, world
  <2>2. \A e \in Caller : e # c => pc'[e] = pc[e] /\ res'[e] = res[e]
    BY <1>5 DEF Lead, Types
  <2>3. pc'[c] = "finish" => res'[c] # None
    <3>1. cacheGetSoft(dev[c]) => cache[dev[c]] # None
      BY DEF cacheGetSoft, cacheGet
    <3>2. cacheGetSoft(dev[c]) => cache[dev[c]].fact # None
      BY <2>1, <3>1 DEF Types
    <3> QED BY <1>5, <3>2 DEF Lead, Types
  <2> QED BY <1>3, <2>1, <2>2, <2>3
<1>6. ASSUME NEW c \in Caller, FetchFails(c) PROVE Remembered' /\ NothingLeft'
  BY <1>6, DegradeAbsorbs DEF FetchFails, world
<1>7. ASSUME NEW c \in Caller, SoftHit(c) \/ Finish(c) PROVE Remembered' /\ NothingLeft'
  <2>1. UNCHANGED <<enabled, cache, okAt, now>>
    BY <1>7 DEF SoftHit, Finish, world
  <2>2. PICK S \in SUBSET Caller, f \in Fact \cup {None} : c \in S /\ Deliver(S, dev[c], f)
    BY <1>7, Told
  <2>3. \A e \in Caller : pc'[e] = "finish" => pc[e] = "finish" /\ dev'[e] = dev[e] /\ e # c
    BY <2>2 DEF Deliver
  <2>4. \A e \in Caller : e # c => res'[e] = res[e]
    BY <1>7 DEF SoftHit, Finish, Types
  <2> QED BY <1>3, <2>1, <2>3, <2>4
<1>8. ASSUME NEW d \in Device, NEW doc \in Doc, Change(d, doc) PROVE Remembered' /\ NothingLeft'
  BY <1>3, <1>8 DEF Change, local
<1>9. ASSUME Tick \/ UNCHANGED vars PROVE Remembered' /\ NothingLeft'
  BY <1>3, <1>9 DEF Tick, vars, local, world
<1> QED BY <1>4, <1>5, <1>6, <1>7, <1>8, <1>9, FetchedAbsorbs DEF Next, Step

(* "On a fetch failure, if a hard-not-expired cached entry exists serve    *)
(* it": for every number of callers and every TTL, no call fails upstream  *)
(* while the last answer TPM gave on its device was usable and is not      *)
(* older than twice the TTL, whichever leader's fetch it waited for.       *)
THEOREM ResolverAbsorbsFlaps == Spec => FlapAbsorbed
<1> DEFINE Fails(c) == pc[c] # "idle" /\ pc'[c] = "idle" /\ got'[c].err = "ErrUpstream"
           Fresh(c) == enabled /\ okAt[dev[c]] # None /\ now <= okAt[dev[c]] + 2 * TTL
<1>1. Init => Absorb
  BY ResolverTypes DEF Init, Absorb, Heard, Remembered, NothingLeft
<1>2. IInv /\ Absorb /\ [Next]_vars => [\A c \in Caller : Fails(c) => ~Fresh(c)]_vars
  <2> SUFFICES ASSUME IInv, Absorb, Next, NEW e \in Caller, Fails(e) PROVE ~Fresh(e)
    OBVIOUS
  <2> USE Basics DEF IInv
  <2>1. PICK c \in Caller : SoftHit(c) \/ Finish(c)
    <3>1. ASSUME NEW c \in Caller, FetchFails(c) \/ Fetched(c) \/ Lead(c) \/ TPMReads(c)
          PROVE  FALSE
      BY <3>1 DEF FetchFails, Fetched, Lead, TPMReads, Types
    <3>2. ASSUME NEW c \in Caller, SoftMiss(c) \/ Join(c) \/ \E d \in Device : Call(c, d)
          PROVE  FALSE
      BY <3>2 DEF SoftMiss, Join, Call, Types
    <3>3. ASSUME Tick \/ \E d \in Device, doc \in Doc : Change(d, doc) PROVE FALSE
      BY <3>3 DEF Tick, Change, local
    <3> QED BY <3>1, <3>2, <3>3 DEF Next, Step
  <2> DEFINE d == dev[c]
  <2>2. d \in Device
    BY <2>1, AtWork DEF SoftHit, Finish
  <2>3. ASSUME NEW f \in Fact, Outcome(d, f.doc) # Upstream
        PROVE  Outcome(d, f.doc).err # "ErrUpstream"
    <3>1. Outcome(d, f.doc) \in Answer
      BY <2>2, OutcomeType DEF Fact
    <3> QED BY <2>3, <3>1 DEF Answer, Identity, DeviceNotFound, NoTunnel
  <2>4. PICK S \in SUBSET Caller, f \in Fact \cup {None} :
          /\ \A x \in S : dev[x] = d
          /\ Deliver(S, d, f)
          /\ f # None => Outcome(d, f.doc) # Upstream
    BY <2>1, Told
  <2>5. e \in S /\ dev[e] = d /\ f = None
    <3>1. e \in S
      BY <2>4 DEF Deliver
    <3>2. f # None => got'[e] = Outcome(d, f.doc)
      BY <2>4, <3>1 DEF Deliver
    <3> QED BY <2>3, <2>4, <3>1, <3>2
  <2>6. CASE SoftHit(c)
    <3>1. cache[d] # None /\ cache[d].fact # None /\ Usable(d, cache[d].fact.doc)
      BY <2>2, <2>6 DEF SoftHit, cacheGetSoft, cacheGet, Cached, Types
    <3>2. e = c /\ got'[e] = Outcome(d, cache[d].fact.doc)
      BY <2>6, <3>1 DEF SoftHit, Deliver
    <3> QED BY <3>1, <3>2 DEF Usable
  <2>7. CASE Finish(c)
    <3>1. pc[c] = "finish" /\ Deliver(Woken(c), d, res[c])
      BY <2>7 DEF Finish
    <3>2. res[c] = None
      <4>1. got'[e] = IF res[c] = None THEN Upstream ELSE Outcome(d, res[c].doc)
        BY <3>1 DEF Deliver
      <4>2. res[c] # None => res[c] \in Fact /\ Outcome(d, res[c].doc) # Upstream
        BY <3>1 DEF Types, Results
      <4> QED BY <2>3, <4>1, <4>2
    <3>3. enabled /\ okAt[d] # None => now > okAt[d] + 2 * TTL
      BY <3>1, <3>2 DEF Absorb, NothingLeft, Past
    <3>4. now \in Nat /\ (okAt[d] # None => okAt[d] \in Nat)
      BY <2>2 DEF Types, Absorb, Heard
    <3> QED BY <2>5, <3>3, <3>4
  <2> QED BY <2>1, <2>6, <2>7
<1> QED BY <1>1, <1>2, AbsorbStep, Invariance, PTL DEF Spec, FlapAbsorbed

=============================================================================
