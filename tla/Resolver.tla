------------------------------ MODULE Resolver ------------------------------
(***************************************************************************)
(* internal/iam/tpm_resolver.go: concurrent calls of TPMResolver.Resolve,  *)
(* the cache with its soft and hard expiry, and the single flight around   *)
(* one fetch.  TPM itself is outside: operators change what it says at any *)
(* time, it reads its state somewhere within a request, and a request may  *)
(* fail at any point (timeout, 5xx, the leader's context cancelled).       *)
(*                                                                         *)
(* A cache or single-flight step takes no time; a request takes at most    *)
(* the timeout of the http.Client.                                         *)
(***************************************************************************)
EXTENDS Integers

CONSTANTS
    Caller, Device,
    None,
    Prefix,         \* prefixes a document may carry
    PoolHost,       \* those that are IPv6, /128 and inside the pool
    Invalid,        \* source_ipv6_ocserv_clat present and no usable string
    Doc,            \* the documents TPM may answer with
    TTL, HTTPTimeout,
    MaxNow, MaxVer  \* bounds of the model

Pc == {"idle", "soft", "do", "wait", "sent", "replied", "finish"}

DocType == [status : {200, 404, 500}, id : Device \cup {None},
            ocserv : Prefix \cup {None}, native : Prefix \cup {None},
            explicit : Prefix \cup {None, Invalid}, clat : Prefix \cup {None},
            dtlsOff : BOOLEAN]

(* What Resolve returns: an Identity or an error.                          *)
Identity == [err : {"nil"}, id : Device, v6 : PoolHost, clat : PoolHost,
             dtlsOff : BOOLEAN]
DeviceNotFound == [err |-> "ErrDeviceNotFound"]
NoTunnel == [err |-> "ErrNoTunnel"]
Upstream == [err |-> "ErrUpstream"]

ASSUME ResolverTypes ==
    /\ {TTL, HTTPTimeout, MaxNow, MaxVer} \subseteq Nat
    /\ Doc \subseteq DocType /\ PoolHost \subseteq Prefix
    /\ None \notin Device \cup Caller \cup Prefix
    /\ Invalid \notin Prefix \cup {None}
    /\ None \notin [ver : Nat, doc : Doc, at : Nat]
    /\ None \notin [fact : [ver : Nat, doc : Doc, at : Nat], putAt : Nat]

(* A field of the document with its fallback for an absent value.          *)
Or(field, fallback) == IF field # None THEN field ELSE fallback

(* fetch after the answer: the first check that fails decides.  A document *)
(* that cannot be used is ErrUpstream, as an outage is.                    *)
Outcome(d, doc) ==
    LET v6 == Or(doc.ocserv, doc.native)
        clat == Or(doc.explicit, doc.clat)
    IN  CASE doc.status = 404 -> DeviceNotFound
          [] doc.status = 500 -> Upstream
          [] doc.status = 200 /\ v6 = None -> NoTunnel
          [] doc.status = 200 /\ v6 # None /\ v6 \notin PoolHost -> Upstream
          [] doc.status = 200 /\ v6 \in PoolHost /\ clat = None -> NoTunnel
          [] doc.status = 200 /\ v6 \in PoolHost /\ clat # None
                /\ clat \notin PoolHost -> Upstream
          [] doc.status = 200 /\ v6 \in PoolHost /\ clat \in PoolHost ->
                [err |-> "nil", id |-> Or(doc.id, d), v6 |-> v6, clat |-> clat,
                 dtlsOff |-> doc.dtlsOff]

Terminal(d, doc) == Outcome(d, doc).err \in {"ErrDeviceNotFound", "ErrNoTunnel"}
Usable(d, doc) == Outcome(d, doc).err = "nil"

VARIABLES
    enabled,    \* cacheEnabled
    cache,      \* device -> fact with the time of its cachePut, or None
    flight,     \* singleflight.Group: the caller that runs fn
    pc, dev,    \* of each call
    due,        \* when the client gives the request up
    reply,      \* what TPM read for it
    res,        \* the leader's result: a fact or None for an error
    okAt,       \* history: last usable answer, None after a terminal one
    now, tpm, log, seen, floor, got     \* as in DeviceLookup

local == <<pc, dev, due, reply, res>>
world == <<now, tpm, log>>
vars == <<enabled, cache, flight, local, okAt, world, seen, floor, got>>

Init ==
    /\ enabled \in BOOLEAN
    /\ cache = [d \in Device |-> None]
    /\ flight = [d \in Device |-> None]
    /\ pc = [c \in Caller |-> "idle"]
    /\ dev = [c \in Caller |-> None]
    /\ due = [c \in Caller |-> 0]
    /\ reply = [c \in Caller |-> None]
    /\ res = [c \in Caller |-> None]
    /\ okAt = [d \in Device |-> None]
    /\ now = 0
    /\ \E f \in [Device -> Doc] :
        /\ tpm = [d \in Device |-> [ver |-> 0, doc |-> f[d]]]
        /\ log = [d \in Device |-> {[ver |-> 0, doc |-> f[d], at |-> 0]}]
    /\ seen = [d \in Device |-> 0]
    /\ floor = [c \in Caller |-> 0]
    /\ got = [c \in Caller |-> None]

-----------------------------------------------------------------------------
(* The cache.  time.After is strict: an entry still counts at its expiry.  *)
cacheGet(d, life) ==
    enabled /\ cache[d] # None /\ now <= cache[d].putAt + life

cacheGetSoft(d) == cacheGet(d, TTL)

(* Mutant: the hard lifetime starts when the soft one ends, as a renewed   *)
(* entry would have it.                                                    *)
HardAfterSoft(d) == cacheGet(d, 3 * TTL)

(* Mutant: only a soft-fresh entry survives an outage.                     *)
HardIsSoft(d) == cacheGet(d, TTL)

cacheGetHard(d) == cacheGet(d, 2 * TTL)

cachePut(d, f) ==
    cache' = IF enabled
             THEN [cache EXCEPT ![d] = [fact |-> f, putAt |-> now]]
             ELSE cache

cacheDelete(d) == cache' = [cache EXCEPT ![d] = None]

-----------------------------------------------------------------------------
(* What a set of callers of d is told: a fact, or None for an error.       *)
Deliver(S, d, f) ==
    /\ got' = [c \in Caller |->
        IF c \notin S THEN got[c]
        ELSE IF f = None THEN Upstream ELSE Outcome(d, f.doc)]
    /\ seen' = IF f # None /\ f.ver > seen[d]
               THEN [seen EXCEPT ![d] = f.ver] ELSE seen
    /\ pc' = [c \in Caller |-> IF c \in S THEN "idle" ELSE pc[c]]
    /\ dev' = [c \in Caller |-> IF c \in S THEN None ELSE dev[c]]
    /\ floor' = [c \in Caller |-> IF c \in S THEN 0 ELSE floor[c]]

(* Resolve is called.  An empty id is refused before anything is touched.  *)
Call(c, d) ==
    /\ pc[c] = "idle"
    /\ pc' = [pc EXCEPT ![c] = "soft"]
    /\ dev' = [dev EXCEPT ![c] = d]
    /\ floor' = [floor EXCEPT ![c] = seen[d]]
    /\ got' = [got EXCEPT ![c] = None]
    /\ UNCHANGED <<enabled, cache, flight, due, reply, res, okAt, world, seen>>

SoftHit(c) ==
    /\ pc[c] = "soft"
    /\ cacheGetSoft(dev[c])
    /\ Deliver({c}, dev[c], cache[dev[c]].fact)
    /\ UNCHANGED <<enabled, cache, flight, due, reply, res, okAt, world>>

SoftMiss(c) ==
    /\ pc[c] = "soft"
    /\ ~cacheGetSoft(dev[c])
    /\ pc' = [pc EXCEPT ![c] = "do"]
    /\ UNCHANGED <<enabled, cache, flight, dev, due, reply, res, okAt, world, seen, floor, got>>

(* sf.Do with a call in flight: wait for its result.                       *)
Join(c) ==
    /\ pc[c] = "do" /\ flight[dev[c]] # None
    /\ pc' = [pc EXCEPT ![c] = "wait"]
    /\ UNCHANGED <<enabled, cache, flight, dev, due, reply, res, okAt, world, seen, floor, got>>

(* Mutant: every caller runs its own fetch.                                *)
LeadAnyway(c) ==
    /\ pc[c] = "do"
    /\ flight' = [flight EXCEPT ![dev[c]] = c]
    /\ pc' = [pc EXCEPT ![c] = "sent"]
    /\ due' = [due EXCEPT ![c] = now + HTTPTimeout]
    /\ UNCHANGED <<enabled, cache, dev, reply, res, okAt, world, seen, floor, got>>

(* sf.Do without one: the re-check of the cache, then the request.         *)
Lead(c) ==
    LET d == dev[c] IN
    /\ pc[c] = "do" /\ flight[d] = None
    /\ flight' = [flight EXCEPT ![d] = c]
    /\ \/ /\ cacheGetSoft(d)
          /\ pc' = [pc EXCEPT ![c] = "finish"]
          /\ res' = [res EXCEPT ![c] = cache[d].fact]
          /\ UNCHANGED due
       \/ /\ ~cacheGetSoft(d)
          /\ pc' = [pc EXCEPT ![c] = "sent"]
          /\ due' = [due EXCEPT ![c] = now + HTTPTimeout]
          /\ UNCHANGED res
    /\ UNCHANGED <<enabled, cache, dev, reply, okAt, world, seen, floor, got>>

(* TPM looks the device up.                                                *)
TPMReads(c) ==
    LET t == tpm[dev[c]] IN
    /\ pc[c] = "sent"
    /\ pc' = [pc EXCEPT ![c] = "replied"]
    /\ reply' = [reply EXCEPT ![c] = [ver |-> t.ver, doc |-> t.doc, at |-> now]]
    /\ UNCHANGED <<enabled, cache, flight, dev, due, res, okAt, world, seen, floor, got>>

(* A transient failure: the hard-fresh entry or the error; cacheGetHard    *)
(* drops an entry it finds expired.                                        *)
Degrade(c) ==
    LET d == dev[c] IN
    /\ res' = [res EXCEPT ![c] = IF cacheGetHard(d) THEN cache[d].fact ELSE None]
    /\ cache' = IF cacheGetHard(d) THEN cache ELSE [cache EXCEPT ![d] = None]
    /\ UNCHANGED okAt

FetchFails(c) ==
    /\ pc[c] \in {"sent", "replied"}
    /\ pc' = [pc EXCEPT ![c] = "finish"]
    /\ Degrade(c)
    /\ due' = [due EXCEPT ![c] = 0]
    /\ reply' = [reply EXCEPT ![c] = None]
    /\ UNCHANGED <<enabled, flight, dev, world, seen, floor, got>>

(* The answer arrives: install it, forget the device, or degrade.          *)
Fetched(c) ==
    LET d == dev[c]
        f == reply[c]
    IN  /\ pc[c] = "replied"
        /\ pc' = [pc EXCEPT ![c] = "finish"]
        /\ \/ /\ Usable(d, f.doc)
              /\ cachePut(d, f)
              /\ res' = [res EXCEPT ![c] = f]
              /\ okAt' = [okAt EXCEPT ![d] = now]
           \/ /\ Terminal(d, f.doc)
              /\ cacheDelete(d)
              /\ res' = [res EXCEPT ![c] = f]
              /\ okAt' = [okAt EXCEPT ![d] = None]
           \/ /\ Outcome(d, f.doc).err = "ErrUpstream"
              /\ Degrade(c)
        /\ due' = [due EXCEPT ![c] = 0]
        /\ reply' = [reply EXCEPT ![c] = None]
        /\ UNCHANGED <<enabled, flight, dev, world, seen, floor, got>>

Waiters(d) == {w \in Caller : pc[w] = "wait" /\ dev[w] = d}

(* Mutant: a leader that failed leaves its waiters to nobody.              *)
WakeOnSuccess(c) ==
    IF res[c] # None THEN {c} \cup Waiters(dev[c]) ELSE {c}

Woken(c) == {c} \cup Waiters(dev[c])

(* fn returns: the flight ends, the leader and its waiters get the result. *)
Finish(c) ==
    /\ pc[c] = "finish"
    /\ flight' = [flight EXCEPT ![dev[c]] = None]
    /\ Deliver(Woken(c), dev[c], res[c])
    /\ res' = [res EXCEPT ![c] = None]
    /\ UNCHANGED <<enabled, cache, due, reply, okAt, world>>

(* External: an operator changes the device in TPM.                        *)
Change(d, doc) ==
    /\ tpm[d].ver < MaxVer
    /\ tpm' = [tpm EXCEPT ![d] = [ver |-> @.ver + 1, doc |-> doc]]
    /\ log' = [log EXCEPT ![d] =
        @ \cup {[ver |-> tpm[d].ver + 1, doc |-> doc, at |-> now]}]
    /\ UNCHANGED <<enabled, cache, flight, local, okAt, now, seen, floor, got>>

(* Time passes while every caller is idle, waits, or has a request open.   *)
Tick ==
    /\ now < MaxNow
    /\ \A c \in Caller :
        \/ pc[c] \in {"idle", "wait"}
        \/ pc[c] \in {"sent", "replied"} /\ now < due[c]
    /\ now' = now + 1
    /\ log' = [d \in Device |->
        log[d] \cup {[ver |-> tpm[d].ver, doc |-> tpm[d].doc, at |-> now + 1]}]
    /\ UNCHANGED <<enabled, cache, flight, local, okAt, tpm, seen, floor, got>>

Step(c) ==
    \/ SoftHit(c) \/ SoftMiss(c) \/ Join(c) \/ Lead(c)
    \/ FetchFails(c) \/ Fetched(c) \/ Finish(c)

Next ==
    \/ \E c \in Caller : Step(c) \/ TPMReads(c) \/ \E d \in Device : Call(c, d)
    \/ \E d \in Device, doc \in Doc : Change(d, doc)
    \/ Tick

Spec == Init /\ [][Next]_vars

(* The goroutines run, and the http.Client ends every request.             *)
FairSpec == Spec /\ \A c \in Caller : WF_vars(Step(c))

-----------------------------------------------------------------------------
Fact == [ver : 0..MaxVer, doc : Doc, at : 0..MaxNow]

(* singleflight: concurrent Resolves of one device share one request, so   *)
(* that its answers reach the cache in the order TPM gave them.            *)
OneFetch ==
    \A c, e \in Caller :
        (pc[c] \in {"sent", "replied"} /\ pc[e] \in {"sent", "replied"}
            /\ dev[c] = dev[e]) => c = e

(* Types: an Identity holds two /128s of the pool, so that Resolve fails   *)
(* closed; and a device has one request under way.                         *)
TypeOK ==
    /\ enabled \in BOOLEAN
    /\ cache \in [Device -> [fact : Fact, putAt : 0..MaxNow] \cup {None}]
    /\ flight \in [Device -> Caller \cup {None}]
    /\ pc \in [Caller -> Pc] /\ dev \in [Caller -> Device \cup {None}]
    /\ due \in [Caller -> 0..MaxNow + HTTPTimeout]
    /\ reply \in [Caller -> Fact \cup {None}]
    /\ res \in [Caller -> Fact \cup {None}]
    /\ okAt \in [Device -> 0..MaxNow \cup {None}]
    /\ now \in 0..MaxNow
    /\ tpm \in [Device -> [ver : 0..MaxVer, doc : Doc]]
    /\ log \in [Device -> SUBSET Fact]
    /\ seen \in [Device -> 0..MaxVer] /\ floor \in [Caller -> 0..MaxVer]
    /\ got \in [Caller -> Identity \cup {DeviceNotFound, NoTunnel, Upstream, None}]
    /\ OneFetch

Lookup == INSTANCE DeviceLookup
    WITH asked <- dev, Bound <- 2 * TTL + HTTPTimeout

(* Resolve's promise: every caller is told an error, or what TPM said of   *)
(* the device no longer ago than the hard lifetime and one request, and    *)
(* never something older than an answer given before the call.  A device   *)
(* once reported gone is not served from the cache again.                  *)
LookupSpec == Lookup!Spec

(* "On a fetch failure, if a hard-not-expired cached entry exists serve    *)
(* it": while the last answer TPM gave on the device was usable and not    *)
(* older than twice the TTL, no call fails, whoever's cancelled context or *)
(* outage ended the fetch it waited for.                                   *)
FlapAbsorbed ==
    [][\A c \in Caller :
        (pc[c] # "idle" /\ pc'[c] = "idle" /\ got'[c].err = "ErrUpstream")
            => ~(enabled /\ okAt[dev[c]] # None /\ now <= okAt[dev[c]] + 2 * TTL)]_vars

(* Every Resolve returns: no waiter outlives the flight it joined.         *)
ResolveReturns == \A c \in Caller : pc[c] # "idle" ~> pc[c] = "idle"
=============================================================================
