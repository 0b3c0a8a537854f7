------------------------------ MODULE UdpFlows ------------------------------
(***************************************************************************)
(* internal/proxyproto/udp_listener.go: UDPListener, the PacketConn that   *)
(* strips the one-shot PROXY v2 header off the first datagram of a flow.   *)
(* It reports the announced source from then on, and sends what is written *)
(* to it back to the kernel source.  Readers in ReadFrom and writers in    *)
(* WriteTo share two maps and a list under mu; ReadFrom lets go of mu      *)
(* between its lookup and its remember.                                    *)
(*                                                                         *)
(* A list element is one of Elem; lru holds the pairs <<e, f>> with e      *)
(* nearer to the front.  A datagram is its length and its header fields.   *)
(***************************************************************************)
EXTENDS Integers, FiniteSets

CONSTANTS
    Reader,         \* goroutines in ReadFrom
    Kernel, Real,   \* kernel sources, announced sources
    Is4(_),         \* is an announced source IPv4?
    Elem,           \* list elements
    None,
    Datagram,       \* what the socket may deliver
    MaxFlows, IdleTimeout,
    MaxNow          \* bound of the model

udpHeaderFixed == 16
addrPair(fam) == IF fam = "udp4" THEN 12 ELSE 36

DatagramType == [len : Nat, magic : BOOLEAN, cmd : {"proxy", "local", "other"},
                 fam : {"udp4", "udp6", "other"}, addrLen : Nat, src : Real]

ASSUME FlowsTypes ==
    /\ MaxFlows \in Nat \ {0} /\ IdleTimeout \in Nat /\ MaxNow \in Nat
    /\ Datagram \subseteq DatagramType
    /\ \A r \in Real : Is4(r) \in BOOLEAN
    /\ None \notin Elem \cup Kernel \cup Real
    /\ None \notin [key : Kernel, real : Real, lastSeen : Nat] \cup [from : Kernel, real : Real]
    /\ IsFiniteSet(Kernel)

(* parseProxyV2UDPHeader: the announced source; None without a header, for *)
(* one that cannot be used, and for LOCAL.                                 *)
Parse(dg) ==
    IF /\ dg.magic /\ dg.len >= udpHeaderFixed + dg.addrLen
       /\ dg.cmd = "proxy"
       /\ dg.fam # "other" /\ dg.addrLen >= addrPair(dg.fam)
    THEN dg.src ELSE None

(* WriteHeaderV2UDP, with n bytes of payload behind it.                    *)
WriteHeaderV2UDP(src, dst, n) ==
    LET fam == IF Is4(src) THEN "udp4" ELSE "udp6" IN
    IF Is4(src) # Is4(dst) THEN None
    ELSE [len |-> udpHeaderFixed + addrPair(fam) + n, magic |-> TRUE,
          cmd |-> "proxy", fam |-> fam, addrLen |-> addrPair(fam), src |-> src]

VARIABLES
    now,
    flows,      \* kernel source -> element
    reverse,    \* announced source -> element
    lru,        \* the order of the list
    ent,        \* the flowEntry of an element, None when it has none
    pc, job,    \* a reader between lookup and remember, with what it parsed
    heard,      \* history: what the datagrams of a kernel source announced
    newest      \* history: the flow that last came to be reported under a source

table == <<flows, reverse, lru, ent>>
vars == <<now, table, pc, job, heard, newest>>

Init ==
    /\ now = 0
    /\ flows = [k \in Kernel |-> None]
    /\ reverse = [r \in Real |-> None]
    /\ lru = {}
    /\ ent = [e \in Elem |-> None]
    /\ pc = [p \in Reader |-> "read"]
    /\ job = [p \in Reader |-> None]
    /\ heard = [k \in Kernel |-> {}]
    /\ newest = [r \in Real |-> None]

Live == {e \in Elem : ent[e] # None}
Stale(e) == now - ent[e].lastSeen > IdleTimeout

(* What the code does with a datagram aside, its announcement was made.    *)
Hear(k, dg) == heard' = [heard EXCEPT ![k] = @ \cup ({Parse(dg)} \ {None})]

(* The source under which the next datagram of k would be reported.        *)
Reported(k) == IF flows[k] = None THEN None ELSE ent[flows[k]].real

-----------------------------------------------------------------------------
(* The order without some elements; with e at the front.                   *)
Without(S) == {p \in lru : p[1] \notin S /\ p[2] \notin S}
MoveToFront(e, rest) == Without({e}) \cup {<<e, f>> : f \in rest \ {e}}

(* Mutant: the reverse mapping is deleted whoever owns it.                 *)
ReverseOfAny(S) ==
    [r \in Real |-> IF \E e \in S \cap Live : ent[e].real = r THEN None ELSE reverse[r]]

(* removeEntry: its reverse mapping goes only if it is its own.            *)
ReverseWithout(S) ==
    [r \in Real |-> IF reverse[r] \in S THEN None ELSE reverse[r]]

FlowsWithout(S) == [k \in Kernel |-> IF flows[k] \in S THEN None ELSE flows[k]]

removeEntry(S) ==
    /\ lru' = Without(S)
    /\ flows' = FlowsWithout(S)
    /\ reverse' = ReverseWithout(S)
    /\ ent' = [e \in Elem |-> IF e \in S THEN None ELSE ent[e]]

(* Mutant: traffic refreshes the time but not the place in the list.       *)
TouchInPlace(e) ==
    /\ ent' = [ent EXCEPT ![e].lastSeen = now]
    /\ UNCHANGED <<flows, reverse, lru>>

Touch(e) ==
    /\ ent' = [ent EXCEPT ![e].lastSeen = now]
    /\ lru' = MoveToFront(e, Live)
    /\ UNCHANGED <<flows, reverse>>

-----------------------------------------------------------------------------
(* ReadFrom, a cached flow: its datagram is returned under the announced   *)
(* source; nothing is parsed, even if the splicer announces it again.      *)
ReadCached(p, k, dg) ==
    /\ pc[p] = "read"
    /\ flows[k] # None /\ ~Stale(flows[k])
    /\ Touch(flows[k])
    /\ Hear(k, dg)
    /\ UNCHANGED <<now, pc, job, newest>>

(* ReadFrom, no live flow: lookup drops a stale one.  A datagram without a *)
(* usable source is returned under k, one with a source goes to remember.  *)
ReadUnknown(p, k, dg) ==
    LET src == Parse(dg) IN
    /\ pc[p] = "read"
    /\ flows[k] # None => Stale(flows[k])
    /\ removeEntry({flows[k]})
    /\ \/ /\ src = None
          /\ UNCHANGED <<pc, job>>
       \/ /\ src # None
          /\ pc' = [pc EXCEPT ![p] = "remember"]
          /\ job' = [job EXCEPT ![p] = [from |-> k, real |-> src]]
    /\ Hear(k, dg)
    /\ UNCHANGED <<now, newest>>

(* remember, another reader has created the flow meanwhile: a changed      *)
(* source moves the reverse mapping, an unchanged one leaves it alone.     *)
RememberKnown(k, r) ==
    LET e == flows[k] IN
    /\ e # None
    /\ lru' = MoveToFront(e, Live)
    /\ ent' = [ent EXCEPT ![e] = [key |-> k, real |-> r, lastSeen |-> now]]
    /\ UNCHANGED flows
    /\ \/ /\ ent[e].real # r
          /\ reverse' = [ReverseWithout({e}) EXCEPT ![r] = e]
       \/ ent[e].real = r /\ UNCHANGED reverse

(* The element at the back goes while the limit is reached.                *)
Back == {e \in Live : \A f \in Live : <<e, f>> \notin lru}

(* Mutant: the limit is tested after the new flow has been counted in.     *)
EvictedLate == IF Cardinality(Live) > MaxFlows THEN Back ELSE {}

Evicted == IF Cardinality(Live) >= MaxFlows THEN Back ELSE {}

RememberNew(k, r) ==
    /\ flows[k] = None
    /\ \E e \in Elem \ Live :
        /\ ent' = [x \in Elem |->
            IF x = e THEN [key |-> k, real |-> r, lastSeen |-> now]
            ELSE IF x \in Evicted THEN None ELSE ent[x]]
        /\ lru' = Without(Evicted) \cup {<<e, f>> : f \in Live \ Evicted}
        /\ flows' = [FlowsWithout(Evicted) EXCEPT ![k] = e]
        /\ reverse' = [ReverseWithout(Evicted) EXCEPT ![r] = e]

Remember(p) ==
    LET j == job[p] IN
    /\ pc[p] = "remember"
    /\ RememberKnown(j.from, j.real) \/ RememberNew(j.from, j.real)
    /\ newest' = IF Reported(j.from) = j.real THEN newest
                 ELSE [newest EXCEPT ![j.real] = j.from]
    /\ pc' = [pc EXCEPT ![p] = "read"]
    /\ job' = [job EXCEPT ![p] = None]
    /\ UNCHANGED <<now, heard>>

(* WriteTo: reverseLookup finds the kernel source, or the destination is   *)
(* used as it is.                                                          *)
WriteKnown(r) ==
    /\ reverse[r] # None /\ ~Stale(reverse[r])
    /\ Touch(reverse[r])
    /\ UNCHANGED <<now, pc, job, heard, newest>>

WriteUnknown(r) ==
    /\ reverse[r] # None => Stale(reverse[r])
    /\ removeEntry({reverse[r]})
    /\ UNCHANGED <<now, pc, job, heard, newest>>

(* evictIdle walks from the back and stops at the first fresh entry.  Only *)
(* the tests call it: a read or a write drops a stale entry it meets.      *)
EvictIdle ==
    /\ removeEntry({e \in Live : \A f \in Live :
        (f = e \/ <<e, f>> \in lru) => Stale(f)})
    /\ UNCHANGED <<now, pc, job, heard, newest>>

Tick == now < MaxNow /\ now' = now + 1 /\ UNCHANGED <<table, pc, job, heard, newest>>

Next ==
    \/ \E p \in Reader :
        \/ Remember(p)
        \/ \E k \in Kernel, dg \in Datagram :
            ReadCached(p, k, dg) \/ ReadUnknown(p, k, dg)
    \/ \E r \in Real : WriteKnown(r) \/ WriteUnknown(r)
    \/ EvictIdle
    \/ Tick

Spec == Init /\ [][Next]_vars
-----------------------------------------------------------------------------
Entry == [key : Kernel, real : Real, lastSeen : 0..MaxNow]

(* Types; and the list is an order of the live entries.                    *)
TypeOK ==
    /\ now \in 0..MaxNow
    /\ flows \in [Kernel -> Elem \cup {None}]
    /\ reverse \in [Real -> Elem \cup {None}]
    /\ lru \subseteq Live \X Live
    /\ ent \in [Elem -> Entry \cup {None}]
    /\ pc \in [Reader -> {"read", "remember"}]
    /\ job \in [Reader -> [from : Kernel, real : Real] \cup {None}]
    /\ \A p \in Reader : pc[p] = "remember" => job[p] # None
    /\ heard \in [Kernel -> SUBSET Real]
    /\ newest \in [Real -> Kernel \cup {None}]

(* flows, reverse and lru describe the same entries: an element reached    *)
(* through either map is live and carries the key it was reached by, and   *)
(* every live element is reached by its kernel source.                     *)
MapsAgree ==
    /\ \A k \in Kernel : flows[k] # None =>
        flows[k] \in Live /\ ent[flows[k]].key = k
    /\ \A e \in Live : flows[ent[e].key] = e
    /\ \A r \in Real : reverse[r] # None =>
        reverse[r] \in Live /\ ent[reverse[r]].real = r

(* ReadFrom reports a datagram under, and WriteTo sends to a kernel source *)
(* for, only what that kernel source announced itself.  Not what it        *)
(* announced last: what a cached flow announces is not read.               *)
Attribution ==
    /\ \A k \in Kernel : flows[k] # None => ent[flows[k]].real \in heard[k]
    /\ \A r \in Real : reverse[r] # None => r \in heard[ent[reverse[r]].key]

(* "the reverse map keeps the latest": of two flows reported under one     *)
(* source the return path is the one's that came to be reported under it   *)
(* last, as long as it is, whatever becomes of the other.  An older flow   *)
(* that announces the source once more does not get it back.               *)
LatestOwnsReturn ==
    \A r \in Real :
        LET e == IF newest[r] = None THEN None ELSE flows[newest[r]] IN
        (e # None /\ ent[e].real = r) => reverse[r] = e

(* Whose an address is, both ways: a datagram is reported under something  *)
(* its own kernel source announced, and an answer goes to the flow that    *)
(* came to be reported under its destination last (remember, removeEntry). *)
AddressOwners == Attribution /\ LatestOwnsReturn

(* DefaultUDPMaxFlows: the table never exceeds its limit.                  *)
FlowsBounded == Cardinality(Live) <= MaxFlows

(* The list is in the order of last use, so that evicting from the back    *)
(* takes the entry idle longest, and evictIdle may stop at the first fresh *)
(* one.                                                                    *)
ListByAge ==
    /\ \A e, f \in Live : e # f => (<<e, f>> \in lru <=> <<f, e>> \notin lru)
    /\ \A p \in lru : ent[p[1]].lastSeen >= ent[p[2]].lastSeen

(* The three structures are one table: both maps and the list hold the     *)
(* same live entries, the list in the order of last use (lookup,           *)
(* remember, removeEntry).                                                 *)
TableInv == TypeOK /\ MapsAgree /\ ListByAge
=============================================================================
