------------------------------- MODULE Tunnel -------------------------------
(***************************************************************************)
(* internal/cstp/tunnel.go: one Tunnel from newTunnel to the end of its    *)
(* goroutines.  readLoop and heartbeatLoop run beside the callers of the   *)
(* Tunnel: tun queues in WritePacket, pumpTunnel in ReadPacket, and the    *)
(* pumpTunnel of a successor in Close.  They share dataCh, writeMu,        *)
(* closeCh and closeOnce.                                                  *)
(*                                                                         *)
(* A time is the age of the last event, up to the bound where its value no *)
(* longer matters.  Payloads are left out; a frame is its type.            *)
(***************************************************************************)
EXTENDS Integers

CONSTANTS
    Writer,                     \* goroutines that call WritePacket
    Reader, Heart, Pump, Other, \* readLoop, heartbeatLoop, ReadPacket, Close
    None,
    Keepalive, DPDInterval, Idle, Refresh,  \* Config, in units of time
    Floor,                      \* the 2 s floor of the heartbeat
    UpsertTimeout,              \* the 5 s limit of one Upsert
    ChanCap,                    \* capacity of dataCh
    InboxCap,                   \* frames the bufio.Reader may hold
    PeerStalls                  \* may the peer stop reading?

Proc == Writer \cup {Reader, Heart, Pump, Other}

(* heartbeatLoop: a quarter of the shorter interval, at least the floor.   *)
hb ==
    LET k == Keepalive \div 4
        d == DPDInterval \div 4
        q == IF DPDInterval > 0 /\ d < k THEN d ELSE k
    IN  IF q < Floor THEN Floor ELSE q

(* The longest an open tunnel may be without inbound, outbound, Upsert.    *)
InBound == Idle + hb
OutBound == 2 * hb
RefreshBound == Refresh + hb + UpsertTimeout

Cause == {"eof", "disconnect", "compressed", "write", "closed"}

ASSUME TunnelTypes ==
    /\ {Keepalive, DPDInterval, Idle, Refresh, UpsertTimeout, InboxCap} \subseteq Nat
    /\ Floor \in Nat \ {0, 1} /\ ChanCap \in Nat \ {0}
    /\ PeerStalls \in BOOLEAN
    /\ {Reader, Heart, Pump, Other} \cap Writer = {}
    /\ Reader # Heart /\ Reader # Pump /\ Reader # Other
    /\ Heart # Pump /\ Heart # Other /\ Pump # Other
    /\ None \notin Proc \cup Cause

VARIABLES
    pc,
    want,       \* the cause a goroutine passes to closeWithErr
    job,        \* what the heartbeat writes: "dpd" or "disc"
    mu,         \* holder of writeMu
    stage,      \* closeOnce: "open", "stored", "signalled", "closed"
    closer,     \* the goroutine inside closeOnce.Do
    cause,      \* closeErr
    inbox,      \* frames received and not yet read
    dataCh,     \* packets in the channel
    chClosed,   \* readLoop has closed it
    got,        \* the error ReadPacket returned
    stalled,    \* the peer has stopped reading: conn.Write blocks
    inAge, outAge,              \* age of lastInbound, lastOutbound
    phase, tick,                \* the ticker, and its channel
    refreshing, refAge, upAge,  \* the binding, and an Upsert in flight
    upFailed                    \* some Upsert has failed

closing == <<stage, closer, cause>>
upsert == <<refreshing, refAge, upAge, upFailed>>
clock == <<inAge, outAge, phase, tick, upsert>>
vars == <<pc, want, job, mu, closing, inbox, dataCh, chClosed, got, stalled, clock>>

(* newTunnel                                                               *)
Init ==
    /\ pc = [p \in Proc |-> CASE p = Reader -> "read" [] p = Heart -> "wait"
                              [] p = Pump -> "recv" [] OTHER -> "idle"]
    /\ want = [p \in Proc |-> None]
    /\ job = "dpd"
    /\ mu = None
    /\ stage = "open" /\ closer = None /\ cause = None
    /\ inbox = 0 /\ dataCh = 0 /\ chClosed = FALSE
    /\ got = None
    /\ stalled = FALSE
    /\ inAge = 0 /\ outAge = 0 /\ phase = 0 /\ tick = FALSE
    /\ refreshing = FALSE /\ refAge = 0 /\ upAge = 0 /\ upFailed = FALSE

Goto(p, l) == pc' = [pc EXCEPT ![p] = l]

(* closeCh is closed.                                                      *)
Signalled == stage \in {"signalled", "closed"}

(* p calls closeWithErr(c).                                                *)
CallClose(p, c) == Goto(p, "close") /\ want' = [want EXCEPT ![p] = c]

(***************************************************************************)
(* writeFrame, run by readLoop (the DPD echo), heartbeatLoop and writers   *)
(***************************************************************************)
(* What its caller does with an error, and with a frame sent.              *)
AfterError(p) == IF p \in Writer THEN "idle" ELSE "close"

AfterFrame(p) ==
    CASE p = Reader -> "read"
      [] p = Heart -> IF job = "disc" THEN "close" ELSE "wait"
      [] OTHER -> "idle"

(* writeFrame returns to l; the caller's next closeWithErr, if it makes    *)
(* one, passes c.                                                          *)
Return(p, l, c) ==
    /\ Goto(p, l)
    /\ want' = [want EXCEPT ![p] = IF l = "close" THEN c ELSE None]

(* writeMu.Lock, then the look at closeCh.                                 *)
LockFrame(p) ==
    /\ pc[p] = "lock"
    /\ mu = None
    /\ \/ /\ Signalled
          /\ Return(p, AfterError(p), "closed")
          /\ UNCHANGED mu
       \/ /\ ~Signalled
          /\ mu' = p
          /\ Goto(p, "write")
          /\ UNCHANGED want
    /\ UNCHANGED <<job, closing, inbox, dataCh, chClosed, got, stalled, clock>>

(* Write and Flush succeed; unlock.                                        *)
FlushFrame(p) ==
    /\ pc[p] = "write"
    /\ ~stalled /\ stage # "closed"
    /\ outAge' = 0
    /\ mu' = None
    /\ Return(p, AfterFrame(p), "closed")
    /\ UNCHANGED <<job, closing, inbox, dataCh, chClosed, got, stalled,
                   inAge, phase, tick, upsert>>

(* Mutant: the lock is released before closeWithErr.                       *)
FlushFailsUnlocked(p) ==
    /\ pc[p] = "write"
    /\ Goto(p, "wclose")
    /\ want' = [want EXCEPT ![p] = "write"]
    /\ mu' = None
    /\ UNCHANGED <<job, closing, inbox, dataCh, chClosed, got, stalled, clock>>

(* They fail: closeWithErr is called with writeMu held.                    *)
FlushFails(p) ==
    /\ pc[p] = "write"
    /\ Goto(p, "wclose")
    /\ want' = [want EXCEPT ![p] = "write"]
    /\ UNCHANGED <<job, mu, closing, inbox, dataCh, chClosed, got, stalled, clock>>

WritePacket(w) ==
    /\ pc[w] = "idle"
    /\ Goto(w, "lock")
    /\ UNCHANGED <<want, job, mu, closing, inbox, dataCh, chClosed, got, stalled,
                   clock>>

(***************************************************************************)
(* closeWithErr: three steps inside closeOnce; later callers wait for them *)
(***************************************************************************)
Closing(p) == pc[p] \in {"close", "wclose"}

CloseStore(p) ==
    /\ Closing(p) /\ stage = "open"
    /\ stage' = "stored"
    /\ cause' = want[p]
    /\ closer' = p
    /\ UNCHANGED <<pc, want, job, mu, inbox, dataCh, chClosed, got, stalled, clock>>

CloseSignal(p) ==
    /\ closer = p /\ stage = "stored"
    /\ stage' = "signalled"
    /\ UNCHANGED <<closer, cause, pc, want, job, mu, inbox, dataCh, chClosed,
                   got, stalled, clock>>

CloseConn(p) ==
    /\ closer = p /\ stage = "signalled"
    /\ stage' = "closed"
    /\ UNCHANGED <<closer, cause, pc, want, job, mu, inbox, dataCh, chClosed,
                   got, stalled, clock>>

(* Do returns.  Inside writeFrame the lock is released and the error goes  *)
(* to the caller; readLoop's deferred close(dataCh) runs as it ends.       *)
CloseReturns(p) ==
    /\ Closing(p) /\ stage = "closed"
    /\ mu' = IF pc[p] = "wclose" THEN None ELSE mu
    /\ Return(p, IF pc[p] = "wclose" THEN AfterError(p) ELSE "done", "write")
    /\ chClosed' = (chClosed \/ (p = Reader /\ pc[p] = "close"))
    /\ UNCHANGED <<job, closing, inbox, dataCh, got, stalled, clock>>

(* Mutant: closeCh is closed before the cause is stored.                   *)
CloseSwapped(p) ==
    \/ /\ Closing(p) /\ stage = "open"
       /\ stage' = "signalled"
       /\ closer' = p
       /\ UNCHANGED <<cause, pc, want, job, mu, inbox, dataCh, chClosed, got,
                      stalled, clock>>
    \/ /\ closer = p /\ stage = "signalled"
       /\ stage' = "closed"
       /\ cause' = want[p]
       /\ UNCHANGED <<closer, pc, want, job, mu, inbox, dataCh, chClosed, got,
                      stalled, clock>>
    \/ CloseReturns(p)

CloseStep(p) ==
    CloseStore(p) \/ CloseSignal(p) \/ CloseConn(p) \/ CloseReturns(p)

(* Close, by the pumpTunnel that displaces this one.                       *)
Close ==
    /\ pc[Other] = "idle"
    /\ CallClose(Other, None)
    /\ UNCHANGED <<job, mu, closing, inbox, dataCh, chClosed, got, stalled, clock>>

(***************************************************************************)
(* readLoop and ReadPacket                                                 *)
(***************************************************************************)
PeerSends ==
    /\ stage # "closed" /\ inbox < InboxCap
    /\ inbox' = inbox + 1
    /\ UNCHANGED <<pc, want, job, mu, closing, dataCh, chClosed, got, stalled, clock>>

(* A frame: DPD response, keepalive or unknown; data; DPD request;         *)
(* disconnect or term-server; compressed.                                  *)
ReadFrame ==
    /\ pc[Reader] = "read"
    /\ inbox > 0
    /\ inbox' = inbox - 1
    /\ inAge' = 0
    /\ \/ UNCHANGED <<pc, want>>
       \/ Goto(Reader, "push") /\ UNCHANGED want
       \/ Goto(Reader, "lock") /\ UNCHANGED want
       \/ CallClose(Reader, "disconnect")
       \/ CallClose(Reader, "compressed")
    /\ UNCHANGED <<job, mu, closing, dataCh, chClosed, got, stalled, outAge,
                   phase, tick, upsert>>

(* EOF, a broken frame, a closed conn.                                     *)
ReadError ==
    /\ pc[Reader] = "read"
    /\ CallClose(Reader, "eof")
    /\ UNCHANGED <<job, mu, closing, inbox, dataCh, chClosed, got, stalled, clock>>

(* Mutant: readLoop sends without watching closeCh.                        *)
PushBlocks ==
    /\ pc[Reader] = "push"
    /\ dataCh < ChanCap
    /\ dataCh' = dataCh + 1
    /\ Goto(Reader, "read")
    /\ UNCHANGED <<want, job, mu, closing, inbox, chClosed, got, stalled, clock>>

(* The select on dataCh and closeCh.                                       *)
PushPacket ==
    /\ pc[Reader] = "push"
    /\ \/ /\ dataCh < ChanCap
          /\ dataCh' = dataCh + 1
          /\ Goto(Reader, "read")
          /\ UNCHANGED chClosed
       \/ /\ Signalled
          /\ chClosed' = TRUE
          /\ Goto(Reader, "done")
          /\ UNCHANGED dataCh
    /\ UNCHANGED <<want, job, mu, closing, inbox, got, stalled, clock>>

closeCauseOr(fallback) == IF cause # None THEN cause ELSE fallback

(* ReadPacket returns a packet, or an error after which pumpTunnel closes. *)
ReadPacket ==
    /\ pc[Pump] = "recv"
    /\ \/ /\ dataCh > 0
          /\ dataCh' = dataCh - 1
          /\ UNCHANGED <<pc, want, got>>
       \/ /\ dataCh = 0 /\ chClosed
          /\ got' = closeCauseOr("eof")
          /\ CallClose(Pump, None)
          /\ UNCHANGED dataCh
       \/ /\ Signalled
          /\ got' = closeCauseOr("closed")
          /\ CallClose(Pump, None)
          /\ UNCHANGED dataCh
    /\ UNCHANGED <<job, mu, closing, inbox, chClosed, stalled, clock>>

(***************************************************************************)
(* heartbeatLoop, maybeRefreshDTLSBinding, time                            *)
(***************************************************************************)
(* Mutant: due only after the full interval has been exceeded.             *)
RefreshLate == Refresh > 0 /\ refAge > Refresh /\ ~refreshing

RefreshDue == Refresh > 0 /\ refAge >= Refresh /\ ~refreshing

(* Mutant: the idle timeout looks at the outbound time.                    *)
OutboundIdle == Idle > 0 /\ outAge > Idle

InboundIdle == Idle > 0 /\ inAge > Idle

DPDDue == outAge >= hb

(* A tick: refresh the binding when due, then the idle timeout, then DPD.  *)
Heartbeat ==
    /\ pc[Heart] = "wait" /\ tick
    /\ tick' = FALSE
    /\ refreshing' = (refreshing \/ RefreshDue)
    /\ upAge' = IF RefreshDue THEN 0 ELSE upAge
    /\ \/ /\ InboundIdle
          /\ job' = "disc"
          /\ Goto(Heart, "lock")
       \/ /\ ~InboundIdle /\ DPDDue
          /\ job' = "dpd"
          /\ Goto(Heart, "lock")
       \/ /\ ~InboundIdle /\ ~DPDDue
          /\ UNCHANGED <<job, pc>>
    /\ UNCHANGED <<want, mu, closing, inbox, dataCh, chClosed, got, stalled,
                   inAge, outAge, phase, refAge, upFailed>>

HeartStops ==
    /\ pc[Heart] = "wait" /\ Signalled
    /\ Goto(Heart, "done")
    /\ UNCHANGED <<want, job, mu, closing, inbox, dataCh, chClosed, got, stalled,
                   clock>>

(* The Upsert goroutine ends.                                              *)
UpsertDone ==
    /\ refreshing
    /\ refreshing' = FALSE
    /\ \/ refAge' = 0 /\ UNCHANGED upFailed
       \/ upFailed' = TRUE /\ UNCHANGED refAge
    /\ upAge' = 0
    /\ UNCHANGED <<pc, want, job, mu, closing, inbox, dataCh, chClosed, got,
                   stalled, inAge, outAge, phase, tick>>

(* From now on the peer does not read.                                     *)
PeerStall ==
    /\ PeerStalls /\ ~stalled
    /\ stalled' = TRUE
    /\ UNCHANGED <<pc, want, job, mu, closing, inbox, dataCh, chClosed, got, clock>>

Older(age, bound) == IF age < bound THEN age + 1 ELSE age

(* A unit of time in the life of an open tunnel.  The ticker's channel     *)
(* holds one tick; an Upsert ends within its timeout.                      *)
Clock ==
    /\ stage = "open"
    /\ refreshing => upAge < UpsertTimeout
    /\ inAge' = IF Idle > 0 THEN Older(inAge, InBound + 1) ELSE 0
    /\ outAge' = Older(outAge, OutBound + 1)
    /\ refAge' = IF Refresh > 0 THEN Older(refAge, RefreshBound + 1) ELSE 0
    /\ upAge' = IF refreshing THEN upAge + 1 ELSE 0
    /\ phase' = IF phase + 1 = hb THEN 0 ELSE phase + 1
    /\ tick' = (tick \/ phase' = 0)
    /\ UNCHANGED <<pc, want, job, mu, closing, inbox, dataCh, chClosed, got,
                   stalled, refreshing, upFailed>>

Next ==
    \/ \E p \in Proc :
        LockFrame(p) \/ FlushFrame(p) \/ FlushFails(p) \/ CloseStep(p)
    \/ \E w \in Writer : WritePacket(w)
    \/ Close
    \/ PeerSends \/ ReadFrame \/ ReadError \/ PushPacket \/ ReadPacket
    \/ Heartbeat \/ HeartStops \/ UpsertDone \/ PeerStall \/ Clock

Spec == Init /\ [][Next]_vars

(* The heartbeat waits for its ticker, or for a conn nobody reads.         *)
HeartWaits ==
    \/ pc[Heart] = "wait" /\ ~tick
    \/ pc[Heart] \in {"lock", "write"} /\ stalled /\ mu # None

(* Goroutines are quick: no time passes while the heartbeat could run.     *)
Prompt == phase' # phase => HeartWaits

TimedSpec == Init /\ [][Next /\ Prompt]_vars

(* Every goroutine that does not wait for the peer is scheduled: those     *)
(* with something to write or to close, and all of them once closeCh or    *)
(* the conn is closed.                                                     *)
Fairness ==
    /\ \A p \in Proc :
        /\ WF_vars(LockFrame(p))
        /\ WF_vars(CloseStep(p))
        /\ WF_vars(stage = "closed" /\ FlushFails(p))
    /\ WF_vars(stage = "closed" /\ ReadError)
    /\ WF_vars(PushPacket)
    /\ WF_vars(ReadPacket)
    /\ WF_vars(HeartStops)

FairSpec == TimedSpec /\ Fairness

(***************************************************************************)
(* Properties                                                              *)
(***************************************************************************)
Place == {"read", "push", "wait", "recv", "idle", "lock", "write", "wclose",
          "close", "done"}

ProcOK ==
    /\ pc \in [Proc -> Place]
    /\ want \in [Proc -> Cause \cup {None}]
    /\ job \in {"dpd", "disc"}
    /\ mu \in Proc \cup {None}

StateOK ==
    /\ stage \in {"open", "stored", "signalled", "closed"}
    /\ closer \in Proc \cup {None}
    /\ cause \in Cause \cup {None}
    /\ got \in Cause \cup {None}
    /\ inbox \in 0..InboxCap /\ dataCh \in 0..ChanCap
    /\ chClosed \in BOOLEAN /\ stalled \in BOOLEAN

ClockOK ==
    /\ inAge \in 0..InBound + 1 /\ outAge \in 0..OutBound + 1
    /\ phase \in 0..hb - 1 /\ tick \in BOOLEAN
    /\ refreshing \in BOOLEAN /\ upFailed \in BOOLEAN
    /\ refAge \in 0..RefreshBound + 1 /\ upAge \in 0..UpsertTimeout

(* Types; and writeMu is held exactly while a frame is being written.      *)
LockOK == \A p \in Proc : mu = p <=> pc[p] \in {"write", "wclose"}

TypeOK == ProcOK /\ StateOK /\ ClockOK /\ LockOK

(* closeWithErr, closeCauseOr: whichever of the two select cases wakes     *)
(* ReadPacket, and whoever else is closing, it reports the cause the one   *)
(* effective closeWithErr was given.                                       *)
CauseReported == (got # None /\ cause # None) => got = cause

(* heartbeatLoop, "keeps a recent liveness witness in front of the         *)
(* client": while the peer reads, an open tunnel is never without an       *)
(* outbound frame for two heartbeats.                                      *)
OutboundFresh == (stage = "open" /\ ~stalled) => outAge < OutBound

(* heartbeatLoop's idle timeout: while it reads, a silent peer keeps its   *)
(* tunnel for at most one heartbeat beyond the timeout, data and DPD going *)
(* out all the time notwithstanding.                                       *)
SilenceBounded == (stage = "open" /\ ~stalled /\ Idle > 0) => inAge <= InBound

(* heartbeatLoop's two duties, which one ticker serves: speak in time, and *)
(* give up in time on a peer that does not.                                *)
KeepAlive == OutboundFresh /\ SilenceBounded

(* maybeRefreshDTLSBinding: while the peer reads and Upsert succeeds, the  *)
(* binding of an open tunnel is refreshed in time: the refreshing flag     *)
(* never suppresses a refresh that is due.                                 *)
BindingFresh ==
    (stage = "open" /\ ~stalled /\ ~upFailed) => refAge < RefreshBound

(* closeWithErr: one close ends both goroutines and the pump, from         *)
(* whatever lock, channel or conn they wait on.                            *)
CloseEnds ==
    stage # "open" ~> \A p \in {Reader, Heart, Pump} : pc[p] = "done"

=============================================================================
