---------------------------- MODULE TunnelProofs ----------------------------
(***************************************************************************)
(* Theorems about Tunnel, for any number of writers and any configuration  *)
(* of the intervals.                                                       *)
(***************************************************************************)
EXTENDS Tunnel, TLAPS

(* heartbeatLoop: the ticker's interval is at least the floor.             *)
LEMMA HeartbeatPositive == hb \in Nat /\ hb >= 2
  BY TunnelTypes DEF hb

(* Every step keeps the goroutines' locals well formed.                    *)
LEMMA ProcStep == ProcOK /\ [Next]_vars => ProcOK'
<1> SUFFICES ASSUME ProcOK, [Next]_vars PROVE ProcOK'
  OBVIOUS
<1> USE TunnelTypes DEF ProcOK, Place, Cause, Proc
<1>1. CASE UNCHANGED <<pc, want, job, mu>>
  BY <1>1
<1>2. ASSUME NEW p \in Proc, LockFrame(p) PROVE ProcOK'
  BY <1>2 DEF LockFrame, Return, AfterError, Goto
<1>3. ASSUME NEW p \in Proc, FlushFrame(p) PROVE ProcOK'
  BY <1>3 DEF FlushFrame, Return, AfterFrame, Goto
<1>4. ASSUME NEW p \in Proc, FlushFails(p) PROVE ProcOK'
  BY <1>4 DEF FlushFails, Goto
<1>5. ASSUME NEW p \in Proc, CloseReturns(p) PROVE ProcOK'
  BY <1>5 DEF CloseReturns, Closing, Return, AfterError, Goto
<1>6. ASSUME NEW w \in Writer, WritePacket(w) PROVE ProcOK'
  BY <1>6 DEF WritePacket, Goto
<1>7. CASE Close
  BY <1>7 DEF Close, CallClose, Goto
<1>8. CASE ReadFrame
  BY <1>8 DEF ReadFrame, CallClose, Goto
<1>9. CASE ReadError
  BY <1>9 DEF ReadError, CallClose, Goto
<1>10. CASE PushPacket
  BY <1>10 DEF PushPacket, Goto
<1>11. CASE ReadPacket
  BY <1>11 DEF ReadPacket, CallClose, Goto
<1>12. CASE Heartbeat
  BY <1>12 DEF Heartbeat, Goto
<1>13. CASE HeartStops
  BY <1>13 DEF HeartStops, Goto
<1>14. ASSUME NEW p \in Proc, CloseStore(p) \/ CloseSignal(p) \/ CloseConn(p) PROVE ProcOK'
  BY <1>1, <1>14 DEF CloseStore, CloseSignal, CloseConn
<1>15. CASE PeerSends \/ UpsertDone \/ PeerStall \/ Clock \/ UNCHANGED vars
  BY <1>1, <1>15 DEF PeerSends, UpsertDone, PeerStall, Clock, vars
<1>16. QED
  BY <1>2, <1>3, <1>4, <1>5, <1>6, <1>7, <1>8, <1>9, <1>10, <1>11, <1>12, <1>13, <1>14, <1>15
     DEF Next, CloseStep

(* writeMu and the places of its holders stay in step.                     *)
LEMMA LockStep == ProcOK /\ LockOK /\ [Next]_vars => LockOK'
<1> SUFFICES ASSUME ProcOK, LockOK, [Next]_vars PROVE LockOK'
  OBVIOUS
<1> USE TunnelTypes DEF ProcOK, Place, LockOK, Proc
<1>1. CASE UNCHANGED <<pc, want, job, mu>>
  BY <1>1
<1>2. ASSUME NEW p \in Proc, LockFrame(p) PROVE LockOK'
  BY <1>2 DEF LockFrame, Return, AfterError, Goto
<1>3. ASSUME NEW p \in Proc, FlushFrame(p) PROVE LockOK'
  BY <1>3 DEF FlushFrame, Return, AfterFrame, Goto
<1>4. ASSUME NEW p \in Proc, FlushFails(p) PROVE LockOK'
  BY <1>4 DEF FlushFails, Goto
<1>5. ASSUME NEW p \in Proc, CloseReturns(p) PROVE LockOK'
  BY <1>5 DEF CloseReturns, Closing, Return, AfterError, Goto
<1>6. ASSUME NEW w \in Writer, WritePacket(w) PROVE LockOK'
  BY <1>6 DEF WritePacket, Goto
<1>7. CASE Close
  BY <1>7 DEF Close, CallClose, Goto
<1>8. CASE ReadFrame
  BY <1>8 DEF ReadFrame, CallClose, Goto
<1>9. CASE ReadError
  BY <1>9 DEF ReadError, CallClose, Goto
<1>10. CASE PushPacket
  BY <1>10 DEF PushPacket, Goto
<1>11. CASE ReadPacket
  BY <1>11 DEF ReadPacket, CallClose, Goto
<1>12. CASE Heartbeat
  BY <1>12 DEF Heartbeat, Goto
<1>13. CASE HeartStops
  BY <1>13 DEF HeartStops, Goto
<1>14. ASSUME NEW p \in Proc, CloseStore(p) \/ CloseSignal(p) \/ CloseConn(p) PROVE LockOK'
  BY <1>1, <1>14 DEF CloseStore, CloseSignal, CloseConn
<1>15. CASE PeerSends \/ UpsertDone \/ PeerStall \/ Clock \/ UNCHANGED vars
  BY <1>1, <1>15 DEF PeerSends, UpsertDone, PeerStall, Clock, vars
<1>16. QED
  BY <1>2, <1>3, <1>4, <1>5, <1>6, <1>7, <1>8, <1>9, <1>10, <1>11, <1>12, <1>13, <1>14, <1>15
     DEF Next, CloseStep

(* The close protocol and the channels stay well formed. *)
LEMMA StateStep == ProcOK /\ StateOK /\ [Next]_vars => StateOK'
<1> USE TunnelTypes
<1> SUFFICES ASSUME ProcOK, StateOK, [Next]_vars PROVE StateOK'
  OBVIOUS
<1> DEFINE rest == <<inbox, dataCh, chClosed, got, stalled>>
<1>1. CASE UNCHANGED <<closing, rest>>
  BY <1>1 DEF StateOK, closing
<1>2. ASSUME NEW p \in Proc, CloseStore(p) PROVE StateOK'
  BY <1>2 DEF ProcOK, StateOK, CloseStore, Closing
<1>3. ASSUME NEW p \in Proc, CloseSignal(p) \/ CloseConn(p) PROVE StateOK'
  BY <1>3 DEF StateOK, CloseSignal, CloseConn
<1>4. ASSUME NEW p \in Proc, CloseReturns(p) PROVE StateOK'
  <2>1. chClosed' \in BOOLEAN
    BY <1>4, Zenon DEF StateOK, CloseReturns
  <2>2. QED
    BY <1>4, <2>1 DEF StateOK, CloseReturns, closing
<1>5. CASE PeerSends
  BY <1>5 DEF StateOK, PeerSends, closing
<1>6. CASE ReadFrame
  BY <1>6 DEF StateOK, ReadFrame, closing
<1>7. CASE PushPacket
  <2>1. chClosed' \in BOOLEAN
    BY <1>7, Zenon DEF StateOK, PushPacket
  <2>2. dataCh' \in 0..ChanCap
    BY <1>7 DEF StateOK, PushPacket
  <2>3. QED
    BY <1>7, <2>1, <2>2 DEF StateOK, PushPacket, closing
<1>8. CASE ReadPacket
  <2>1. got' \in Cause \cup {None}
    BY <1>8 DEF StateOK, ReadPacket, closeCauseOr, Cause
  <2>2. dataCh' \in 0..ChanCap
    BY <1>8 DEF StateOK, ReadPacket
  <2>3. QED
    BY <1>8, <2>1, <2>2 DEF StateOK, ReadPacket, closing
<1>9. CASE PeerStall
  BY <1>9 DEF StateOK, PeerStall, closing
<1>10. ASSUME NEW p \in Proc, LockFrame(p) \/ FlushFrame(p) \/ FlushFails(p) PROVE StateOK'
  BY <1>1, <1>10 DEF LockFrame, FlushFrame, FlushFails
<1>11. ASSUME NEW w \in Writer, WritePacket(w) PROVE StateOK'
  BY <1>1, <1>11 DEF WritePacket
<1>12. CASE Close \/ ReadError \/ Heartbeat \/ HeartStops \/ UpsertDone \/ Clock
  BY <1>1, <1>12 DEF Close, ReadError, Heartbeat, HeartStops, UpsertDone, Clock
<1>13. CASE UNCHANGED vars
  BY <1>1, <1>13 DEF vars
<1>14. QED
  BY <1>2, <1>3, <1>4, <1>5, <1>6, <1>7, <1>8, <1>9, <1>10, <1>11, <1>12, <1>13
     DEF Next, CloseStep

(* So do the ages. *)
LEMMA ClockStep == ClockOK /\ [Next]_vars => ClockOK'
<1> USE TunnelTypes, HeartbeatPositive
<1> SUFFICES ASSUME ClockOK, [Next]_vars PROVE ClockOK'
  OBVIOUS
<1>1. CASE UNCHANGED clock
  BY <1>1 DEF ClockOK, clock, upsert
<1>2. ASSUME NEW p \in Proc, FlushFrame(p) PROVE ClockOK'
  BY <1>2 DEF ClockOK, FlushFrame, upsert, OutBound
<1>3. CASE ReadFrame
  BY <1>3 DEF ClockOK, ReadFrame, upsert, InBound
<1>4. CASE Heartbeat
  <2>1. refreshing' \in BOOLEAN /\ tick' \in BOOLEAN
    BY <1>4, Zenon DEF ClockOK, Heartbeat, RefreshDue
  <2>2. upAge' \in 0..UpsertTimeout
    BY <1>4 DEF ClockOK, Heartbeat
  <2>3. QED
    BY <1>4, <2>1, <2>2 DEF ClockOK, Heartbeat
<1>5. CASE UpsertDone
  <2>1. refreshing' \in BOOLEAN /\ upFailed' \in BOOLEAN
    BY <1>5, Zenon DEF ClockOK, UpsertDone
  <2>2. refAge' \in 0..RefreshBound + 1 /\ upAge' \in 0..UpsertTimeout
    BY <1>5 DEF ClockOK, UpsertDone, RefreshBound
  <2>3. QED
    BY <1>5, <2>1, <2>2 DEF ClockOK, UpsertDone
<1>6. CASE Clock
  <2>1. tick' \in BOOLEAN
    BY <1>6, Zenon DEF ClockOK, Clock
  <2>2. inAge' \in 0..InBound + 1
    BY <1>6 DEF ClockOK, Clock, Older, InBound
  <2>3. outAge' \in 0..OutBound + 1
    BY <1>6 DEF ClockOK, Clock, Older, OutBound
  <2>4. refAge' \in 0..RefreshBound + 1
    BY <1>6 DEF ClockOK, Clock, Older, RefreshBound
  <2>5. upAge' \in 0..UpsertTimeout /\ phase' \in 0..hb - 1
    BY <1>6 DEF ClockOK, Clock
  <2>6. QED
    BY <1>6, <2>1, <2>2, <2>3, <2>4, <2>5 DEF ClockOK, Clock
<1>7. ASSUME NEW p \in Proc, LockFrame(p) \/ FlushFails(p) \/ CloseStep(p) PROVE ClockOK'
  BY <1>1, <1>7 DEF LockFrame, FlushFails, CloseStep, CloseStore, CloseSignal,
     CloseConn, CloseReturns
<1>8. ASSUME NEW w \in Writer, WritePacket(w) PROVE ClockOK'
  BY <1>1, <1>8 DEF WritePacket
<1>9. CASE Close \/ PeerSends \/ ReadError \/ PushPacket \/ ReadPacket \/ HeartStops \/ PeerStall
  BY <1>1, <1>9 DEF Close, PeerSends, ReadError, PushPacket, ReadPacket, HeartStops,
     PeerStall
<1>10. CASE UNCHANGED vars
  BY <1>1, <1>10 DEF vars
<1>11. QED
  BY <1>2, <1>3, <1>4, <1>5, <1>6, <1>7, <1>8, <1>9, <1>10 DEF Next

(* newTunnel starts well formed.                                           *)
LEMMA InitTypeOK == Init => TypeOK
<1> SUFFICES ASSUME Init PROVE TypeOK
  OBVIOUS
<1> USE TunnelTypes, HeartbeatPositive
<1>1. ProcOK
  BY DEF Init, ProcOK, Place
<1>2. StateOK
  <2>1. chClosed \in BOOLEAN /\ stalled \in BOOLEAN
    BY Zenon DEF Init
  <2>2. QED
    BY <2>1 DEF Init, StateOK
<1>3. ClockOK
  <2>1. tick \in BOOLEAN /\ refreshing \in BOOLEAN /\ upFailed \in BOOLEAN
    BY Zenon DEF Init
  <2>2. QED
    BY <2>1 DEF Init, ClockOK, InBound, OutBound, RefreshBound
<1>4. LockOK
  BY DEF Init, LockOK, Proc
<1>5. QED
  BY <1>1, <1>2, <1>3, <1>4 DEF TypeOK

(* Any step keeps the types.                                               *)
LEMMA TypeStep == TypeOK /\ [Next]_vars => TypeOK'
  BY ProcStep, LockStep, StateStep, ClockStep DEF TypeOK

(* writeFrame and closeWithErr: whatever the interleaving of readLoop,     *)
(* heartbeatLoop and the callers, every variable keeps its type, dataCh    *)
(* its capacity, and writeMu is held exactly by the goroutine that writes  *)
(* a frame or closes after a failed write.                                 *)
THEOREM TunnelTypeCorrect == Spec => []TypeOK
<1>1. Init => TypeOK
  BY InitTypeOK
<1>2. TypeOK /\ [Next]_vars => TypeOK'
  BY TypeStep
<1>3. QED
  BY <1>1, <1>2, PTL DEF Spec

(***************************************************************************)
(* CauseReported: an error is only returned after closeCh is closed, and   *)
(* by then the cause is stored for good.                                   *)
(***************************************************************************)
CauseInv ==
    /\ chClosed => Signalled
    /\ got # None => Signalled
    /\ CauseReported

(* Every step keeps it.                                                    *)
LEMMA CauseStep == TypeOK /\ CauseInv /\ [Next]_vars => CauseInv'
<1> SUFFICES ASSUME TypeOK, CauseInv, [Next]_vars PROVE CauseInv'
  OBVIOUS
<1> USE DEF CauseInv, CauseReported, Signalled
<1>1. CASE UNCHANGED <<closing, chClosed, got>>
  BY <1>1 DEF closing
<1>2. ASSUME NEW p \in Proc, CloseStore(p) PROVE CauseInv'
  BY <1>2 DEF CloseStore
<1>3. ASSUME NEW p \in Proc, CloseSignal(p) \/ CloseConn(p) PROVE CauseInv'
  BY <1>3 DEF CloseSignal, CloseConn
<1>4. ASSUME NEW p \in Proc, CloseReturns(p) PROVE CauseInv'
  BY <1>4 DEF CloseReturns, closing
<1>5. CASE PushPacket
  BY <1>5 DEF PushPacket, closing
<1>6. CASE ReadPacket
  BY <1>6 DEF ReadPacket, closing, closeCauseOr
<1>7. ASSUME NEW p \in Proc, LockFrame(p) \/ FlushFrame(p) \/ FlushFails(p) PROVE CauseInv'
  BY <1>1, <1>7 DEF LockFrame, FlushFrame, FlushFails
<1>8. ASSUME NEW w \in Writer, WritePacket(w) PROVE CauseInv'
  BY <1>1, <1>8 DEF WritePacket
<1>9. CASE Close \/ PeerSends \/ ReadFrame \/ ReadError \/ Heartbeat \/ HeartStops
           \/ UpsertDone \/ PeerStall \/ Clock
  BY <1>1, <1>9 DEF Close, PeerSends, ReadFrame, ReadError, Heartbeat, HeartStops,
     UpsertDone, PeerStall, Clock
<1>10. CASE UNCHANGED vars
  BY <1>1, <1>10 DEF vars
<1>11. QED
  BY <1>2, <1>3, <1>4, <1>5, <1>6, <1>7, <1>8, <1>9, <1>10 DEF Next, CloseStep

(* closeWithErr, ReadPacket: pumpTunnel learns the cause of the one        *)
(* effective close, whichever select case woke it.                         *)
THEOREM CauseIsReported == Spec => []CauseReported
<1>1. Init => CauseInv
  BY DEF Init, CauseInv, CauseReported
<1>2. TypeOK /\ CauseInv /\ [Next]_vars => CauseInv'
  BY CauseStep
<1>3. CauseInv => CauseReported
  BY DEF CauseInv
<1>4. QED
  BY <1>1, <1>2, <1>3, TunnelTypeCorrect, PTL DEF Spec

(***************************************************************************)
(* Timing, under Prompt.  Steps that touch no clock are Quiet: they never  *)
(* reopen the tunnel or the peer, and as long as it is open they do not    *)
(* bring the heartbeat back to its ticker.                                 *)
(***************************************************************************)
Quiet ==
    /\ UNCHANGED <<job, clock>>
    /\ stage' = "open" => stage = "open"
    /\ stalled => stalled'
    /\ stage' = "open" =>
        /\ pc'[Heart] = "wait" <=> pc[Heart] = "wait"
        /\ pc'[Heart] \in {"lock", "write"} => pc[Heart] \in {"lock", "write"}

(* Only a flush, a read, a tick, an Upsert and time itself are not Quiet.  *)
LEMMA MostAreQuiet ==
    TypeOK /\ [Next /\ Prompt]_vars =>
        \/ \E p \in Proc : FlushFrame(p)
        \/ ReadFrame \/ Heartbeat \/ UpsertDone \/ (Clock /\ Prompt)
        \/ Quiet
<1> SUFFICES ASSUME TypeOK, [Next /\ Prompt]_vars,
                    \A p \in Proc : ~FlushFrame(p),
                    ~ReadFrame, ~Heartbeat, ~UpsertDone, ~(Clock /\ Prompt)
             PROVE Quiet
  OBVIOUS
<1> USE TunnelTypes DEF TypeOK, ProcOK, StateOK, Quiet, Proc, closing, Goto
<1>1. ASSUME NEW p \in Proc, LockFrame(p) PROVE Quiet
  BY <1>1 DEF LockFrame, Signalled, Return, AfterError
<1>2. ASSUME NEW p \in Proc, FlushFails(p) PROVE Quiet
  BY <1>2 DEF FlushFails
<1>3. ASSUME NEW p \in Proc, CloseStore(p) \/ CloseSignal(p) \/ CloseConn(p) PROVE Quiet
  BY <1>3 DEF CloseStore, CloseSignal, CloseConn
<1>4. ASSUME NEW p \in Proc, CloseReturns(p) PROVE Quiet
  BY <1>4 DEF CloseReturns
<1>5. ASSUME NEW w \in Writer, WritePacket(w) PROVE Quiet
  BY <1>5 DEF WritePacket
<1>6. CASE Close
  BY <1>6 DEF Close, CallClose
<1>7. CASE PeerSends
  BY <1>7 DEF PeerSends
<1>8. CASE ReadError
  BY <1>8 DEF ReadError, CallClose
<1>9. CASE PushPacket
  BY <1>9 DEF PushPacket
<1>10. CASE ReadPacket
  BY <1>10 DEF ReadPacket, CallClose
<1>11. CASE HeartStops
  BY <1>11 DEF HeartStops, Signalled
<1>12. CASE PeerStall
  BY <1>12 DEF PeerStall
<1>13. CASE UNCHANGED vars
  BY <1>13 DEF vars
<1>14. QED
  BY <1>1, <1>2, <1>3, <1>4, <1>5, <1>6, <1>7, <1>8, <1>9, <1>10, <1>11, <1>12, <1>13
     DEF Next, CloseStep

(* Prompt: on a conn that is read, time passes only while the heartbeat    *)
(* waits for its ticker.                                                   *)
LEMMA TimeWaits ==
    ASSUME TypeOK, Clock, Prompt, ~stalled
    PROVE  pc[Heart] = "wait" /\ ~tick
<1> USE HeartbeatPositive
<1>1. phase' # phase
  BY DEF TypeOK, ClockOK, Clock
<1>2. QED
  BY <1>1 DEF Prompt, HeartWaits

(* FlushFrame brings the heartbeat back only from a DPD.                   *)
LEMMA FlushHeart ==
    ASSUME TypeOK, NEW p \in Proc, FlushFrame(p)
    PROVE  /\ pc'[Heart] = "wait" =>
                pc[Heart] = "wait" \/ (pc[Heart] = "write" /\ job = "dpd")
           /\ pc[Heart] = "wait" => pc'[Heart] = "wait"
           /\ pc'[Heart] \in {"lock", "write"} => pc[Heart] \in {"lock", "write"}
  BY TunnelTypes DEF TypeOK, ProcOK, FlushFrame, Return, AfterFrame, Goto, Proc

(* OutboundFresh: between ticks the silence grows with the phase.          *)
OutInv ==
    (stage = "open" /\ ~stalled) =>
        /\ (pc[Heart] = "wait" /\ ~tick) => outAge < hb + phase
        /\ outAge < 2 * hb

(* Every step keeps it.                                                    *)
LEMMA OutStep == TypeOK /\ OutInv /\ [Next /\ Prompt]_vars => OutInv'
<1> SUFFICES ASSUME TypeOK, OutInv, [Next /\ Prompt]_vars,
                    stage' = "open", ~stalled'
             PROVE /\ (pc'[Heart] = "wait" /\ ~tick') => outAge' < hb + phase'
                   /\ outAge' < 2 * hb
  BY HeartbeatPositive DEF OutInv
<1> USE HeartbeatPositive, TunnelTypes DEF TypeOK, ProcOK, ClockOK, OutInv
<1>1. ASSUME NEW p \in Proc, FlushFrame(p) PROVE outAge' = 0 /\ phase' = phase
  BY <1>1 DEF FlushFrame
<1>2. CASE ReadFrame
  BY <1>2 DEF ReadFrame, closing, CallClose, Goto, Proc
<1>3. CASE Heartbeat
  BY <1>3 DEF Heartbeat, DPDDue, closing, Goto, Proc
<1>4. CASE UpsertDone
  BY <1>4 DEF UpsertDone, closing
<1>5. CASE Clock /\ Prompt
  <2>1. pc[Heart] = "wait" /\ ~tick /\ outAge < hb + phase
    BY <1>5, TimeWaits DEF Clock
  <2>2. outAge' <= outAge + 1
    BY <1>5 DEF Clock, Older
  <2>3. phase' = phase + 1 \/ (phase + 1 = hb /\ tick')
    BY <1>5 DEF Clock
  <2>4. outAge' \in Int /\ outAge' < 2 * hb
    BY <1>5, <2>1, <2>2 DEF Clock, Older, OutBound
  <2>5. QED
    BY <2>1, <2>2, <2>3, <2>4
<1>6. CASE Quiet
  BY <1>6 DEF Quiet, clock
<1>7. QED
  BY <1>1, <1>2, <1>3, <1>4, <1>5, <1>6, MostAreQuiet

(* TimedSpec keeps the types.                                              *)
LEMMA TimedTypeCorrect == TimedSpec => []TypeOK
<1>1. Init => TypeOK
  BY InitTypeOK
<1>2. TypeOK /\ [Next /\ Prompt]_vars => TypeOK'
  BY TypeStep
<1>3. QED
  BY <1>1, <1>2, PTL DEF TimedSpec

(* heartbeatLoop: while the peer reads, an open tunnel is never without an *)
(* outbound frame for two heartbeats, whatever the configured intervals.   *)
LEMMA OutboundAlwaysFresh == TimedSpec => []OutboundFresh
<1>1. Init => OutInv
  BY HeartbeatPositive DEF Init, OutInv
<1>2. TypeOK /\ OutInv /\ [Next /\ Prompt]_vars => OutInv'
  BY OutStep
<1>3. OutInv => OutboundFresh
  BY DEF OutInv, OutboundFresh, OutBound
<1>4. QED
  BY <1>1, <1>2, <1>3, TimedTypeCorrect, PTL DEF TimedSpec

(* SilenceBounded: a heartbeat on its way to a DPD has just seen a peer    *)
(* within the timeout.                                                     *)
InInv ==
    (stage = "open" /\ ~stalled /\ Idle > 0) =>
        /\ (pc[Heart] = "wait" /\ ~tick) => inAge <= Idle + phase
        /\ (pc[Heart] \in {"lock", "write"} /\ job = "dpd") => inAge <= Idle
        /\ inAge <= Idle + hb

(* Every step keeps it.                                                    *)
LEMMA InStep == TypeOK /\ InInv /\ [Next /\ Prompt]_vars => InInv'
<1> SUFFICES ASSUME TypeOK, InInv, [Next /\ Prompt]_vars,
                    stage' = "open", ~stalled', Idle > 0
             PROVE /\ (pc'[Heart] = "wait" /\ ~tick') => inAge' <= Idle + phase'
                   /\ (pc'[Heart] \in {"lock", "write"} /\ job' = "dpd") => inAge' <= Idle
                   /\ inAge' <= Idle + hb
  BY HeartbeatPositive DEF InInv
<1> USE HeartbeatPositive, TunnelTypes DEF TypeOK, ProcOK, ClockOK, InInv
<1>1. ASSUME NEW p \in Proc, FlushFrame(p)
      PROVE /\ (pc'[Heart] = "wait" /\ ~tick') => inAge' <= Idle + phase'
            /\ (pc'[Heart] \in {"lock", "write"} /\ job' = "dpd") => inAge' <= Idle
            /\ inAge' <= Idle + hb
  BY <1>1, FlushHeart DEF FlushFrame, closing
<1>2. CASE ReadFrame
  BY <1>2 DEF ReadFrame
<1>3. CASE Heartbeat
  BY <1>3 DEF Heartbeat, InboundIdle, closing, Goto, Proc
<1>4. CASE UpsertDone
  BY <1>4 DEF UpsertDone, closing
<1>5. CASE Clock /\ Prompt
  <2>1. pc[Heart] = "wait" /\ ~tick /\ inAge <= Idle + phase
    BY <1>5, TimeWaits DEF Clock
  <2>2. inAge' <= inAge + 1 /\ inAge' \in Int
    BY <1>5 DEF Clock, Older, InBound
  <2>3. phase' = phase + 1 \/ (phase + 1 = hb /\ tick')
    BY <1>5 DEF Clock
  <2>4. pc'[Heart] = "wait"
    BY <1>5, <2>1 DEF Clock
  <2>5. QED
    BY <2>1, <2>2, <2>3, <2>4
<1>6. CASE Quiet
  BY <1>6 DEF Quiet, clock
<1>7. QED
  BY <1>1, <1>2, <1>3, <1>4, <1>5, <1>6, MostAreQuiet

(* heartbeatLoop's idle timeout: a silent peer that reads loses its tunnel *)
(* at most one heartbeat after the configured timeout.                     *)
LEMMA SilenceIsBounded == TimedSpec => []SilenceBounded
<1>1. Init => InInv
  BY HeartbeatPositive, TunnelTypes DEF Init, InInv
<1>2. TypeOK /\ InInv /\ [Next /\ Prompt]_vars => InInv'
  BY InStep
<1>3. InInv => SilenceBounded
  BY DEF InInv, SilenceBounded, InBound
<1>4. QED
  BY <1>1, <1>2, <1>3, TimedTypeCorrect, PTL DEF TimedSpec

(* heartbeatLoop: while the peer reads, the tunnel speaks at least every   *)
(* two heartbeats and gives up on a silent peer at most one heartbeat      *)
(* late, whatever the configured intervals.                                *)
THEOREM KeepAliveHolds == TimedSpec => []KeepAlive
BY OutboundAlwaysFresh, SilenceIsBounded, PTL DEF KeepAlive

(* BindingFresh: with no Upsert in flight the age grows with the phase,    *)
(* and a heartbeat that left its ticker found no refresh due; with one in  *)
(* flight it grows with the age of the Upsert.                             *)
RefInv ==
    (stage = "open" /\ ~stalled /\ ~upFailed /\ Refresh > 0) =>
        /\ ~refreshing =>
            /\ (pc[Heart] = "wait" /\ ~tick) => refAge < Refresh + phase
            /\ (pc[Heart] = "wait" /\ tick) => refAge < Refresh + hb
            /\ pc[Heart] # "wait" => refAge < Refresh
        /\ refreshing => refAge < Refresh + hb + upAge

(* A tunnel without an Assoc never ages its binding.                       *)
NoRefresh == Refresh = 0 => refAge = 0

(* Every step keeps it.                                                    *)
LEMMA NoRefreshStep == NoRefresh /\ [Next /\ Prompt]_vars => NoRefresh'
<1> SUFFICES ASSUME NoRefresh, [Next /\ Prompt]_vars, Refresh = 0 PROVE refAge' = 0
  BY DEF NoRefresh
<1>1. refAge = 0
  BY DEF NoRefresh
<1>2. ASSUME NEW p \in Proc, LockFrame(p) \/ FlushFrame(p) \/ FlushFails(p) \/ CloseStep(p)
      PROVE refAge' = 0
  BY <1>1, <1>2 DEF LockFrame, FlushFrame, FlushFails, CloseStep, CloseStore, CloseSignal,
     CloseConn, CloseReturns, clock, upsert
<1>3. ASSUME NEW w \in Writer, WritePacket(w) PROVE refAge' = 0
  BY <1>1, <1>3 DEF WritePacket, clock, upsert
<1>4. CASE Close \/ PeerSends \/ ReadFrame \/ ReadError \/ PushPacket \/ ReadPacket
           \/ Heartbeat \/ HeartStops \/ PeerStall \/ UpsertDone
  BY <1>1, <1>4 DEF Close, PeerSends, ReadFrame, ReadError, PushPacket, ReadPacket,
     Heartbeat, HeartStops, PeerStall, UpsertDone, clock, upsert
<1>5. CASE Clock
  BY <1>5 DEF Clock
<1>6. CASE UNCHANGED vars
  BY <1>1, <1>6 DEF vars, clock, upsert
<1>7. QED
  BY <1>2, <1>3, <1>4, <1>5, <1>6 DEF Next

(* Every step keeps the bound.                                             *)
LEMMA RefStep == TypeOK /\ RefInv /\ [Next /\ Prompt]_vars => RefInv'
<1> SUFFICES ASSUME TypeOK, RefInv, [Next /\ Prompt]_vars,
                    stage' = "open", ~stalled', ~upFailed', Refresh > 0
             PROVE RefInv'
  BY DEF RefInv
<1> USE HeartbeatPositive, TunnelTypes DEF TypeOK, ProcOK, ClockOK, RefInv
<1>1. ASSUME NEW p \in Proc, FlushFrame(p) PROVE RefInv'
  BY <1>1, FlushHeart DEF FlushFrame, closing, upsert
<1>2. CASE ReadFrame
  <2>1. pc'[Heart] = pc[Heart]
    BY <1>2 DEF ReadFrame, CallClose, Goto, Proc
  <2>2. QED
    BY <1>2, <2>1 DEF ReadFrame, closing, upsert
<1>3. CASE Heartbeat
  <2>1. CASE refreshing
    <3>1. refreshing' /\ upAge' = upAge /\ refAge' = refAge
      BY <1>3, <2>1, Zenon DEF Heartbeat, RefreshDue
    <3>2. QED
      BY <1>3, <2>1, <3>1 DEF Heartbeat, closing
  <2>2. CASE ~refreshing /\ refAge >= Refresh
    <3>1. RefreshDue
      BY <2>2 DEF RefreshDue
    <3>2. refreshing' /\ upAge' = 0 /\ refAge' = refAge
      BY <1>3, <3>1, Zenon DEF Heartbeat
    <3>3. QED
      BY <1>3, <2>2, <3>2 DEF Heartbeat, closing
  <2>3. CASE ~refreshing /\ ~(refAge >= Refresh)
    <3>1. ~refreshing' /\ refAge' = refAge
      BY <1>3, <2>3, Zenon DEF Heartbeat, RefreshDue
    <3>2. refAge' < Refresh /\ phase' = phase
      BY <1>3, <2>3 DEF Heartbeat
    <3>3. QED
      BY <3>1, <3>2
  <2>4. QED
    BY <2>1, <2>2, <2>3
<1>4. CASE UpsertDone
  BY <1>4 DEF UpsertDone, closing
<1>5. CASE Clock /\ Prompt
  <2>1. /\ pc[Heart] = "wait" /\ ~tick
        /\ ~refreshing => refAge < Refresh + phase
        /\ refreshing => refAge < Refresh + hb + upAge
    BY <1>5, TimeWaits DEF Clock
  <2>2. refAge' <= refAge + 1 /\ refAge' \in Int
    BY <1>5 DEF Clock, Older, RefreshBound
  <2>3. phase' = phase + 1 \/ (phase + 1 = hb /\ tick')
    BY <1>5 DEF Clock
  <2>4. pc'[Heart] = "wait" /\ refreshing' = refreshing
    BY <1>5, <2>1 DEF Clock
  <2>5. refreshing => upAge' = upAge + 1
    BY <1>5 DEF Clock
  <2>6. QED
    BY <1>5, <2>1, <2>2, <2>3, <2>4, <2>5 DEF Clock
<1>6. CASE Quiet
  BY <1>6 DEF Quiet, clock, upsert
<1>7. QED
  BY <1>1, <1>2, <1>3, <1>4, <1>5, <1>6, MostAreQuiet

(* maybeRefreshDTLSBinding: while the peer reads and Upsert succeeds, the  *)
(* binding of an open tunnel is younger than its refresh interval, a       *)
(* heartbeat and the Upsert timeout together.                              *)
THEOREM BindingStaysFresh == TimedSpec => []BindingFresh
<1>1. Init => RefInv /\ NoRefresh
  BY HeartbeatPositive, TunnelTypes DEF Init, RefInv, NoRefresh
<1>2. TypeOK /\ RefInv /\ [Next /\ Prompt]_vars => RefInv'
  BY RefStep
<1>3. NoRefresh /\ [Next /\ Prompt]_vars => NoRefresh'
  BY NoRefreshStep
<1>4. TypeOK /\ RefInv /\ NoRefresh => BindingFresh
  BY HeartbeatPositive, TunnelTypes
     DEF RefInv, NoRefresh, BindingFresh, RefreshBound, TypeOK, ClockOK
<1>5. QED
  BY <1>1, <1>2, <1>3, <1>4, TimedTypeCorrect, PTL DEF TimedSpec
=============================================================================
