---------------------------- MODULE DeviceLookup ----------------------------
(***************************************************************************)
(* What internal/iam promises the callers of Resolver.Resolve: an error, or*)
(* what TPM said of the device at a moment that is neither too long ago    *)
(* nor before an answer somebody already had when the call was made.       *)
(* How the answer is found (cache, single flight, retries) is Resolver's   *)
(* business.                                                               *)
(***************************************************************************)
EXTENDS Integers

CONSTANTS
    Caller, Device,        \* concurrent calls, device ids
    Doc,                \* what TPM may say of a device
    Outcome(_, _),      \* what Resolve makes of it
    Upstream,           \* the outcome ErrUpstream
    None,
    Bound               \* the oldest an answer may be

VARIABLES
    now,
    tpm,        \* TPM's present fact on each device: version and document
    log,        \* every fact with every time at which it was TPM's
    seen,       \* the newest version told to anybody
    asked,      \* the device a caller waits for
    floor,      \* seen when it called
    got         \* the last outcome it was told

vars == <<now, tpm, log, seen, asked, floor, got>>

Init ==
    /\ now = 0
    /\ \E f \in [Device -> Doc] :
        /\ tpm = [d \in Device |-> [ver |-> 0, doc |-> f[d]]]
        /\ log = [d \in Device |-> {[ver |-> 0, doc |-> f[d], at |-> 0]}]
    /\ seen = [d \in Device |-> 0]
    /\ asked = [c \in Caller |-> None]
    /\ floor = [c \in Caller |-> 0]
    /\ got = [c \in Caller |-> None]

Call(c, d) ==
    /\ asked[c] = None
    /\ asked' = [asked EXCEPT ![c] = d]
    /\ floor' = [floor EXCEPT ![c] = seen[d]]
    /\ got' = [got EXCEPT ![c] = None]
    /\ UNCHANGED <<now, tpm, log, seen>>

Tell(S, d, out) ==
    /\ S # {} /\ \A c \in S : asked[c] = d
    /\ asked' = [c \in Caller |-> IF c \in S THEN None ELSE asked[c]]
    /\ got' = [c \in Caller |-> IF c \in S THEN out ELSE got[c]]
    /\ floor' = [c \in Caller |-> IF c \in S THEN 0 ELSE floor[c]]
    /\ UNCHANGED <<now, tpm, log>>

TellFact(S, d, f) ==
    /\ f.at >= now - Bound
    /\ \A c \in S : floor[c] <= f.ver
    /\ Outcome(d, f.doc) # Upstream
    /\ Tell(S, d, Outcome(d, f.doc))
    /\ seen' = [seen EXCEPT ![d] = IF f.ver > @ THEN f.ver ELSE @]

TellError(S, d) == Tell(S, d, Upstream) /\ UNCHANGED seen

Change(d, doc) ==
    /\ tpm' = [tpm EXCEPT ![d] = [ver |-> @.ver + 1, doc |-> doc]]
    /\ log' = [log EXCEPT ![d] =
        @ \cup {[ver |-> tpm[d].ver + 1, doc |-> doc, at |-> now]}]
    /\ UNCHANGED <<now, seen, asked, floor, got>>

Tick ==
    /\ now' = now + 1
    /\ log' = [d \in Device |->
        log[d] \cup {[ver |-> tpm[d].ver, doc |-> tpm[d].doc, at |-> now + 1]}]
    /\ UNCHANGED <<tpm, seen, asked, floor, got>>

Next ==
    \/ \E c \in Caller, d \in Device : Call(c, d)
    \/ \E S \in SUBSET Caller, d \in Device :
        TellError(S, d) \/ \E f \in log[d] : TellFact(S, d, f)
    \/ \E d \in Device, doc \in Doc : Change(d, doc)
    \/ Tick

Spec == Init /\ [][Next]_vars
=============================================================================
