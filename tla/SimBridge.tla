------------------------------ MODULE SimBridge ------------------------------
(***************************************************************************)
(* Who talks to the simulator host, and when.  Short-lived pipe clients    *)
(* (probe, preflight, OFP inject, the start of Watch, its reopening) take  *)
(* a FIFO gate in turn; Watch keeps a client of its own between ticks.     *)
(*                                                                         *)
(* A client object that finds its socket gone opens a new one on its next  *)
(* call (ensureOpen), whoever holds the gate by then; closing an object    *)
(* whose socket is still connecting closes nothing.                        *)
(*                                                                         *)
(* What is read, and how long backoffs last, is left out.                  *)
(***************************************************************************)
EXTENDS Naturals, Sequences

CONSTANTS
    Readers,       \* probe and preflight requests; one at a time of each
    Inject,        \* the OFP inject; withOfpLoadExclusive lets one run
    Start, Tick, Stop,  \* Watch: start(), tick(), POST /api/watch/stop
    Bridges,       \* bound: pipe clients of Watch that exist at once
    NoBridge,
    MaxReads,      \* bound: calls of one session after its open()
    MaxDrops       \* bound: times the host closes a pipe in a behaviour

ASSUME BridgeAssumption ==
    /\ Inject \notin Readers
    /\ {Start, Tick, Stop} \cap (Readers \cup {Inject}) = {}
    /\ Start # Tick /\ Start # Stop /\ Tick # Stop
    /\ Bridges \cap (Readers \cup {Inject}) = {}
    /\ NoBridge \notin Bridges
    /\ {MaxReads, MaxDrops} \subseteq Nat

Short == Readers \cup {Inject}
Clients == Short \cup Bridges
Gated == Short \cup {Start, Tick}
Actors == Gated \cup {Stop}

Pcs == {"idle", "asked", "queued", "opening", "reading",  \* a short client
        "stopping",                                       \* waits for a tick
        "loading", "settling",                            \* Watch start
        "pinging", "resetting", "renewing",               \* Watch tick
        "reopening", "sampling", "failed"}

VARIABLES
    gate,          \* who waits for the gate; the first one holds it
    pipe,          \* socket of each client object
    pc, left,      \* where each actor is, and how many calls it has left
    held,          \* the client object a start or a tick works with
    running, bridge, timer,  \* Watch: running, this.bridge, a tick is armed
    bound,         \* Watch has a mission
    stale,         \* startEpoch moved since the start in flight began
    injecting,     \* isOfpLoadActive()
    wanted,        \* history: the last request for Watch was a start
    drops

vars == <<gate, pipe, pc, left, held, running, bridge, timer, bound, stale,
          injecting, wanted, drops>>
watch == <<running, bridge, timer, bound, stale, wanted>>

Init ==
    /\ gate = <<>>
    /\ pipe = [c \in Clients |-> "closed"]
    /\ pc = [a \in Actors |-> "idle"]
    /\ left = [a \in Actors |-> 0]
    /\ held = [a \in {Start, Tick} |-> NoBridge]
    /\ running = FALSE /\ bridge = NoBridge /\ timer = FALSE /\ bound = FALSE
    /\ stale = FALSE /\ wanted = FALSE
    /\ injecting = FALSE
    /\ drops = 0
-----------------------------------------------------------------------------
(* The gate and the pipe.                                                  *)

Goes(a, to) == pc' = [pc EXCEPT ![a] = to]
Enqueued(a) == gate' = Append(gate, a)
Holds(a) == gate # <<>> /\ Head(gate) = a
Released == gate' = Tail(gate)

\* close(): an open socket is destroyed, a connecting one is not known yet.
Closed(c) ==
    [pipe EXCEPT ![c] = IF @ = "open" THEN "closed" ELSE @]

\* ensureOpen(): a call on a socket that is gone first opens another.
Calling(c) ==
    [pipe EXCEPT ![c] = IF @ = "closed" THEN "connecting" ELSE @]

ConnectEnds(c, to) ==
    /\ pipe[c] = "connecting"
    /\ pipe' = [pipe EXCEPT ![c] = to]
    /\ UNCHANGED <<gate, pc, left, held, watch, injecting, drops>>

\* A client connects, or fails to within connectTimeoutMs.
Connect(c) == ConnectEnds(c, "open") \/ ConnectEnds(c, "closed")

\* The host closes a pipe.
Drop(c) ==
    /\ drops < MaxDrops
    /\ pipe[c] = "open"
    /\ pipe' = [pipe EXCEPT ![c] = "closed"]
    /\ drops' = drops + 1
    /\ UNCHANGED <<gate, pc, left, held, watch, injecting>>
-----------------------------------------------------------------------------
(* Short clients.                                                          *)

\* A probe or a preflight is admitted; a preflight fetches the OFP first.
Ask(r) ==
    /\ pc[r] = "idle"
    /\ ~injecting /\ ~running
    /\ Goes(r, "asked")
    /\ UNCHANGED <<gate, pipe, left, held, watch, injecting, drops>>

\* Mutant: a client that waits asks again.
EnqueueAgain(a) ==
    /\ pc[a] \in {"asked", "queued"}
    /\ Goes(a, "queued")
    /\ Enqueued(a)
    /\ UNCHANGED <<pipe, left, held, watch, injecting, drops>>

Enqueue(a) ==
    /\ pc[a] = "asked"
    /\ Goes(a, "queued")
    /\ Enqueued(a)
    /\ UNCHANGED <<pipe, left, held, watch, injecting, drops>>

Open(a) ==
    /\ pc[a] = "queued" /\ Holds(a)
    /\ Goes(a, "opening")
    /\ pipe' = [pipe EXCEPT ![a] = "connecting"]
    /\ left' = [left EXCEPT ![a] = MaxReads]
    /\ UNCHANGED <<gate, held, watch, injecting, drops>>

Opened(a) ==
    /\ pc[a] = "opening" /\ pipe[a] = "open"
    /\ Goes(a, "reading")
    /\ UNCHANGED <<gate, pipe, left, held, watch, injecting, drops>>

\* The next call, whether the one before was answered or its failure swallowed.
Read(a) ==
    /\ pc[a] = "reading" /\ left[a] > 0
    /\ pipe[a] # "connecting"
    /\ left' = [left EXCEPT ![a] = @ - 1]
    /\ pipe' = Calling(a)
    /\ UNCHANGED <<gate, pc, held, watch, injecting, drops>>

\* The reader's budget runs out under a call.
Budget(r) ==
    /\ pc[r] \in {"opening", "reading"} /\ pipe[r] = "open"
    /\ pipe' = Closed(r)
    /\ UNCHANGED <<gate, pc, left, held, watch, injecting, drops>>

\* Mutant: the gate is released and the socket left to the collector.
FinishLeavesSocket(a) ==
    /\ pc[a] \in {"opening", "reading"} /\ pipe[a] # "connecting"
    /\ Goes(a, "idle")
    /\ Released
    /\ left' = [left EXCEPT ![a] = 0]
    /\ injecting' = (injecting /\ a # Inject)
    /\ UNCHANGED <<pipe, held, watch, drops>>

\* The session ends, with its answer or with the first error it does not
\* swallow: the gate is released and the socket closed.
Finish(a) ==
    /\ pc[a] \in {"opening", "reading"} /\ pipe[a] # "connecting"
    /\ Goes(a, "idle")
    /\ pipe' = Closed(a)
    /\ Released
    /\ left' = [left EXCEPT ![a] = 0]
    /\ injecting' = (injecting /\ a # Inject)
    /\ UNCHANGED <<held, watch, drops>>
-----------------------------------------------------------------------------
(* Watch: stopping.                                                        *)

\* What stop() does at once.
Stopped ==
    /\ running' = FALSE /\ timer' = FALSE /\ wanted' = FALSE
    /\ stale' = (pc[Start] # "idle")

\* What stop() does when the tick in flight has ended or 1.5 s are over, and the
\* mission's clock is saved.
Dismissed == pipe' = (IF bridge = NoBridge THEN pipe ELSE Closed(bridge))
             /\ bridge' = NoBridge

\* With no tick in flight and no mission there is nothing to wait for.
BeginStop ==
    /\ pc[Stop] = "idle"
    /\ Stopped
    /\ IF bound \/ pc[Tick] # "idle"
       THEN Goes(Stop, "stopping") /\ UNCHANGED <<pipe, bridge>>
       ELSE Dismissed /\ UNCHANGED pc
    /\ UNCHANGED <<gate, left, held, bound, injecting, drops>>

\* The wait holds no lock: a start that came after the stop may have gone on
\* meanwhile, and loses what it has set up.  With reset, the mission too.
EndStop ==
    /\ pc[Stop] = "stopping"
    /\ Dismissed
    /\ bound' \in {bound, FALSE}
    /\ Goes(Stop, "idle")
    /\ UNCHANGED <<gate, left, held, running, timer, wanted, stale, injecting, drops>>

\* A mission is accepted or cancelled while Watch does not run.
ForgetMission ==
    /\ ~running /\ bound
    /\ bound' = FALSE
    /\ UNCHANGED <<gate, pipe, pc, left, held, running, bridge, timer, stale,
                   wanted, injecting, drops>>

\* POST /api/load-ofp stops Watch if it runs, then asks for the OFP.
BeginInject ==
    /\ pc[Inject] = "idle" /\ ~injecting
    /\ injecting' = TRUE
    /\ IF running
       THEN Stopped /\ Goes(Inject, "stopping")
       ELSE Goes(Inject, "asked") /\ UNCHANGED <<running, timer, wanted, stale>>
    /\ UNCHANGED <<gate, pipe, left, held, bridge, bound, drops>>

InjectStopsWatch ==
    /\ pc[Inject] = "stopping"
    /\ Dismissed
    /\ Goes(Inject, "asked")
    /\ UNCHANGED <<gate, left, held, running, timer, bound, wanted, stale, injecting,
                   drops>>

\* Mutant: only the inject that reached the gate clears the flag.
InjectGivesUpFlagged ==
    /\ pc[Inject] = "asked"
    /\ Goes(Inject, "idle")
    /\ UNCHANGED <<gate, pipe, left, held, watch, injecting, drops>>

\* The OFP cannot be fetched.
InjectGivesUp ==
    /\ pc[Inject] = "asked"
    /\ Goes(Inject, "idle")
    /\ injecting' = FALSE
    /\ UNCHANGED <<gate, pipe, left, held, watch, drops>>
-----------------------------------------------------------------------------
(* Watch: starting.                                                        *)

\* A start for a new mission; Watch stops for it without outdating it.
BeginStart ==
    /\ pc[Start] = "idle" /\ ~injecting
    /\ running' = FALSE /\ timer' = FALSE
    /\ wanted' = TRUE /\ stale' = FALSE
    /\ Goes(Start, "stopping")
    /\ UNCHANGED <<gate, pipe, left, held, bridge, bound, injecting, drops>>

ClearForStart ==
    /\ pc[Start] = "stopping"
    /\ Dismissed
    /\ bound' = ~stale
    /\ Goes(Start, IF stale THEN "idle" ELSE "loading")
    /\ UNCHANGED <<gate, left, held, running, timer, wanted, stale, injecting, drops>>

LoadMission ==
    /\ pc[Start] = "loading"
    /\ Goes(Start, "queued")
    /\ Enqueued(Start)
    /\ UNCHANGED <<pipe, left, held, watch, injecting, drops>>

\* The mission is unknown, or over.
LoadFails ==
    /\ pc[Start] = "loading"
    /\ bound' = FALSE
    /\ Goes(Start, "idle")
    /\ UNCHANGED <<gate, pipe, left, held, running, bridge, timer, stale, wanted,
                   injecting, drops>>

\* A new client object; one that nobody refers to any more is forgotten, with
\* the socket it may still have.
OpenBridge(b) ==
    /\ pc[Start] = "queued" /\ Holds(Start)
    /\ pipe[b] # "connecting" /\ b \notin {bridge, held[Tick]}
    /\ pipe' = [pipe EXCEPT ![b] = "connecting"]
    /\ held' = [held EXCEPT ![Start] = b]
    /\ Goes(Start, "opening")
    /\ UNCHANGED <<gate, left, watch, injecting, drops>>

\* Mutant: only a start that opened releases the gate.
StartFailsHolding ==
    /\ pc[Start] = "opening" /\ pipe[held[Start]] # "connecting"
    /\ held' = [held EXCEPT ![Start] = NoBridge]
    /\ Goes(Start, "idle")
    /\ UNCHANGED <<gate, pipe, left, watch, injecting, drops>>

\* open() failed; a socket whose first call failed stays open.
StartFails ==
    /\ pc[Start] = "opening" /\ pipe[held[Start]] # "connecting"
    /\ Released
    /\ held' = [held EXCEPT ![Start] = NoBridge]
    /\ bound' = FALSE
    /\ Goes(Start, "idle")
    /\ UNCHANGED <<pipe, left, running, bridge, timer, stale, wanted, injecting,
                   drops>>

\* Mutant: the epoch is not compared again after the pipe opened.
StartOpenedAnyway ==
    /\ pc[Start] = "opening" /\ pipe[held[Start]] = "open"
    /\ Released
    /\ held' = [held EXCEPT ![Start] = NoBridge]
    /\ running' = TRUE /\ bridge' = held[Start]
    /\ Goes(Start, "settling")
    /\ UNCHANGED <<pipe, left, timer, bound, stale, wanted, injecting, drops>>

\* The gate is released and Watch runs, unless a stop came meanwhile.
StartOpened ==
    /\ pc[Start] = "opening" /\ pipe[held[Start]] = "open"
    /\ Released
    /\ held' = [held EXCEPT ![Start] = NoBridge]
    /\ IF stale
       THEN /\ pipe' = Closed(held[Start])
            /\ bound' = FALSE
            /\ Goes(Start, "idle")
            /\ UNCHANGED <<running, bridge>>
       ELSE /\ running' = TRUE /\ bridge' = held[Start]
            /\ Goes(Start, "settling")
            /\ UNCHANGED <<pipe, bound>>
    /\ UNCHANGED <<left, timer, stale, wanted, injecting, drops>>

\* After 400 ms the first tick is due; one still in flight arms the next.
StartSettled ==
    /\ pc[Start] = "settling"
    /\ IF stale
       THEN Stopped /\ Dismissed /\ bound' = FALSE
       ELSE /\ timer' = (timer \/ pc[Tick] = "idle")
            /\ UNCHANGED <<pipe, running, bridge, bound, stale, wanted>>
    /\ Goes(Start, "idle")
    /\ UNCHANGED <<gate, left, held, injecting, drops>>
-----------------------------------------------------------------------------
(* Watch: ticking.                                                         *)

\* A tick is due: it pings, or waits for the gate to open its pipe again, or
\* to renew the session when the tick before found it dead.  With nothing to
\* tick for it returns, and the timer is not armed again.
BeginTick ==
    /\ timer /\ pc[Tick] = "idle"
    /\ timer' = FALSE
    /\ IF running /\ bridge # NoBridge /\ bound
       THEN /\ ~injecting
            /\ \/ pipe[bridge] = "open" /\ Goes(Tick, "pinging") /\ UNCHANGED gate
               \/ Goes(Tick, "queued") /\ Enqueued(Tick)
       ELSE UNCHANGED <<gate, pc>>
    /\ UNCHANGED <<pipe, left, held, running, bridge, bound, stale, wanted, injecting,
                   drops>>

\* The host asks for a new session: the same pipe, under the gate, and a
\* failure that is swallowed like that of the ping.
PingResets ==
    /\ pc[Tick] = "pinging"
    /\ Goes(Tick, "resetting") /\ Enqueued(Tick)
    /\ UNCHANGED <<pipe, left, held, watch, injecting, drops>>

\* The first call of the sample is made.
Samples(b) ==
    /\ held' = [held EXCEPT ![Tick] = b]
    /\ left' = [left EXCEPT ![Tick] = MaxReads]
    /\ IF b = NoBridge
       THEN Goes(Tick, "failed") /\ UNCHANGED pipe
       ELSE Goes(Tick, "sampling") /\ pipe' = Calling(b)

\* The ping was answered, or its failure swallowed.
Pinged ==
    /\ pc[Tick] = "pinging"
    /\ Samples(bridge)
    /\ UNCHANGED <<gate, watch, injecting, drops>>

\* The gate is granted; this.bridge is whatever it is by now.
Reopen ==
    /\ pc[Tick] \in {"queued", "resetting"} /\ Holds(Tick)
    /\ held' = [held EXCEPT ![Tick] = bridge]
    /\ IF bridge = NoBridge
       THEN Released /\ Goes(Tick, "failed") /\ UNCHANGED pipe
       ELSE /\ Goes(Tick, IF pc[Tick] = "queued" THEN "reopening" ELSE "renewing")
            /\ pipe' = Calling(bridge)
            /\ UNCHANGED gate
    /\ UNCHANGED <<left, watch, injecting, drops>>

Reopened ==
    /\ pc[Tick] \in {"reopening", "renewing"} /\ pipe[held[Tick]] # "connecting"
    /\ Released
    /\ \/ pc[Tick] = "renewing" /\ Samples(bridge)
       \/ pc[Tick] = "reopening" /\ pipe[held[Tick]] = "open" /\ Samples(bridge)
       \/ pc[Tick] = "reopening" /\ Goes(Tick, "failed")
          /\ UNCHANGED <<pipe, left, held>>
    /\ UNCHANGED <<watch, injecting, drops>>

\* The next call of the sample, outside the gate; see Read.
Sample ==
    /\ pc[Tick] = "sampling" /\ left[Tick] > 0
    /\ pipe[held[Tick]] # "connecting"
    /\ left' = [left EXCEPT ![Tick] = @ - 1]
    /\ pipe' = Calling(held[Tick])
    /\ UNCHANGED <<gate, pc, held, watch, injecting, drops>>

TickOver ==
    /\ Goes(Tick, "idle")
    /\ held' = [held EXCEPT ![Tick] = NoBridge]
    /\ left' = [left EXCEPT ![Tick] = 0]

\* Mutant: a tick that failed leaves the next one to somebody else.
EndTickUnarmed ==
    /\ \/ pc[Tick] = "failed"
       \/ pc[Tick] = "sampling" /\ pipe[held[Tick]] # "connecting"
    /\ \/ UNCHANGED pipe
       \/ bridge # NoBridge /\ pipe' = Closed(bridge)
    /\ timer' = (running /\ pc[Tick] = "sampling")
    /\ TickOver
    /\ UNCHANGED <<gate, running, bridge, bound, stale, wanted, injecting, drops>>

\* The tick ends, arming the next one if Watch still runs; a failed one may
\* close Watch's pipe first.
EndTick ==
    /\ \/ pc[Tick] = "failed"
       \/ pc[Tick] = "sampling" /\ pipe[held[Tick]] # "connecting"
    /\ \/ UNCHANGED pipe
       \/ bridge # NoBridge /\ pipe' = Closed(bridge)
    /\ timer' = running
    /\ TickOver
    /\ UNCHANGED <<gate, running, bridge, bound, stale, wanted, injecting, drops>>

\* The mission is over: the tick stops Watch.
TickStops ==
    /\ pc[Tick] = "sampling" /\ pipe[held[Tick]] # "connecting"
    /\ running /\ ~injecting
    /\ Stopped /\ Dismissed
    /\ TickOver
    /\ UNCHANGED <<gate, bound, injecting, drops>>
-----------------------------------------------------------------------------
ShortStep(a) == Enqueue(a) \/ Open(a) \/ Opened(a) \/ Finish(a)

StartStep ==
    \/ ClearForStart \/ LoadMission \/ LoadFails \/ StartOpened \/ StartSettled \/ StartFails
    \/ \E b \in Bridges : OpenBridge(b)

TickStep ==
    \/ BeginTick \/ Pinged \/ Reopen \/ Reopened \/ EndTick

Next ==
    \/ \E c \in Clients : Connect(c) \/ Drop(c)
    \/ \E r \in Readers : Ask(r) \/ Budget(r)
    \/ \E a \in Short : ShortStep(a) \/ Read(a)
    \/ BeginStop \/ EndStop \/ ForgetMission
    \/ BeginInject \/ InjectStopsWatch \/ InjectGivesUp
    \/ BeginStart \/ StartStep
    \/ TickStep \/ PingResets \/ Sample \/ TickStops

Spec == Init /\ [][Next]_vars

\* Connections and calls time out, timers fire, and the event loop runs every
\* continuation in the end.
Fairness ==
    /\ \A c \in Clients : WF_vars(Connect(c))
    /\ \A a \in Short : WF_vars(ShortStep(a))
    /\ WF_vars(EndStop) /\ WF_vars(InjectStopsWatch)
    /\ WF_vars(StartStep) /\ WF_vars(TickStep)

FairSpec == Spec /\ Fairness
-----------------------------------------------------------------------------
(* Properties.                                                             *)

\* The gate is a line of distinct waiters and every actor is at a place of its
\* own code.
TypeOK ==
    /\ gate \in Seq(Gated)
    /\ \A i, j \in 1..Len(gate) : gate[i] = gate[j] => i = j
    /\ pipe \in [Clients -> {"closed", "connecting", "open"}]
    /\ pc \in [Actors -> Pcs]
    /\ left \in [Actors -> 0..MaxReads]
    /\ held \in [{Start, Tick} -> Bridges \cup {NoBridge}]
    /\ bridge \in Bridges \cup {NoBridge}
    /\ {running, timer, bound, stale, injecting, wanted} \subseteq BOOLEAN
    /\ drops \in 0..MaxDrops

\* No two clients that take the gate for one session have a pipe at once, also
\* when one of them opens its pipe again or is cut off by its budget.
\* (withSimBridgeExclusive)
ShortClientsAlone ==
    \A a, b \in Short :
        pipe[a] # "closed" /\ pipe[b] # "closed" => a = b

\* A start that was overtaken by a stop does not bring Watch back.
\* (startEpoch)
StoppedStaysStopped == running => wanted

Ticking == timer \/ pc[Tick] # "idle" \/ pc[Start] = "settling"

\* As long as nobody has taken its mission or its client object, a running
\* Watch has a tick in flight or due, whichever way the tick before ended.
\* (start, tick, stop)
RunningTicks == running /\ bound /\ bridge # NoBridge => Ticking

\* Everyone who waits for the gate gets it.
EveryoneServed ==
    \A a \in Gated :
        pc[a] \in {"queued", "resetting"} ~> pc[a] \notin {"queued", "resetting"}

\* An inject ends, and with it the pause it imposes on everyone else.
InjectEnds == injecting ~> ~injecting

-----------------------------------------------------------------------------
(* What the code says of itself and does not keep.                         *)

\* watch-helpers.ts:1971: a start for the mission that Watch runs for is skipped
\* even when the pipe is down, because reconnecting belongs to the ticks; so a
\* Watch that runs for a mission has ticks.
RunningReconnects == running /\ bound => Ticking

\* While the inject has the gate nobody else opens a pipe.
InjectOpensAlone ==
    pc[Inject] \in {"opening", "reading"} =>
        \A c \in Clients \ {Inject} : pipe[c] # "connecting"
=============================================================================
