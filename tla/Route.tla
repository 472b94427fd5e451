------------------------------- MODULE Route -------------------------------
(***************************************************************************)
(* Qualification of the order route: before any strategy may buy, the      *)
(* service must see an order of its own echoed on the order socket that is *)
(* connected now.  The main loop of serve_session (service.py) spends a    *)
(* small, durable allowance of one-lot probe orders for it                 *)
(* (RouteQualifier, route.py), sells a probe that was filled by surprise,  *)
(* and also accepts the exit of a managed position as proof.               *)
(*                                                                         *)
(* One trading day.  Orders go through OrderManager and are reconciled     *)
(* (module Oms); here one action, Reconcile, stands for a whole            *)
(* reconciliation, as ClearIsTrue and ClosedIsSettled of Oms allow.        *)
(***************************************************************************)
EXTENDS Integers, FiniteSets

CONSTANTS
  Probes,       \* identities of probe orders
  Sales,        \* identities of the orders that sell a filled probe
  Exits,        \* identities of the orders that sell a managed position
  NoOrder,
  Cost,         \* Cost[p]: the reserved debit of probe p
  MaxAttempts,  \* probe_max_attempts_per_session
  DebitCap,     \* probe_entry_debit_cap_per_session
  MaxEpochs,    \* bound: connections of the order socket
  MaxIncidents  \* bound: crashes, failed calls, grants and the cutoff

Orders == Probes \cup Sales \cup Exits
Witnesses == Probes \cup Exits   \* the orders that may prove the route

ASSUME ConstantsAssumption ==
  /\ IsFiniteSet(Orders) /\ NoOrder \notin Orders
  /\ Probes \cap Sales = {} /\ Probes \cap Exits = {} /\ Sales \cap Exits = {}
  /\ Cost \in [Probes -> Nat]
  /\ {MaxAttempts, DebitCap, MaxEpochs, MaxIncidents} \subseteq Nat

VARIABLES
  conn,      \* the order socket: its state and its epoch
  echoed,    \* echoed[o]: the latest order event of o and its epoch
  seen,      \* the order events received in this epoch
  verified,  \* status.broker_route_verified
  failed,    \* route_failed_epochs
  job,       \* what the main loop awaits
  fresh,     \* account_refresh.fresh
  bk,        \* bk[o]: the order at the broker
  sent,      \* history: the connection in which o was posted (0: in none)
  led,       \* led[o]: the intent's state in the ledger
  made,      \* made[o]: the connection in which the intent was created
  meta,      \* metadata route_probe: epoch and intent of the latest probe
  attempts,  \* counter probe.attempts
  debit,     \* counter probe.debit
  extra,     \* the operator's extra attempt, granted or not
  position,  \* the managed position
  open,      \* window, arming, calendar and clock admit a probe or an entry
  tried,     \* history: the epochs in which a qualification was started
  incidents

memVars == <<echoed, seen, verified, failed, job, fresh>>
probeVars == <<meta, attempts, debit>>
vars == <<conn, memVars, bk, sent, led, made, probeVars, extra, position, open,
          tried, incidents>>

----------------------------------------------------------------------------
(* Vocabulary *)

Ended == {"TRADED", "CANCELLED", "REJECTED"}
Closed == {"FILLED", "CANCELLED", "REJECTED", "ABORTED"}
Pending == {o \in Orders : led[o] \notin Closed \cup {"none"}}

Unheard == [ep |-> 0, st |-> "none"]
Up == conn.st = "up"

\* The connection an order posted or an intent created now belongs to.
Here == IF Up THEN conn.n ELSE 0

IdleJob == [pc |-> "idle", o |-> NoOrder, ep |-> 0, attempts |-> 0, debit |-> 0]
Idle == job.pc = "idle"

\* What an answer or an event about order o may say: where the order is, or
\* (it left earlier) that it is live.
Statuses(o) == IF bk[o] \in {"none", "wire", "lost"} THEN {} ELSE {"live", bk[o]}

\* lifecycle_totals("route-probe").
Bought == {p \in Probes : led[p] = "FILLED"}
Sold == {s \in Sales : led[s] = "FILLED"}
ProbeNet == Cardinality(Bought) - Cardinality(Sold)
ProbesResolved == Pending \cap (Probes \cup Sales) = {}

Limit == MaxAttempts + extra

----------------------------------------------------------------------------
(* The broker and the exchange *)

Reach(o) ==
  /\ bk[o] = "wire"
  /\ \E st \in {"live", "REJECTED", "lost"} : bk' = [bk EXCEPT ![o] = st]
  /\ UNCHANGED <<conn, memVars, sent, led, made, probeVars, extra, position,
                 open, tried, incidents>>

End(o) ==
  /\ bk[o] = "live"
  /\ \E st \in Ended : bk' = [bk EXCEPT ![o] = st]
  /\ UNCHANGED <<conn, memVars, sent, led, made, probeVars, extra, position,
                 open, tried, incidents>>

----------------------------------------------------------------------------
(* The order socket *)

\* order_connect: a new epoch.
Connect ==
  /\ ~Up /\ conn.n < MaxEpochs
  /\ conn' = [st |-> "up", n |-> conn.n + 1]
  /\ seen' = {}
  /\ fresh' = FALSE
  /\ UNCHANGED <<echoed, verified, failed, job, bk, sent, led, made, probeVars,
                 extra, position, open, tried, incidents>>

\* order_disconnect.  Frames already queued are still processed afterwards.
Disconnect ==
  /\ Up
  /\ conn' = [conn EXCEPT !.st = "draining"]
  /\ verified' = FALSE
  /\ echoed' = [o \in Witnesses |-> Unheard]
  /\ fresh' = FALSE
  /\ UNCHANGED <<seen, failed, job, bk, sent, led, made, probeVars, extra,
                 position, open, tried, incidents>>

\* record_order: an event, in any order and any number of times.  An event not
\* seen in this epoch makes the account snapshot stale.
Echo(o) ==
  /\ conn.st # "down" /\ o \in Witnesses
  /\ \E st \in Statuses(o) :
       /\ echoed' = [echoed EXCEPT ![o] = [ep |-> conn.n, st |-> st]]
       /\ seen' = seen \cup {<<o, st>>}
       /\ fresh' = (fresh /\ <<o, st>> \in seen)
  /\ UNCHANGED <<conn, verified, failed, job, bk, sent, led, made, probeVars,
                 extra, position, open, tried, incidents>>

\* The same for the sale of a probe, whose events nobody looks up.
EchoSale(o) ==
  /\ conn.st # "down" /\ o \in Sales
  /\ fresh /\ Statuses(o) # {}
  /\ fresh' = FALSE
  /\ UNCHANGED <<conn, echoed, seen, verified, failed, job, bk, sent, led, made,
                 probeVars, extra, position, open, tried, incidents>>

----------------------------------------------------------------------------
(* Proof of the route, at the head of a main-loop iteration *)

\* Mutant: the epoch of the probe is not compared.
ProbeProofAnyEpoch ==
  /\ Up /\ meta.o # NoOrder
  /\ led[meta.o] \in {"FILLED", "CANCELLED"}
  /\ echoed[meta.o].ep = conn.n
  /\ echoed[meta.o].st \in {"live", "TRADED", "CANCELLED"}
  /\ ProbesResolved /\ ProbeNet = 0

\* The latest probe was echoed in this epoch, its order was not rejected, and
\* nothing of the probes is open.
ProbeProof ==
  /\ Up /\ meta.ep = conn.n /\ meta.o # NoOrder
  /\ led[meta.o] \in {"FILLED", "CANCELLED"}
  /\ echoed[meta.o].ep = conn.n
  /\ echoed[meta.o].st \in {"live", "TRADED", "CANCELLED"}
  /\ ProbesResolved /\ ProbeNet = 0

\* Mutant: an exit from before the connection counts.
ExitProofAnyAge ==
  /\ Up /\ fresh
  /\ \E e \in Exits : /\ led[e] = "FILLED"
                      /\ echoed[e].ep = conn.n
                      /\ echoed[e].st \in {"TRADED", "CANCELLED"}

\* managed_exit_route: the filled sale of a managed position, submitted and
\* echoed since the socket connected.
ExitProof ==
  /\ Up /\ fresh
  /\ \E e \in Exits : /\ made[e] = conn.n
                      /\ led[e] = "FILLED"
                      /\ echoed[e].ep = conn.n
                      /\ echoed[e].st \in {"TRADED", "CANCELLED"}

Verify ==
  /\ Idle /\ ~verified
  /\ ProbeProof \/ ExitProof
  /\ verified' = TRUE
  /\ UNCHANGED <<conn, echoed, seen, failed, job, fresh, bk, sent, led, made,
                 probeVars, extra, position, open, tried, incidents>>

----------------------------------------------------------------------------
(* A probe *)

\* Mutant: as before the repair of 15 October, a failed epoch stays failed.
NeverResolved == FALSE

\* rejected_probe_resolved.
RejectedProbeResolved ==
  /\ meta.ep = conn.n /\ meta.o # NoOrder
  /\ led[meta.o] = "REJECTED"
  /\ ProbesResolved /\ ProbeNet = 0

\* Mutant: a sale of unknown outcome does not hold the next one back.
MustSellUnresolved == ProbeNet > 0

\* A filled probe is sold before anything else is considered.
MustSell == ProbeNet > 0 /\ ProbesResolved

\* Mutant: an unresolved order does not hold a probe back.
MayProbePending(p) ==
  /\ open /\ fresh /\ ~verified /\ Up
  /\ position # "held"
  /\ conn.n \in failed => RejectedProbeResolved
  /\ attempts < Limit
  /\ debit + Cost[p] <= DebitCap

\* may_probe and the budgets that choose the contract and start qualify.
MayProbe(p) ==
  /\ open /\ fresh /\ ~verified /\ Up
  /\ position # "held" /\ Pending = {}
  /\ conn.n \in failed => RejectedProbeResolved
  /\ attempts < Limit
  /\ debit + Cost[p] <= DebitCap

QualifyStart(p) ==
  /\ Idle /\ led[p] = "none"
  /\ ~MustSell /\ ~ProbeProof /\ ~ExitProof
  /\ MayProbe(p)
  /\ job' = [pc |-> "reading", o |-> p, ep |-> conn.n,
             attempts |-> attempts, debit |-> debit]
  /\ tried' = tried \cup {conn.n}
  /\ UNCHANGED <<conn, echoed, seen, verified, failed, fresh, bk, sent, led,
                 made, probeVars, extra, position, open, incidents>>

Qualifying(p) == job.pc = "reading" /\ job.o = p /\ p \in Probes

\* Mutant: a late failure is booked on the connection that is current now.
FailEpochCurrent == failed' = failed \cup {conn.n}

\* The failure belongs to the epoch captured when the attempt began.
FailEpoch == failed' = failed \cup {job.ep}

\* funds() failed, or the cash does not cover the probe.
QualifyFailed(p) ==
  /\ Qualifying(p) /\ incidents < MaxIncidents
  /\ FailEpoch
  /\ job' = IdleJob
  /\ incidents' = incidents + 1
  /\ UNCHANGED <<conn, echoed, seen, verified, fresh, bk, sent, led, made,
                 probeVars, extra, position, open, tried>>

\* Mutant: the attempt is counted only when the broker has answered.
ReserveLate(p) ==
  /\ UNCHANGED <<attempts, debit>>
  /\ meta' = [ep |-> job.ep, o |-> p]

\* The counters and the metadata are durable before the intent exists.
Reserve(p) ==
  /\ attempts' = job.attempts + 1
  /\ debit' = job.debit + Cost[p]
  /\ meta' = [ep |-> job.ep, o |-> p]

Post(o) ==
  /\ led' = [led EXCEPT ![o] = "UNKNOWN"]
  /\ made' = [made EXCEPT ![o] = job.ep]
  /\ bk' = [bk EXCEPT ![o] = "wire"]
  /\ sent' = [sent EXCEPT ![o] = Here]
  /\ job' = [job EXCEPT !.pc = "posting"]
  /\ fresh' = FALSE

ProbeDispatch(p) ==
  /\ Qualifying(p)
  /\ Reserve(p)
  /\ Post(p)
  /\ UNCHANGED <<conn, echoed, seen, verified, failed, extra, position, open,
                 tried, incidents>>

\* No room in a rate window.
ProbeAborted(p) ==
  /\ Qualifying(p) /\ incidents < MaxIncidents
  /\ Reserve(p)
  /\ led' = [led EXCEPT ![p] = "ABORTED"]
  /\ FailEpoch
  /\ job' = IdleJob
  /\ incidents' = incidents + 1
  /\ UNCHANGED <<conn, echoed, seen, verified, fresh, bk, sent, made, extra,
                 position, open, tried>>

----------------------------------------------------------------------------
(* Sales: ExitManager.reduce, of a filled probe or of the managed position *)

MaySell(o) ==
  \/ o \in Sales /\ MustSell
  \/ /\ o \in Exits /\ ~MustSell
     /\ position = "held" /\ fresh /\ Pending = {}
     /\ \A e \in Exits : led[e] # "FILLED"

SellStart(o) ==
  /\ Idle /\ led[o] = "none"
  /\ MaySell(o)
  /\ job' = [IdleJob EXCEPT !.pc = "reading", !.o = o, !.ep = Here]
  /\ UNCHANGED <<conn, echoed, seen, verified, failed, fresh, bk, sent, led,
                 made, probeVars, extra, position, open, tried, incidents>>

Selling(o) == job.pc = "reading" /\ job.o = o /\ o \notin Probes

SellDispatch(o) ==
  /\ Selling(o)
  /\ Post(o)
  /\ UNCHANGED <<conn, echoed, seen, verified, failed, probeVars, extra,
                 position, open, tried, incidents>>

\* submit raised: the loop invalidates the account snapshot.
SellFailed(o) ==
  /\ Selling(o) /\ incidents < MaxIncidents
  /\ \E st \in {"none", "ABORTED"} : led' = [led EXCEPT ![o] = st]
  /\ job' = IdleJob
  /\ fresh' = FALSE
  /\ incidents' = incidents + 1
  /\ UNCHANGED <<conn, echoed, seen, verified, failed, bk, sent, made,
                 probeVars, extra, position, open, tried>>

----------------------------------------------------------------------------
(* The answer to a POST *)

Posting(o) == job.pc = "posting" /\ job.o = o

\* The broker names the order.  A probe that is answered REJECTED has failed.
Acked(o) ==
  /\ Posting(o)
  /\ \E st \in Statuses(o) :
       IF o \in Probes /\ st = "REJECTED" THEN FailEpoch ELSE UNCHANGED failed
  /\ led' = [led EXCEPT ![o] = "SENT"]
  /\ job' = IdleJob
  /\ fresh' = FALSE
  /\ UNCHANGED <<conn, echoed, seen, verified, bk, sent, made, probeVars, extra,
                 position, open, tried, incidents>>

\* Timeout or HTTP error: the order may exist, or may still come to exist.
Unknown(o) ==
  /\ Posting(o)
  /\ IF o \in Probes THEN FailEpoch ELSE UNCHANGED failed
  /\ job' = IdleJob
  /\ fresh' = FALSE
  /\ UNCHANGED <<conn, echoed, seen, verified, bk, sent, led, made, probeVars,
                 extra, position, open, tried, incidents>>

----------------------------------------------------------------------------
(* Account refresh and the strategy engines *)

\* Mutant: the broker's word for the state is kept.
SettledRaw(o) == IF bk[o] \in Ended THEN bk[o] ELSE led[o]

Settled(o) ==
  IF led[o] = "PENDING" THEN "ABORTED"
  ELSE IF led[o] \in {"UNKNOWN", "SENT"} /\ bk[o] \in Ended
       THEN IF bk[o] = "TRADED" THEN "FILLED" ELSE bk[o]
       ELSE led[o]

\* A complete reconciliation: submit holds order_lock except while qualify
\* awaits funds().
Reconcile ==
  /\ Idle \/ \E p \in Probes : Qualifying(p)
  /\ led' = [o \in Orders |-> Settled(o)]
  /\ fresh' = TRUE
  /\ UNCHANGED <<conn, echoed, seen, verified, failed, job, bk, sent, made,
                 probeVars, extra, position, open, tried, incidents>>

\* The snapshot grew old, or a read failed.
Stale ==
  /\ fresh /\ incidents < MaxIncidents
  /\ fresh' = FALSE
  /\ incidents' = incidents + 1
  /\ UNCHANGED <<conn, echoed, seen, verified, failed, job, bk, sent, led, made,
                 probeVars, extra, position, open, tried>>

\* A strategy buys under permit_entry (the entry itself is Oms's business).
Enter ==
  /\ Idle /\ open /\ fresh /\ verified
  /\ position = "none" /\ Pending = {} /\ ~MustSell
  /\ position' = "held"
  /\ fresh' = FALSE
  /\ UNCHANGED <<conn, echoed, seen, verified, failed, job, bk, sent, led, made,
                 probeVars, extra, open, tried, incidents>>

\* The engine closes the lifecycle of a flat position.
CloseLifecycle ==
  /\ Idle /\ fresh /\ Pending = {}
  /\ position = "held" /\ \E e \in Exits : led[e] = "FILLED"
  /\ position' = "closed"
  /\ UNCHANGED <<conn, memVars, bk, sent, led, made, probeVars, extra, open,
                 tried, incidents>>

----------------------------------------------------------------------------
(* The operator, the clock and crashes *)

\* grant_extra_attempt: once a day.
Grant ==
  /\ extra = 0 /\ incidents < MaxIncidents
  /\ extra' = 1
  /\ incidents' = incidents + 1
  /\ UNCHANGED <<conn, memVars, bk, sent, led, made, probeVars, position, open,
                 tried>>

\* The qualification window ends, or the operator disarms.
Cutoff ==
  /\ open /\ incidents < MaxIncidents
  /\ open' = FALSE
  /\ incidents' = incidents + 1
  /\ UNCHANGED <<conn, memVars, bk, sent, led, made, probeVars, extra, position,
                 tried>>

\* A new process: memory is gone and the next epoch has a new process id.
Restart ==
  /\ incidents < MaxIncidents
  /\ incidents' = incidents + 1
  /\ conn' = [conn EXCEPT !.st = "down"]
  /\ echoed' = [o \in Witnesses |-> Unheard]
  /\ seen' = {} /\ failed' = {}
  /\ verified' = FALSE /\ fresh' = FALSE
  /\ job' = IdleJob

Crash ==
  /\ Restart
  /\ UNCHANGED <<bk, sent, led, made, probeVars, extra, position, open, tried>>

\* Between the transactions of qualify and submit: the attempt is counted;
\* then its debit; then the metadata name an intent that does not exist yet;
\* then the intent is PENDING_SEND.
CrashInReserve(p) ==
  /\ Qualifying(p)
  /\ Restart
  /\ attempts' = job.attempts + 1
  /\ \/ UNCHANGED <<debit, meta, led>>
     \/ debit' = job.debit + Cost[p] /\ UNCHANGED <<meta, led>>
     \/ /\ debit' = job.debit + Cost[p]
        /\ meta' = [ep |-> job.ep, o |-> NoOrder]
        /\ UNCHANGED led
     \/ /\ debit' = job.debit + Cost[p]
        /\ meta' = [ep |-> job.ep, o |-> p]
        /\ led' = [led EXCEPT ![p] = "PENDING"]
  /\ UNCHANGED <<bk, sent, made, extra, position, open, tried>>

----------------------------------------------------------------------------
Init ==
  /\ conn = [st |-> "down", n |-> 0]
  /\ echoed = [o \in Witnesses |-> Unheard]
  /\ seen = {} /\ failed = {} /\ tried = {}
  /\ verified = FALSE /\ fresh = FALSE
  /\ job = IdleJob
  /\ bk = [o \in Orders |-> "none"]
  /\ sent = [o \in Orders |-> 0]
  /\ led = [o \in Orders |-> "none"]
  /\ made = [o \in Orders |-> 0]
  /\ meta = [ep |-> 0, o |-> NoOrder]
  /\ attempts = 0 /\ debit = 0 /\ extra = 0 /\ incidents = 0
  /\ position = "none"
  /\ open = TRUE

SocketNext ==
  Connect \/ Disconnect \/ \E o \in Orders : Echo(o) \/ EchoSale(o)

BrokerNext == \E o \in Orders : Reach(o) \/ End(o)

ProbeNext ==
  \E p \in Probes :
    QualifyStart(p) \/ QualifyFailed(p) \/ ProbeDispatch(p) \/ ProbeAborted(p)

SellNext ==
  \E o \in Sales \cup Exits : SellStart(o) \/ SellDispatch(o) \/ SellFailed(o)

AnswerNext == \E o \in Orders : Acked(o) \/ Unknown(o)

EngineNext == Verify \/ Reconcile \/ Stale \/ Enter \/ CloseLifecycle

OutsideNext ==
  Grant \/ Cutoff \/ Crash \/ \E p \in Probes : CrashInReserve(p)

Next == SocketNext \/ BrokerNext \/ ProbeNext \/ SellNext \/ AnswerNext
          \/ EngineNext \/ OutsideNext

Spec == Init /\ [][Next]_vars

\* The main loop and the refresh loop keep running and every HTTP call ends;
\* a liquid contract for a probe is assumed to exist.  Connections, events,
\* entries and incidents are never owed.
Fairness ==
  /\ WF_vars(Verify) /\ WF_vars(Reconcile)
  /\ WF_vars(\E p \in Probes : QualifyStart(p))
  /\ WF_vars(\E p \in Probes : ProbeDispatch(p) \/ ProbeAborted(p))
  /\ WF_vars(\E o \in Orders : SellStart(o))
  /\ WF_vars(\E o \in Orders : SellDispatch(o) \/ SellFailed(o))
  /\ WF_vars(AnswerNext)
  /\ WF_vars(BrokerNext)

FairSpec == Spec /\ Fairness

----------------------------------------------------------------------------
(* Properties *)

Epochs == 0..MaxEpochs
Events == [ep : Epochs, st : {"none", "live"} \cup Ended]
Jobs == [pc : {"idle", "reading", "posting"}, o : Orders \cup {NoOrder},
         ep : Epochs, attempts : Nat, debit : Nat]
Probed == [ep : Epochs, o : Probes \cup {NoOrder}]

TypeOK ==
  /\ conn \in [st : {"down", "up", "draining"}, n : Epochs]
  /\ echoed \in [Witnesses -> Events]
  /\ seen \subseteq Witnesses \X ({"live"} \cup Ended)
  /\ verified \in BOOLEAN /\ fresh \in BOOLEAN /\ open \in BOOLEAN
  /\ failed \subseteq Epochs /\ tried \subseteq Epochs
  /\ job \in Jobs /\ meta \in Probed
  /\ bk \in [Orders -> {"none", "wire", "lost", "live"} \cup Ended]
  /\ led \in [Orders -> {"none", "PENDING", "UNKNOWN", "SENT"} \cup Closed]
  /\ sent \in [Orders -> Epochs] /\ made \in [Orders -> Epochs]
  /\ attempts \in Nat /\ debit \in Nat /\ extra \in {0, 1} /\ incidents \in Nat
  /\ position \in {"none", "held", "closed"}

\* The route counts as verified only while the socket is connected that an
\* order of ours, posted in this very connection and not rejected, came back
\* on; a proof never outlives a reconnect, a queued frame of the old socket, or
\* a reply that arrives late (service.py 633-640 and 515-522, route.py
\* 102-121).
VerifiedIsCurrent ==
  verified => /\ Up
              /\ \E o \in Probes \cup Exits :
                   /\ sent[o] = conn.n
                   /\ bk[o] \in {"TRADED", "CANCELLED"}

\* Across crashes, reconnects, late answers and the operator's grant, the
\* probes ever posted stay within the attempts and the money of the day, and
\* the durable counter never says less than was posted (route.py 136-163).
Posted == {p \in Probes : bk[p] # "none"}
AllowanceHolds ==
  /\ Cardinality(Posted) <= attempts
  /\ attempts <= Limit
  /\ debit <= DebitCap

\* What was reserved for the day is never given back, and a probe is posted
\* only with its own debit reserved (route.py 143-152).
PaidFor ==
  /\ debit' >= debit
  /\ \A p \in Posted' \ Posted : /\ Posted' = Posted \cup {p}
                                 /\ debit' >= debit + Cost[p]

\* A probe can be executed only when the account is otherwise flat and quiet:
\* no earlier order of unknown outcome may still execute, no lot of an earlier
\* probe and no managed position is held ("SEND_UNKNOWN, never an excuse for
\* another probe POST"; service.py 648, orders.py 150-152).
ProbeAlone ==
  \A p \in Probes : bk[p] \in {"wire", "live"} =>
    /\ \A o \in Orders \ {p} : bk[o] \notin {"wire", "live"}
    /\ Cardinality({q \in Probes : bk[q] = "TRADED"})
         = Cardinality({s \in Sales : bk[s] = "TRADED"})
    /\ position # "held"

\* All of it, at every moment of both connections (route.py 136-163,
\* service.py 648).
ProbesAreSafe == [](AllowanceHolds /\ ProbeAlone) /\ [][PaidFor]_vars

\* A probe that was filled is never sold twice (service.py 627-632).
ProbeNotShort ==
  Cardinality({s \in Sales : bk[s] \in {"wire", "live", "TRADED"}})
    <= Cardinality({p \in Probes : bk[p] = "TRADED"})

\* An idle, connected, unverified epoch with allowance left that has not been
\* tried, or whose last probe was definitely rejected, gets its probe: neither
\* a rejection nor a late failure of the previous connection strands the
\* allowance (service.py 643-647 and 663-670, route.py 46-65).
Waiting(e) ==
  /\ conn = [st |-> "up", n |-> e]
  /\ ~verified /\ open
  /\ position # "held" /\ Pending = {} /\ ProbeNet = 0
  /\ attempts < Limit
  /\ \E p \in Probes : led[p] = "none" /\ debit + Cost[p] <= DebitCap
  /\ \/ e \notin tried
     \/ meta.ep = e /\ meta.o # NoOrder /\ led[meta.o] = "REJECTED"
AllowanceIsUsed == \A e \in 1..MaxEpochs : Waiting(e) ~> ~Waiting(e)

\* "After cutoff, no new qualification probe is sent" (BUILD-DEPLOY-PLAN.md
\* 264).  The loop tests the window before qualify awaits funds(), and qualify
\* passes no pre_dispatch to submit (service.py 648, route.py 154-163).
NoProbeAfterCutoff == [][~open => Posted' = Posted]_vars
=============================================================================
