----------------------------- MODULE RouteProofs -----------------------------
(***************************************************************************)
(* Proofs about Route, for any finite sets of probes and sales, any        *)
(* allowance, and any number of connections and incidents.                 *)
(***************************************************************************)
EXTENDS Route, FiniteSetTheorems, TLAPS

USE ConstantsAssumption DEF memVars, probeVars

----------------------------------------------------------------------------
(* Types *)

LEMMA SettledType ==
  ASSUME TypeOK, NEW o \in Orders
  PROVE  Settled(o) \in {"none", "PENDING", "UNKNOWN", "SENT"} \cup Closed
  BY DEF TypeOK, Settled, Ended, Closed

LEMMA JobTypes ==
  ASSUME TypeOK
  PROVE  /\ IdleJob \in Jobs
         /\ Here \in Epochs /\ conn.n \in Epochs /\ job.ep \in Epochs
         /\ job.attempts \in Nat /\ job.debit \in Nat
         /\ failed \cup {job.ep} \subseteq Epochs
         /\ [job EXCEPT !.pc = "posting"] \in Jobs
         /\ \A o \in Orders : [IdleJob EXCEPT !.pc = "reading", !.o = o, !.ep = Here] \in Jobs
         /\ \A o \in Orders :
              [pc |-> "reading", o |-> o, ep |-> conn.n, attempts |-> attempts,
               debit |-> debit] \in Jobs
  <1>1. 0 \in Epochs /\ 0 \in Nat BY DEF Epochs
  <1>2. conn.n \in Epochs /\ job \in Jobs /\ failed \subseteq Epochs
        /\ attempts \in Nat /\ debit \in Nat
    BY DEF TypeOK
  <1>3. Here \in Epochs BY <1>1, <1>2 DEF Here
  <1>4. job.ep \in Epochs /\ job.attempts \in Nat /\ job.debit \in Nat
    BY <1>2 DEF Jobs
  <1>5. IdleJob \in Jobs BY <1>1 DEF IdleJob, Jobs
  <1>6. [job EXCEPT !.pc = "posting"] \in Jobs BY <1>2 DEF Jobs
  <1>7. \A o \in Orders : [IdleJob EXCEPT !.pc = "reading", !.o = o, !.ep = Here] \in Jobs
    BY <1>3, <1>5 DEF Jobs
  <1>8. \A o \in Orders :
          [pc |-> "reading", o |-> o, ep |-> conn.n, attempts |-> attempts,
           debit |-> debit] \in Jobs
    BY <1>2 DEF Jobs
  <1> QED BY <1>2, <1>3, <1>4, <1>5, <1>6, <1>7, <1>8

LEMMA CountTypes ==
  ASSUME TypeOK
  PROVE  incidents + 1 \in Nat /\ attempts + 1 \in Nat
  BY DEF TypeOK

LEMMA UnheardType == [o \in Witnesses |-> Unheard] \in [Witnesses -> Events]
  BY DEF Unheard, Events, Epochs

LEMMA PostType ==
  ASSUME TypeOK, NEW o \in Orders, Post(o)
  PROVE  /\ led' \in [Orders -> {"none", "PENDING", "UNKNOWN", "SENT"} \cup Closed]
         /\ made' \in [Orders -> Epochs] /\ sent' \in [Orders -> Epochs]
         /\ bk' \in [Orders -> {"none", "wire", "lost", "live"} \cup Ended]
         /\ job' \in Jobs /\ fresh' = FALSE
  BY JobTypes DEF TypeOK, Post

LEMMA ReserveType ==
  ASSUME TypeOK, NEW p \in Probes
  PROVE  /\ job.attempts + 1 \in Nat /\ job.debit + Cost[p] \in Nat
         /\ [ep |-> job.ep, o |-> p] \in Probed
         /\ [ep |-> job.ep, o |-> NoOrder] \in Probed
  <1>1. job.ep \in Epochs /\ job.attempts \in Nat /\ job.debit \in Nat
    BY JobTypes
  <1>2. Cost[p] \in Nat OBVIOUS
  <1>3. job.attempts + 1 \in Nat /\ job.debit + Cost[p] \in Nat BY <1>1, <1>2
  <1> QED BY <1>1, <1>3 DEF Probed

LEMMA TypeInit == Init => TypeOK
  <1> SUFFICES ASSUME Init PROVE TypeOK OBVIOUS
  <1>1. 0 \in Epochs BY DEF Epochs
  <1>2. job \in Jobs BY <1>1 DEF Init, IdleJob, Jobs
  <1>3. meta \in Probed BY <1>1 DEF Init, Probed
  <1>4. conn \in [st : {"down", "up", "draining"}, n : Epochs]
    BY <1>1 DEF Init
  <1> QED BY <1>1, <1>2, <1>3, <1>4, UnheardType DEF Init, TypeOK

LEMMA TypeSocket == TypeOK /\ SocketNext => TypeOK'
  <1> SUFFICES ASSUME TypeOK, SocketNext PROVE TypeOK' OBVIOUS
  <1>1. CASE Connect
    <2>1. conn' \in [st : {"down", "up", "draining"}, n : Epochs]
      BY <1>1 DEF TypeOK, Connect, Up, Epochs
    <2> QED BY <1>1, <2>1 DEF TypeOK, Connect
  <1>2. CASE Disconnect BY <1>2, UnheardType DEF TypeOK, Disconnect
  <1>3. ASSUME NEW o \in Orders, Echo(o) PROVE TypeOK'
    <2>1. PICK st \in Statuses(o) :
            /\ echoed' = [echoed EXCEPT ![o] = [ep |-> conn.n, st |-> st]]
            /\ seen' = seen \cup {<<o, st>>}
            /\ fresh' = (fresh /\ <<o, st>> \in seen)
      BY <1>3 DEF Echo
    <2>2. o \in Witnesses BY <1>3 DEF Echo
    <2>3. st \in {"live"} \cup Ended BY <1>3 DEF TypeOK, Statuses
    <2>4. [ep |-> conn.n, st |-> st] \in Events BY <2>3, JobTypes DEF Events
    <2>5. echoed' \in [Witnesses -> Events] BY <2>1, <2>4 DEF TypeOK
    <2>6. seen' \subseteq Witnesses \X ({"live"} \cup Ended)
      BY <2>1, <2>2, <2>3 DEF TypeOK
    <2>7. fresh' \in BOOLEAN BY <2>1
    <2> QED BY <1>3, <2>5, <2>6, <2>7 DEF TypeOK, Echo
  <1>4. ASSUME NEW o \in Orders, EchoSale(o) PROVE TypeOK'
    BY <1>4 DEF TypeOK, EchoSale
  <1> QED BY <1>1, <1>2, <1>3, <1>4 DEF SocketNext

LEMMA TypeBroker == TypeOK /\ BrokerNext => TypeOK'
  <1> SUFFICES ASSUME TypeOK, BrokerNext PROVE TypeOK' OBVIOUS
  <1>1. ASSUME NEW o \in Orders, Reach(o) PROVE TypeOK'
    BY <1>1 DEF TypeOK, Reach, Ended
  <1>2. ASSUME NEW o \in Orders, End(o) PROVE TypeOK'
    BY <1>2 DEF TypeOK, End
  <1> QED BY <1>1, <1>2 DEF BrokerNext

LEMMA TypeProbe == TypeOK /\ ProbeNext => TypeOK'
  <1> SUFFICES ASSUME TypeOK, NEW p \in Probes,
                      QualifyStart(p) \/ QualifyFailed(p) \/ ProbeDispatch(p) \/ ProbeAborted(p)
               PROVE  TypeOK'
    BY DEF ProbeNext
  <1>0. p \in Orders BY DEF Orders
  <1>1. CASE QualifyStart(p)
    BY <1>0, <1>1, JobTypes DEF TypeOK, QualifyStart
  <1>2. CASE QualifyFailed(p)
    BY <1>2, JobTypes, CountTypes DEF TypeOK, QualifyFailed, FailEpoch
  <1>3. CASE ProbeDispatch(p)
    BY <1>0, <1>3, PostType, ReserveType DEF TypeOK, ProbeDispatch, Reserve
  <1>4. CASE ProbeAborted(p)
    BY <1>0, <1>4, JobTypes, CountTypes, ReserveType
       DEF TypeOK, ProbeAborted, Reserve, FailEpoch, Closed
  <1> QED BY <1>1, <1>2, <1>3, <1>4

LEMMA TypeSell == TypeOK /\ SellNext => TypeOK'
  <1> SUFFICES ASSUME TypeOK, NEW o \in Sales \cup Exits,
                      SellStart(o) \/ SellDispatch(o) \/ SellFailed(o)
               PROVE  TypeOK'
    BY DEF SellNext
  <1>0. o \in Orders BY DEF Orders
  <1>1. CASE SellStart(o) BY <1>0, <1>1, JobTypes DEF TypeOK, SellStart
  <1>2. CASE SellDispatch(o) BY <1>0, <1>2, PostType DEF TypeOK, SellDispatch
  <1>3. CASE SellFailed(o)
    BY <1>0, <1>3, JobTypes, CountTypes DEF TypeOK, SellFailed, Closed
  <1> QED BY <1>1, <1>2, <1>3

LEMMA TypeAnswer == TypeOK /\ AnswerNext => TypeOK'
  <1> SUFFICES ASSUME TypeOK, NEW o \in Orders, Acked(o) \/ Unknown(o)
               PROVE  TypeOK'
    BY DEF AnswerNext
  <1>0. failed' \subseteq Epochs
    BY JobTypes DEF TypeOK, Acked, Unknown, FailEpoch
  <1>1. CASE Acked(o) BY <1>0, <1>1, JobTypes DEF TypeOK, Acked
  <1>2. CASE Unknown(o) BY <1>0, <1>2, JobTypes DEF TypeOK, Unknown
  <1> QED BY <1>1, <1>2

LEMMA TypeEngine == TypeOK /\ EngineNext => TypeOK'
  <1> SUFFICES ASSUME TypeOK, EngineNext PROVE TypeOK' OBVIOUS
  <1>1. CASE Verify BY <1>1 DEF TypeOK, Verify
  <1>2. CASE Reconcile BY <1>2, SettledType DEF TypeOK, Reconcile
  <1>3. CASE Stale BY <1>3, CountTypes DEF TypeOK, Stale
  <1>4. CASE Enter BY <1>4 DEF TypeOK, Enter
  <1>5. CASE CloseLifecycle BY <1>5 DEF TypeOK, CloseLifecycle
  <1> QED BY <1>1, <1>2, <1>3, <1>4, <1>5 DEF EngineNext

LEMMA TypeRestart ==
  ASSUME TypeOK, Restart
  PROVE  /\ conn' \in [st : {"down", "up", "draining"}, n : Epochs]
         /\ echoed' \in [Witnesses -> Events]
         /\ seen' = {} /\ failed' = {}
         /\ verified' = FALSE /\ fresh' = FALSE
         /\ job' \in Jobs /\ incidents' \in Nat
  BY JobTypes, CountTypes, UnheardType DEF TypeOK, Restart

LEMMA TypeOutside == TypeOK /\ OutsideNext => TypeOK'
  <1> SUFFICES ASSUME TypeOK, OutsideNext PROVE TypeOK' OBVIOUS
  <1>1. CASE Grant BY <1>1, CountTypes DEF TypeOK, Grant
  <1>2. CASE Cutoff BY <1>2, CountTypes DEF TypeOK, Cutoff
  <1>3. CASE Crash BY <1>3, TypeRestart DEF TypeOK, Crash
  <1>4. ASSUME NEW p \in Probes, CrashInReserve(p) PROVE TypeOK'
    <2>1. /\ Restart /\ UNCHANGED <<bk, sent, made, extra, position, open, tried>>
          /\ attempts' = job.attempts + 1
          /\ debit' \in {debit, job.debit + Cost[p]}
          /\ meta' \in {meta, [ep |-> job.ep, o |-> p], [ep |-> job.ep, o |-> NoOrder]}
          /\ led' \in {led, [led EXCEPT ![p] = "PENDING"]}
      BY <1>4 DEF CrashInReserve
    <2>2. led' \in [Orders -> {"none", "PENDING", "UNKNOWN", "SENT"} \cup Closed]
      BY <2>1 DEF TypeOK
    <2>3. attempts' \in Nat /\ debit' \in Nat /\ meta' \in Probed
      BY <2>1, ReserveType DEF TypeOK
    <2> QED BY <2>1, <2>2, <2>3, TypeRestart DEF TypeOK
  <1> QED BY <1>1, <1>2, <1>3, <1>4 DEF OutsideNext

LEMMA TypeStep == TypeOK /\ [Next]_vars => TypeOK'
  <1> SUFFICES ASSUME TypeOK, [Next]_vars PROVE TypeOK' OBVIOUS
  <1>1. CASE UNCHANGED vars BY <1>1 DEF TypeOK, vars
  <1> QED BY <1>1, TypeSocket, TypeBroker, TypeProbe, TypeSell, TypeAnswer, TypeEngine,
             TypeOutside DEF Next

----------------------------------------------------------------------------
(* The inductive invariant *)

Executable(o) == bk[o] \in {"wire", "live"}
Working(o) == bk[o] \in {"wire", "live", "TRADED"}
TradedProbes == {p \in Probes : bk[p] = "TRADED"}
TradedSales == {s \in Sales : bk[s] = "TRADED"}

\* Nothing carries the epoch of a connection that is still to come.
EpochInv ==
  /\ Up => conn.n >= 1
  /\ job.ep <= conn.n /\ meta.ep <= conn.n
  /\ \A o \in Orders : made[o] <= conn.n

\* The order the main loop works on has not been sent, or was just sent.
JobInv ==
  /\ ~Idle => job.o \in Orders
  /\ job.pc = "reading" => led[job.o] = "none"
  /\ job.pc = "posting" => led[job.o] = "UNKNOWN"

\* The ledger says of no order what the broker would deny.
LedgerIsTrue ==
  \A o \in Orders :
    /\ bk[o] = "none" <=> led[o] \in {"none", "PENDING", "ABORTED"}
    /\ led[o] = "FILLED" => bk[o] = "TRADED"
    /\ led[o] \in {"CANCELLED", "REJECTED"} => bk[o] = led[o]

\* A witness that carries the epoch of the connected socket went out in it.
SentHere ==
  Up => /\ meta.o # NoOrder /\ meta.ep = conn.n /\ bk[meta.o] # "none"
             => sent[meta.o] = conn.n
        /\ \A e \in Exits :
             made[e] = conn.n /\ bk[e] # "none" => sent[e] = conn.n

\* What allowed the job to start still holds when its order is posted.
ProbeReady ==
  /\ Pending = {} /\ position # "held"
  /\ Cardinality(TradedProbes) = Cardinality(TradedSales)
  /\ job.attempts = attempts /\ job.debit = debit
  /\ attempts < Limit /\ debit + Cost[job.o] <= DebitCap
SaleReady ==
  /\ ProbesResolved
  /\ Cardinality(TradedSales) < Cardinality(TradedProbes)
ReadyInv ==
  job.pc = "reading" => /\ job.o \in Probes => ProbeReady
                        /\ job.o \in Sales => SaleReady
                        /\ job.o \in Exits => Pending = {}

RouteInv ==
  /\ TypeOK /\ EpochInv /\ JobInv /\ LedgerIsTrue /\ SentHere /\ ReadyInv
  /\ VerifiedIsCurrent /\ AllowanceHolds /\ ProbeAlone /\ ProbeNotShort

----------------------------------------------------------------------------
(* Facts about a single state *)

LEMMA OrderSets ==
  ASSUME NEW S, S \subseteq Orders
  PROVE  IsFiniteSet(S) /\ Cardinality(S) \in Nat
  BY FS_Subset, FS_CardinalityType

LEMMA OrderSetsMonotone ==
  ASSUME NEW T, T \subseteq Orders, NEW S, S \subseteq T
  PROVE  Cardinality(S) <= Cardinality(T)
  BY OrderSets, FS_Subset

LEMMA OneMore ==
  ASSUME NEW S, S \subseteq Orders, NEW o \in Orders
  PROVE  Cardinality(S \cup {o}) <= Cardinality(S) + 1
  <1>1. IsFiniteSet(S) /\ Cardinality(S) \in Nat BY OrderSets
  <1>2. Cardinality(S \cup {o}) = IF o \in S THEN Cardinality(S) ELSE Cardinality(S) + 1
    BY <1>1, FS_AddElement
  <1> QED BY <1>1, <1>2

LEMMA Subsets ==
  /\ TradedProbes \subseteq Orders /\ TradedSales \subseteq Orders
  /\ Posted \subseteq Orders
  /\ {s \in Sales : Working(s)} \subseteq Orders
  BY DEF TradedProbes, TradedSales, Posted, Orders

LEMMA Kinds ==
  /\ Probes \subseteq Orders /\ Sales \subseteq Orders /\ Exits \subseteq Orders
  /\ \A o \in Orders : o # NoOrder /\ (o \in Probes \/ o \in Sales \/ o \in Exits)
  BY DEF Orders

\* Of an order that is not pending the ledger knows what the broker knows.
LEMMA Resolved ==
  ASSUME RouteInv, NEW o \in Orders, o \notin Pending
  PROVE  /\ ~Executable(o)
         /\ bk[o] = "TRADED" <=> led[o] = "FILLED"
  BY DEF RouteInv, LedgerIsTrue, Pending, Closed, Executable

LEMMA CountsAreTrue ==
  ASSUME RouteInv, ProbesResolved
  PROVE  /\ Bought = TradedProbes /\ Sold = TradedSales
         /\ \A o \in Probes \cup Sales : ~Executable(o)
  <1>1. \A o \in Probes \cup Sales : o \in Orders /\ o \notin Pending
    BY Kinds DEF ProbesResolved
  <1> QED BY <1>1, Resolved DEF Bought, Sold, TradedProbes, TradedSales

\* Without an order on its way the working sales are the traded ones.
LEMMA WorkingSales ==
  ASSUME RouteInv, \A s \in Sales : ~Executable(s)
  PROVE  {s \in Sales : Working(s)} = TradedSales
  BY DEF Working, Executable, TradedSales

----------------------------------------------------------------------------
(* What keeps each part of the invariant *)

LEMMA Unmoved ==
  ASSUME RouteInv
  PROVE  /\ UNCHANGED <<conn, job, meta, made>> => EpochInv'
         /\ UNCHANGED <<job, led>> => JobInv'
         /\ UNCHANGED <<bk, led>> => LedgerIsTrue'
         /\ UNCHANGED <<conn, meta, bk, sent, made>> => SentHere'
         /\ UNCHANGED <<job, led, position, bk, attempts, debit, extra>> => ReadyInv'
         /\ UNCHANGED <<verified, conn, sent, bk>> => VerifiedIsCurrent'
         /\ UNCHANGED <<bk, attempts, extra, debit>> => AllowanceHolds'
         /\ UNCHANGED <<bk, position>> => ProbeAlone'
         /\ UNCHANGED bk => ProbeNotShort'
  <1> USE DEF RouteInv
  <1>1. UNCHANGED <<conn, job, meta, made>> => EpochInv' BY DEF EpochInv, Up
  <1>2. UNCHANGED <<job, led>> => JobInv' BY DEF JobInv, Idle
  <1>3. UNCHANGED <<bk, led>> => LedgerIsTrue' BY DEF LedgerIsTrue
  <1>4. UNCHANGED <<conn, meta, bk, sent, made>> => SentHere' BY DEF SentHere, Up
  <1>5. UNCHANGED <<job, led, position, bk, attempts, debit, extra>> => ReadyInv'
    BY DEF ReadyInv, ProbeReady, SaleReady, Pending, ProbesResolved, TradedProbes,
           TradedSales, Limit
  <1>6. UNCHANGED <<verified, conn, sent, bk>> => VerifiedIsCurrent'
    BY DEF VerifiedIsCurrent, Up
  <1>7. UNCHANGED <<bk, attempts, extra, debit>> => AllowanceHolds'
    BY DEF AllowanceHolds, Posted, Limit
  <1>8. UNCHANGED <<bk, position>> => ProbeAlone' BY DEF ProbeAlone
  <1>9. UNCHANGED bk => ProbeNotShort' BY DEF ProbeNotShort
  <1> QED BY <1>1, <1>2, <1>3, <1>4, <1>5, <1>6, <1>7, <1>8, <1>9

LEMMA IdleKeeps ==
  ASSUME job' = IdleJob
  PROVE  JobInv' /\ ReadyInv'
  BY DEF IdleJob, JobInv, Idle, ReadyInv

LEMMA DownKeeps ==
  ASSUME ~Up'
  PROVE  /\ SentHere'
         /\ verified' = FALSE => VerifiedIsCurrent'
  BY DEF SentHere, VerifiedIsCurrent

LEMMA InvInit == Init => RouteInv
  <1> SUFFICES ASSUME Init PROVE RouteInv OBVIOUS
  <1> USE DEF Init
  <1>1. TypeOK BY TypeInit
  <1>2. EpochInv BY DEF EpochInv, Up, IdleJob
  <1>3. JobInv /\ ReadyInv BY DEF JobInv, ReadyInv, Idle, IdleJob
  <1>4. LedgerIsTrue BY DEF LedgerIsTrue
  <1>5. SentHere /\ VerifiedIsCurrent BY DEF SentHere, VerifiedIsCurrent, Up
  <1>6. Posted = {} /\ {s \in Sales : bk[s] \in {"wire", "live", "TRADED"}} = {}
        /\ {p \in Probes : bk[p] = "TRADED"} = {}
    BY Kinds DEF Posted
  <1>7. Cardinality({}) = 0 BY FS_EmptySet
  <1>8. AllowanceHolds BY <1>6, <1>7 DEF AllowanceHolds, Limit
  <1>9. ProbeAlone BY Kinds DEF ProbeAlone
  <1>10. ProbeNotShort
    <2>1. /\ Cardinality({s \in Sales : bk[s] \in {"wire", "live", "TRADED"}}) = 0
          /\ Cardinality({p \in Probes : bk[p] = "TRADED"}) = 0
      BY <1>6, <1>7
    <2> QED BY ONLY <2>1 DEF ProbeNotShort
  <1> QED BY <1>1, <1>2, <1>3, <1>4, <1>5, <1>8, <1>9, <1>10 DEF RouteInv

----------------------------------------------------------------------------
(* Steps *)

LEMMA InvSocket == RouteInv /\ SocketNext => RouteInv'
  <1> SUFFICES ASSUME RouteInv, SocketNext PROVE RouteInv' OBVIOUS
  <1>0. TypeOK /\ TypeOK' BY TypeSocket DEF RouteInv
  <1>1. CASE Connect
    <2>1. conn.n \in Nat /\ conn'.n = conn.n + 1 /\ ~Up
      BY <1>0, <1>1 DEF TypeOK, Connect, Epochs
    <2>2. /\ job.ep \in Nat /\ meta.ep \in Nat /\ \A o \in Orders : made[o] \in Nat
          /\ job.ep <= conn.n /\ meta.ep <= conn.n
          /\ \A o \in Orders : made[o] <= conn.n
      BY <1>0 DEF TypeOK, Jobs, Probed, Epochs, RouteInv, EpochInv
    <2>3. EpochInv' BY <1>1, <2>1, <2>2 DEF Connect, EpochInv
    <2>4. SentHere'
      <3>1. meta.ep # conn'.n /\ \A o \in Orders : made[o] # conn'.n
        BY <2>1, <2>2
      <3> QED BY <1>1, <3>1, Kinds DEF Connect, SentHere
    <2>5. VerifiedIsCurrent'
      BY <1>1, <2>1 DEF Connect, RouteInv, VerifiedIsCurrent
    <2> QED BY <1>0, <1>1, <2>3, <2>4, <2>5, Unmoved DEF Connect, RouteInv
  <1>2. CASE Disconnect
    <2>1. ~Up' /\ conn'.n = conn.n BY <1>0, <1>2 DEF TypeOK, Disconnect, Up
    <2>2. EpochInv' BY <1>2, <2>1 DEF Disconnect, EpochInv, RouteInv
    <2> QED BY <1>0, <1>2, <2>1, <2>2, Unmoved, DownKeeps DEF Disconnect, RouteInv
  <1>3. ASSUME NEW o \in Orders, Echo(o) \/ EchoSale(o) PROVE RouteInv'
    BY <1>0, <1>3, Unmoved DEF Echo, EchoSale, RouteInv
  <1> QED BY <1>1, <1>2, <1>3 DEF SocketNext

\* An order moves on at the broker.
LEMMA InvBroker == RouteInv /\ BrokerNext => RouteInv'
  <1> SUFFICES ASSUME RouteInv, NEW o \in Orders, Reach(o) \/ End(o)
               PROVE  RouteInv'
    BY DEF BrokerNext
  <1> USE Kinds
  <1>0. TypeOK /\ TypeOK' BY TypeBroker DEF RouteInv, BrokerNext
  <1>1. /\ Executable(o) /\ bk'[o] # "none"
        /\ Executable(o)' => bk[o] = "wire"
        /\ \A q \in Orders \ {o} : bk'[q] = bk[q]
        /\ UNCHANGED <<conn, memVars, sent, led, made, probeVars, extra, position, open,
                       tried, incidents>>
    BY <1>0 DEF TypeOK, Reach, End, Executable, Ended
  <1>2. \A q \in Orders : /\ bk'[q] = "none" <=> bk[q] = "none"
                          /\ bk[q] \in Ended => bk'[q] = bk[q]
                          /\ Executable(q)' => Executable(q)
    BY <1>1 DEF Executable, Ended
  <1>3. LedgerIsTrue'
    BY <1>1, <1>2 DEF RouteInv, LedgerIsTrue, Ended
  <1>4. SentHere'
    BY <1>0, <1>1, <1>2 DEF RouteInv, SentHere, TypeOK, Probed, Up
  <1>5. VerifiedIsCurrent'
    BY <1>1, <1>2 DEF RouteInv, VerifiedIsCurrent, Ended, Up
  <1>6. Posted' = Posted BY <1>2 DEF Posted
  <1>7. AllowanceHolds'
    BY <1>1, <1>6 DEF RouteInv, AllowanceHolds, Limit
  <1>8. /\ o \in Probes => UNCHANGED <<TradedSales, {s \in Sales : Working(s)}>>
        /\ TradedProbes \subseteq TradedProbes'
        /\ o \notin Probes => UNCHANGED TradedProbes
        /\ o \notin Sales => UNCHANGED TradedSales
        /\ {s \in Sales : Working(s)}' \subseteq {s \in Sales : Working(s)}
    BY <1>1, <1>2 DEF TradedProbes, TradedSales, Working, Executable, Ended
  <1>9. ProbeNotShort'
    <2>1. /\ Cardinality({s \in Sales : Working(s)}')
               <= Cardinality({s \in Sales : Working(s)})
          /\ Cardinality(TradedProbes) <= Cardinality(TradedProbes')
      <3>1. TradedProbes' \subseteq Orders BY DEF TradedProbes
      <3> QED BY <1>8, <3>1, Subsets, OrderSetsMonotone
    <2>2. /\ Cardinality({s \in Sales : Working(s)}') \in Nat
          /\ Cardinality({s \in Sales : Working(s)}) \in Nat
          /\ Cardinality(TradedProbes) \in Nat /\ Cardinality(TradedProbes') \in Nat
      <3>1. TradedProbes' \subseteq Orders /\ {s \in Sales : Working(s)}' \subseteq Orders
        BY DEF TradedProbes
      <3> QED BY <3>1, Subsets, OrderSets
    <2> QED BY <2>1, <2>2 DEF RouteInv, ProbeNotShort, TradedProbes, Working
  <1>10. ReadyInv'
    <2>1. CASE job.pc = "reading" /\ job.o \in Probes
      <3>1. o \notin Pending => FALSE BY <1>1, Resolved
      <3> QED BY <1>1, <2>1, <3>1 DEF RouteInv, ReadyInv, ProbeReady
    <2>2. CASE job.pc = "reading" /\ job.o \in Sales
      <3>1. o \notin Probes /\ o \notin Sales
        BY <1>1, <2>2, CountsAreTrue DEF RouteInv, ReadyInv, SaleReady
      <3>2. UNCHANGED <<TradedProbes, TradedSales>> BY <1>8, <3>1
      <3> QED BY <1>1, <2>2, <3>2
              DEF RouteInv, ReadyInv, SaleReady, ProbesResolved, Pending
    <2> QED BY <1>1, <2>1, <2>2 DEF RouteInv, ReadyInv, Pending
  <1>11. ProbeAlone'
    <2> SUFFICES ASSUME NEW p \in Probes, Executable(p)'
                 PROVE  /\ \A q \in Orders \ {p} : ~Executable(q)'
                        /\ Cardinality(TradedProbes') = Cardinality(TradedSales')
                        /\ position' # "held"
      BY DEF ProbeAlone, Executable, TradedProbes, TradedSales
    <2>1. Executable(p) BY <1>2
    <2>2. /\ \A q \in Orders \ {p} : ~Executable(q)
          /\ Cardinality(TradedProbes) = Cardinality(TradedSales)
          /\ position # "held"
      BY <2>1 DEF RouteInv, ProbeAlone, Executable, TradedProbes, TradedSales
    <2>3. o = p BY <1>1, <2>2
    <2>4. bk'[p] # "TRADED" /\ bk[p] # "TRADED" BY <2>1 DEF Executable
    <2>5. UNCHANGED <<TradedProbes, TradedSales>>
      BY <1>1, <1>8, <2>3, <2>4 DEF TradedProbes
    <2> QED BY <1>1, <1>2, <2>2, <2>5
  <1> QED BY <1>0, <1>1, <1>3, <1>4, <1>5, <1>7, <1>9, <1>10, <1>11, Unmoved DEF RouteInv

\* Posting an order the ledger does not know yet.
LEMMA PostMoves ==
  ASSUME RouteInv, NEW o \in Orders, Post(o), led[o] = "none"
  PROVE  /\ bk[o] = "none" /\ bk'[o] = "wire" /\ led'[o] = "UNKNOWN"
         /\ sent'[o] = Here /\ made'[o] = job.ep
         /\ job'.pc = "posting" /\ job'.o = job.o /\ job'.ep = job.ep
         /\ \A q \in Orders \ {o} : /\ bk'[q] = bk[q] /\ led'[q] = led[q]
                                    /\ sent'[q] = sent[q] /\ made'[q] = made[q]
         /\ UNCHANGED <<TradedProbes, TradedSales>>
         /\ LedgerIsTrue'
  <1>0. TypeOK /\ LedgerIsTrue BY DEF RouteInv
  <1>1. bk[o] = "none" BY <1>0 DEF LedgerIsTrue
  <1>2. /\ bk'[o] = "wire" /\ led'[o] = "UNKNOWN"
        /\ sent'[o] = Here /\ made'[o] = job.ep
        /\ \A q \in Orders \ {o} : /\ bk'[q] = bk[q] /\ led'[q] = led[q]
                                   /\ sent'[q] = sent[q] /\ made'[q] = made[q]
    BY <1>0 DEF TypeOK, Post
  <1>3. job'.pc = "posting" /\ job'.o = job.o /\ job'.ep = job.ep
    BY <1>0 DEF TypeOK, Post, Jobs
  <1>4. UNCHANGED <<TradedProbes, TradedSales>>
    BY <1>1, <1>2, Kinds DEF TradedProbes, TradedSales
  <1>5. LedgerIsTrue' BY <1>0, <1>2 DEF LedgerIsTrue
  <1> QED BY <1>1, <1>2, <1>3, <1>4, <1>5

LEMMA PostKeeps ==
  ASSUME RouteInv, NEW o \in Orders, Post(o), led[o] = "none", job.o = o,
         UNCHANGED <<conn, verified>>
  PROVE  JobInv' /\ ReadyInv' /\ VerifiedIsCurrent'
  <1>1. JobInv' /\ ReadyInv' BY PostMoves DEF JobInv, ReadyInv, Idle
  <1>2. VerifiedIsCurrent'
    <2> SUFFICES ASSUME verified PROVE VerifiedIsCurrent' BY DEF VerifiedIsCurrent
    <2>1. Up /\ \E q \in Probes \cup Exits :
                  sent[q] = conn.n /\ bk[q] \in {"TRADED", "CANCELLED"}
      BY DEF RouteInv, VerifiedIsCurrent
    <2>2. PICK q \in Probes \cup Exits :
            sent[q] = conn.n /\ bk[q] \in {"TRADED", "CANCELLED"}
      BY <2>1
    <2>3. q \in Orders /\ q # o BY <2>2, PostMoves, Kinds
    <2> QED BY <2>1, <2>2, <2>3, PostMoves DEF VerifiedIsCurrent, Up
  <1> QED BY <1>1, <1>2

LEMMA ReadyOrder ==
  ASSUME RouteInv, job.pc = "reading"
  PROVE  job.o \in Orders /\ led[job.o] = "none" /\ bk[job.o] = "none"
  BY DEF RouteInv, JobInv, LedgerIsTrue, Idle

LEMMA ReserveKeeps ==
  ASSUME RouteInv, NEW p \in Probes, Qualifying(p), UNCHANGED extra,
         Posted' \subseteq Posted \cup {p},
         attempts' = job.attempts + 1,
         debit' \in {debit, job.debit + Cost[p]}
  PROVE  AllowanceHolds' /\ debit' >= debit
  <1>1. /\ job.attempts = attempts /\ job.debit = debit
        /\ attempts < Limit /\ debit + Cost[p] <= DebitCap
        /\ Cardinality(Posted) <= attempts /\ debit <= DebitCap
    BY DEF Qualifying, RouteInv, ReadyInv, ProbeReady, AllowanceHolds
  <1>2. /\ attempts \in Nat /\ debit \in Nat /\ Cost[p] \in Nat
        /\ Limit \in Nat /\ DebitCap \in Nat
    BY DEF RouteInv, TypeOK, Limit
  <1>3. Posted \subseteq Orders /\ Posted \cup {p} \subseteq Orders /\ p \in Orders
    BY Subsets, Kinds
  <1>4. Cardinality(Posted') <= Cardinality(Posted \cup {p})
    BY <1>3, OrderSetsMonotone
  <1>5. Cardinality(Posted \cup {p}) <= Cardinality(Posted) + 1 BY <1>3, OneMore
  <1>6. /\ Cardinality(Posted) \in Nat /\ Cardinality(Posted \cup {p}) \in Nat
        /\ Cardinality(Posted') \in Nat
    <2>1. Posted' \subseteq Orders BY <1>3
    <2> QED BY <1>3, <2>1, OrderSets
  <1>7. Cardinality(Posted') <= attempts' BY <1>1, <1>2, <1>4, <1>5, <1>6
  <1>8. attempts' <= Limit' BY <1>1, <1>2 DEF Limit
  <1>9. debit' <= DebitCap /\ debit' >= debit BY <1>1, <1>2
  <1> QED BY <1>7, <1>8, <1>9 DEF AllowanceHolds

LEMMA InvProbe == RouteInv /\ ProbeNext => RouteInv'
  <1> SUFFICES ASSUME RouteInv, NEW p \in Probes,
                      QualifyStart(p) \/ QualifyFailed(p) \/ ProbeDispatch(p) \/ ProbeAborted(p)
               PROVE  RouteInv'
    BY DEF ProbeNext
  <1>0. TypeOK /\ TypeOK' BY TypeProbe DEF RouteInv, ProbeNext
  <1>a. p \in Orders /\ p # NoOrder /\ p \notin Sales /\ p \notin Exits BY Kinds
  <1>b. conn.n \in Nat /\ job.ep \in Nat /\ conn.n >= job.ep
    BY <1>0 DEF TypeOK, Jobs, Epochs, RouteInv, EpochInv
  <1>1. CASE QualifyStart(p)
    <2>1. /\ job'.pc = "reading" /\ job'.o = p /\ job'.ep = conn.n
          /\ job'.attempts = attempts /\ job'.debit = debit
          /\ led[p] = "none" /\ MayProbe(p) /\ ~MustSell
          /\ UNCHANGED <<conn, meta, made, bk, sent, led, verified, attempts, debit,
                         extra, position>>
      BY <1>1 DEF QualifyStart
    <2>2. EpochInv' BY <1>b, <2>1 DEF RouteInv, EpochInv, Up
    <2>3. JobInv' BY <1>a, <2>1 DEF JobInv, Idle
    <2>4. Pending = {} /\ position # "held" /\ attempts < Limit
          /\ debit + Cost[p] <= DebitCap
      BY <2>1 DEF MayProbe
    <2>5. ProbesResolved BY <2>4 DEF ProbesResolved
    <2>6. Cardinality(TradedProbes) = Cardinality(TradedSales)
      <3>1. \A s \in Sales : ~Executable(s) BY <2>5, CountsAreTrue
      <3>2. Cardinality(TradedSales) <= Cardinality(TradedProbes)
        BY <3>1, WorkingSales DEF RouteInv, ProbeNotShort, Working, TradedProbes
      <3>3. Cardinality(TradedProbes) - Cardinality(TradedSales) <= 0
        <4>1. ~(ProbeNet > 0) BY <2>1, <2>5 DEF MustSell
        <4>2. ProbeNet = Cardinality(TradedProbes) - Cardinality(TradedSales)
          BY <2>5, CountsAreTrue DEF ProbeNet
        <4>3. Cardinality(TradedProbes) \in Nat /\ Cardinality(TradedSales) \in Nat
          BY Subsets, OrderSets
        <4> QED BY <4>1, <4>2, <4>3
      <3>4. Cardinality(TradedProbes) \in Nat /\ Cardinality(TradedSales) \in Nat
        BY Subsets, OrderSets
      <3> QED BY <3>2, <3>3, <3>4
    <2>7. ReadyInv'
      <3>1. UNCHANGED <<Pending, TradedProbes, TradedSales, Limit>>
        BY <2>1 DEF Pending, TradedProbes, TradedSales, Limit
      <3> QED BY <1>a, <2>1, <2>4, <2>6, <3>1 DEF ReadyInv, ProbeReady
    <2> QED BY <1>0, <2>1, <2>2, <2>3, <2>7, Unmoved DEF RouteInv
  <1>2. CASE QualifyFailed(p)
    <2>1. EpochInv'
      BY <1>2, <1>b DEF QualifyFailed, RouteInv, EpochInv, Up, IdleJob
    <2> QED BY <1>0, <1>2, <2>1, Unmoved, IdleKeeps DEF QualifyFailed, RouteInv
  <1>3. CASE ProbeDispatch(p)
    <2>1. /\ Qualifying(p) /\ Post(p) /\ job.pc = "reading" /\ job.o = p
          /\ attempts' = job.attempts + 1 /\ debit' = job.debit + Cost[p]
          /\ meta' = [ep |-> job.ep, o |-> p]
          /\ UNCHANGED <<conn, verified, extra, position>>
      BY <1>3 DEF ProbeDispatch, Reserve, Qualifying
    <2>2. led[p] = "none" BY <2>1, ReadyOrder
    <2>3. EpochInv'
      <3>1. \A o \in Orders : made'[o] <= conn.n
        BY <1>a, <1>b, <2>1, <2>2, PostMoves DEF RouteInv, EpochInv
      <3> QED BY <1>a, <1>b, <2>1, <2>2, <3>1, PostMoves DEF RouteInv, EpochInv, Up
    <2>4. SentHere'
      <3>1. \A e \in Exits : /\ e \in Orders \ {p} BY <1>a, Kinds
      <3> QED BY <1>a, <2>1, <2>2, <3>1, PostMoves DEF RouteInv, SentHere, Up, Here
    <2>5. Posted' \subseteq Posted \cup {p}
      BY <1>a, <2>1, <2>2, PostMoves, Kinds DEF Posted
    <2>6. AllowanceHolds' BY <2>1, <2>5, ReserveKeeps
    <2>7. Pending = {} /\ position # "held"
          /\ Cardinality(TradedProbes) = Cardinality(TradedSales)
      BY <2>1 DEF RouteInv, ReadyInv, ProbeReady
    <2>8. \A q \in Orders \ {p} : ~Executable(q) /\ ~Executable(q)'
      BY <1>a, <2>1, <2>2, <2>7, Resolved, PostMoves DEF Executable
    <2>9. ProbeAlone'
      <3>1. /\ Cardinality(TradedProbes') = Cardinality(TradedSales')
            /\ position' # "held"
        BY <1>a, <2>1, <2>2, <2>7, PostMoves
      <3>2. \A q \in Probes : Executable(q)' => q = p BY <2>8, Kinds
      <3> QED BY <2>8, <3>1, <3>2 DEF ProbeAlone, Executable, TradedProbes, TradedSales
    <2>10. ProbeNotShort'
      <3>1. {s \in Sales : Working(s)}' = {s \in Sales : Working(s)}
        BY <1>a, <2>1, <2>2, PostMoves, Kinds DEF Working
      <3>2. TradedProbes' = TradedProbes BY <1>a, <2>1, <2>2, PostMoves
      <3> QED BY <3>1, <3>2 DEF RouteInv, ProbeNotShort, Working, TradedProbes
    <2> QED BY <1>0, <1>a, <2>1, <2>2, <2>3, <2>4, <2>6, <2>9, <2>10,
               PostMoves, PostKeeps DEF RouteInv
  <1>4. CASE ProbeAborted(p)
    <2>1. /\ Qualifying(p) /\ job.pc = "reading" /\ job.o = p /\ job' = IdleJob
          /\ attempts' = job.attempts + 1 /\ debit' = job.debit + Cost[p]
          /\ meta' = [ep |-> job.ep, o |-> p]
          /\ led' = [led EXCEPT ![p] = "ABORTED"]
          /\ UNCHANGED <<conn, verified, extra, position, bk, sent, made>>
      BY <1>4 DEF ProbeAborted, Reserve, Qualifying
    <2>2. led[p] = "none" /\ bk[p] = "none" BY <2>1, ReadyOrder
    <2>3. EpochInv' BY <1>b, <2>1 DEF RouteInv, EpochInv, Up, IdleJob
    <2>4. LedgerIsTrue'
      BY <1>0, <1>a, <2>1, <2>2 DEF RouteInv, LedgerIsTrue, TypeOK
    <2>5. SentHere'
      BY <2>1, <2>2 DEF RouteInv, SentHere, Up
    <2>6. Posted' \subseteq Posted \cup {p} BY <2>1 DEF Posted
    <2>7. AllowanceHolds' BY <2>1, <2>6, ReserveKeeps
    <2> QED BY <1>0, <2>1, <2>3, <2>4, <2>5, <2>7, Unmoved, IdleKeeps DEF RouteInv
  <1> QED BY <1>1, <1>2, <1>3, <1>4

LEMMA InvSell == RouteInv /\ SellNext => RouteInv'
  <1> SUFFICES ASSUME RouteInv, NEW o \in Sales \cup Exits,
                      SellStart(o) \/ SellDispatch(o) \/ SellFailed(o)
               PROVE  RouteInv'
    BY DEF SellNext
  <1>0. TypeOK /\ TypeOK' BY TypeSell DEF RouteInv, SellNext
  <1>a. o \in Orders /\ o # NoOrder /\ o \notin Probes BY Kinds
  <1>b. conn.n \in Nat /\ job.ep \in Nat /\ conn.n >= job.ep
    BY <1>0 DEF TypeOK, Jobs, Epochs, RouteInv, EpochInv
  <1>1. CASE SellStart(o)
    <2>1. /\ job'.pc = "reading" /\ job'.o = o /\ job'.ep = Here
          /\ led[o] = "none" /\ MaySell(o)
          /\ UNCHANGED <<conn, meta, made, bk, sent, led, verified, attempts, debit,
                         extra, position>>
      BY <1>1 DEF SellStart, IdleJob
    <2>2. EpochInv' BY <1>b, <2>1 DEF RouteInv, EpochInv, Up, Here
    <2>3. JobInv' BY <1>a, <2>1 DEF JobInv, Idle
    <2>4. o \in Exits => Pending = {} BY <2>1, Kinds DEF MaySell
    <2>5. o \in Sales => SaleReady
      <3> SUFFICES ASSUME o \in Sales PROVE SaleReady OBVIOUS
      <3>1. ProbesResolved /\ ProbeNet > 0 BY <2>1 DEF MaySell, MustSell
      <3>2. ProbeNet = Cardinality(TradedProbes) - Cardinality(TradedSales)
        BY <3>1, CountsAreTrue DEF ProbeNet
      <3>3. Cardinality(TradedProbes) \in Nat /\ Cardinality(TradedSales) \in Nat
        BY Subsets, OrderSets
      <3>4. Cardinality(TradedSales) < Cardinality(TradedProbes) BY <3>1, <3>2, <3>3
      <3> QED BY <3>1, <3>4 DEF SaleReady
    <2>6. ReadyInv'
      <3>1. UNCHANGED <<Pending, ProbesResolved, TradedProbes, TradedSales>>
        BY <2>1 DEF Pending, ProbesResolved, TradedProbes, TradedSales
      <3> QED BY <1>a, <2>1, <2>4, <2>5, <3>1 DEF ReadyInv, SaleReady
    <2> QED BY <1>0, <2>1, <2>2, <2>3, <2>6, Unmoved DEF RouteInv
  <1>2. CASE SellDispatch(o)
    <2>1. /\ job.pc = "reading" /\ job.o = o /\ Post(o)
          /\ UNCHANGED <<conn, verified, meta, attempts, debit, extra, position>>
      BY <1>2 DEF SellDispatch, Selling
    <2>2. led[o] = "none" BY <2>1, ReadyOrder
    <2>3. EpochInv'
      <3>1. \A q \in Orders : made'[q] <= conn.n
        BY <1>a, <1>b, <2>1, <2>2, PostMoves DEF RouteInv, EpochInv
      <3> QED BY <1>a, <1>b, <2>1, <2>2, <3>1, PostMoves DEF RouteInv, EpochInv, Up
    <2>4. SentHere'
      <3> SUFFICES ASSUME Up'
                   PROVE  /\ meta'.o # NoOrder /\ meta'.ep = conn'.n /\ bk'[meta'.o] # "none"
                               => sent'[meta'.o] = conn'.n
                          /\ \A e \in Exits :
                               made'[e] = conn'.n /\ bk'[e] # "none" => sent'[e] = conn'.n
        BY DEF SentHere
      <3>0. Up /\ Here = conn.n BY <2>1 DEF Up, Here
      <3>1. meta.o # NoOrder => meta.o \in Orders \ {o}
        BY <1>0, <1>a, Kinds DEF TypeOK, Probed
      <3>2. meta'.o # NoOrder /\ meta'.ep = conn'.n /\ bk'[meta'.o] # "none"
              => sent'[meta'.o] = conn'.n
        BY <1>a, <2>1, <2>2, <3>0, <3>1, PostMoves DEF RouteInv, SentHere
      <3>3. ASSUME NEW e \in Exits, made'[e] = conn'.n, bk'[e] # "none"
            PROVE  sent'[e] = conn'.n
        <4>1. e \in Orders BY Kinds
        <4>2. CASE e = o BY <1>a, <2>1, <2>2, <3>0, <4>2, PostMoves
        <4>3. CASE e # o
          BY <1>a, <2>1, <2>2, <3>0, <3>3, <4>1, <4>3, PostMoves DEF RouteInv, SentHere
        <4> QED BY <4>2, <4>3
      <3> QED BY <3>2, <3>3
    <2>5. AllowanceHolds'
      <3>1. Posted' = Posted BY <1>a, <2>1, <2>2, PostMoves, Kinds DEF Posted
      <3> QED BY <2>1, <3>1 DEF RouteInv, AllowanceHolds, Limit
    <2>6. \A p \in Probes : ~Executable(p)
      <3>1. CASE o \in Sales
        BY <2>1, <3>1, CountsAreTrue DEF RouteInv, ReadyInv, SaleReady
      <3>2. CASE o \in Exits
        BY <2>1, <3>2, Resolved, Kinds DEF RouteInv, ReadyInv
      <3> QED BY <3>1, <3>2
    <2>7. ProbeAlone'
      BY <1>a, <2>1, <2>2, <2>6, PostMoves, Kinds DEF ProbeAlone, Executable
    <2>8. ProbeNotShort'
      <3>1. TradedProbes' = TradedProbes BY <1>a, <2>1, <2>2, PostMoves
      <3>2. CASE o \in Exits
        <4>1. {s \in Sales : Working(s)}' = {s \in Sales : Working(s)}
          BY <1>a, <2>1, <2>2, <3>2, PostMoves, Kinds DEF Working
        <4> QED BY <3>1, <4>1 DEF RouteInv, ProbeNotShort, Working, TradedProbes
      <3>3. CASE o \in Sales
        <4>1. ProbesResolved /\ Cardinality(TradedSales) < Cardinality(TradedProbes)
          BY <2>1, <3>3 DEF RouteInv, ReadyInv, SaleReady
        <4>2. {s \in Sales : Working(s)} = TradedSales
          BY <4>1, CountsAreTrue, WorkingSales
        <4>3. {s \in Sales : Working(s)}' \subseteq TradedSales \cup {o}
          BY <1>a, <2>1, <2>2, <4>2, PostMoves, Kinds DEF Working
        <4>4. TradedSales \cup {o} \subseteq Orders BY <1>a, Subsets
        <4>5. Cardinality({s \in Sales : Working(s)}') <= Cardinality(TradedSales \cup {o})
          BY <4>3, <4>4, OrderSetsMonotone
        <4>6. Cardinality(TradedSales \cup {o}) <= Cardinality(TradedSales) + 1
          BY <1>a, Subsets, OneMore
        <4>7. /\ Cardinality({s \in Sales : Working(s)}') \in Nat
              /\ Cardinality(TradedSales \cup {o}) \in Nat
              /\ Cardinality(TradedSales) \in Nat /\ Cardinality(TradedProbes) \in Nat
          <5>1. {s \in Sales : Working(s)}' \subseteq Orders BY <4>3, <4>4
          <5> QED BY <4>4, <5>1, Subsets, OrderSets
        <4>8. Cardinality({s \in Sales : Working(s)}') <= Cardinality(TradedProbes)
          BY <4>1, <4>5, <4>6, <4>7
        <4> QED BY <3>1, <4>8 DEF ProbeNotShort, Working, TradedProbes
      <3> QED BY <3>2, <3>3
    <2> QED BY <1>0, <1>a, <2>1, <2>2, <2>3, <2>4, <2>5, <2>7, <2>8,
               PostMoves, PostKeeps DEF RouteInv
  <1>3. CASE SellFailed(o)
    <2>1. /\ job.pc = "reading" /\ job.o = o /\ job' = IdleJob
          /\ UNCHANGED <<conn, meta, made, bk, sent, verified, attempts, debit, extra,
                         position>>
      BY <1>3 DEF SellFailed, Selling
    <2>2. bk[o] = "none" BY <2>1, ReadyOrder
    <2>3. LedgerIsTrue'
      BY <1>0, <1>3, <2>1, <2>2 DEF SellFailed, RouteInv, LedgerIsTrue, TypeOK
    <2>4. EpochInv' BY <1>b, <2>1 DEF RouteInv, EpochInv, Up, IdleJob
    <2> QED BY <1>0, <2>1, <2>3, <2>4, Unmoved, IdleKeeps DEF RouteInv
  <1> QED BY <1>1, <1>2, <1>3

LEMMA InvAnswer == RouteInv /\ AnswerNext => RouteInv'
  <1> SUFFICES ASSUME RouteInv, NEW o \in Orders, Acked(o) \/ Unknown(o)
               PROVE  RouteInv'
    BY DEF AnswerNext
  <1>0. TypeOK /\ TypeOK' BY TypeAnswer DEF RouteInv, AnswerNext
  <1>1. /\ job.pc = "posting" /\ job.o = o /\ job' = IdleJob
        /\ UNCHANGED <<conn, meta, made, bk, sent, verified, attempts, debit, extra,
                       position>>
        /\ led' \in {led, [led EXCEPT ![o] = "SENT"]}
    BY DEF Acked, Unknown, Posting
  <1>2. led[o] = "UNKNOWN" BY <1>1 DEF RouteInv, JobInv
  <1>3. LedgerIsTrue'
    BY <1>0, <1>1, <1>2 DEF RouteInv, LedgerIsTrue, TypeOK
  <1>4. conn.n \in Nat BY <1>0 DEF TypeOK, Epochs
  <1>5. EpochInv' BY <1>1, <1>4 DEF RouteInv, EpochInv, Up, IdleJob
  <1> QED BY <1>0, <1>1, <1>3, <1>5, Unmoved, IdleKeeps DEF RouteInv

\* A proof of the route names an order of this very connection.
LEMMA ProofsAreCurrent ==
  ASSUME RouteInv, ProbeProof \/ ExitProof
  PROVE  /\ Up
         /\ \E o \in Probes \cup Exits :
              sent[o] = conn.n /\ bk[o] \in {"TRADED", "CANCELLED"}
  <1>0. TypeOK /\ LedgerIsTrue /\ SentHere BY DEF RouteInv
  <1>1. CASE ProbeProof
    <2>1. meta.o \in Probes /\ led[meta.o] \in {"FILLED", "CANCELLED"}
          /\ Up /\ meta.ep = conn.n /\ meta.o # NoOrder
      BY <1>0, <1>1 DEF ProbeProof, TypeOK, Probed
    <2>2. bk[meta.o] \in {"TRADED", "CANCELLED"}
      BY <1>0, <2>1, Kinds DEF LedgerIsTrue
    <2> QED BY <1>0, <2>1, <2>2 DEF SentHere
  <1>2. CASE ExitProof
    <2>1. PICK e \in Exits : made[e] = conn.n /\ led[e] = "FILLED"
      BY <1>2 DEF ExitProof
    <2>2. bk[e] = "TRADED" BY <1>0, <2>1, Kinds DEF LedgerIsTrue
    <2> QED BY <1>0, <1>2, <2>1, <2>2 DEF SentHere, ExitProof
  <1> QED BY <1>1, <1>2

LEMMA InvEngine == RouteInv /\ EngineNext => RouteInv'
  <1> SUFFICES ASSUME RouteInv, EngineNext PROVE RouteInv' OBVIOUS
  <1>0. TypeOK /\ TypeOK' BY TypeEngine DEF RouteInv
  <1>1. CASE Verify
    <2>1. VerifiedIsCurrent'
      BY <1>1, ProofsAreCurrent DEF Verify, VerifiedIsCurrent, Up
    <2> QED BY <1>0, <1>1, <2>1, Unmoved DEF Verify, RouteInv
  <1>2. CASE Reconcile
    <2>1. \A o \in Orders : led'[o] = Settled(o) BY <1>2 DEF Reconcile
    <2>2. UNCHANGED <<conn, meta, made, bk, sent, verified, attempts, debit, extra,
                      position, job>>
      BY <1>2 DEF Reconcile
    <2>3. \A o \in Orders : o \notin Pending => led'[o] = led[o]
      BY <2>1 DEF Pending, Settled, Closed
    <2>4. LedgerIsTrue'
      <3>1. \A o \in Orders : /\ bk[o] = "none" <=> led[o] \in {"none", "PENDING", "ABORTED"}
                              /\ led[o] = "FILLED" => bk[o] = "TRADED"
                              /\ led[o] \in {"CANCELLED", "REJECTED"} => bk[o] = led[o]
        BY DEF RouteInv, LedgerIsTrue
      <3> QED BY <2>1, <2>2, <3>1 DEF LedgerIsTrue, Settled, Ended
    <2>5. Pending' \subseteq Pending BY <2>3 DEF Pending, Closed
    <2>6. job.pc = "reading" => job.o \in Probes /\ Pending = {}
      BY <1>2, Kinds DEF Reconcile, Idle, Qualifying, RouteInv, ReadyInv, ProbeReady
    <2>7. job.pc # "posting" BY <1>2 DEF Reconcile, Idle, Qualifying
    <2>8. JobInv' BY <2>2, <2>3, <2>6, <2>7 DEF RouteInv, JobInv, Idle
    <2>9. ReadyInv'
      <3>1. UNCHANGED <<TradedProbes, TradedSales, Limit>>
        BY <2>2 DEF TradedProbes, TradedSales, Limit
      <3>2. CASE job.pc = "reading"
        <4>1. Pending' = {} /\ job.o \in Probes /\ job.o \notin Sales /\ job.o \notin Exits
          BY <2>5, <2>6, <3>2, Kinds
        <4> QED BY <2>2, <3>1, <3>2, <4>1 DEF RouteInv, ReadyInv, ProbeReady
      <3> QED BY <2>2, <3>2 DEF ReadyInv
    <2> QED BY <1>0, <2>2, <2>4, <2>8, <2>9, Unmoved DEF RouteInv
  <1>3. CASE Stale BY <1>0, <1>3, Unmoved DEF Stale, RouteInv
  <1>4. CASE Enter \/ CloseLifecycle
    <2>1. /\ Idle /\ Pending = {} /\ UNCHANGED job
          /\ UNCHANGED <<conn, meta, made, led, bk, sent, verified, attempts, debit, extra>>
      BY <1>4 DEF Enter, CloseLifecycle
    <2>2. \A p \in Probes : bk[p] \notin {"wire", "live"}
      BY <2>1, Resolved, Kinds DEF Executable
    <2>3. ProbeAlone' BY <2>1, <2>2 DEF ProbeAlone
    <2>4. ReadyInv' BY <2>1 DEF ReadyInv, Idle
    <2> QED BY <1>0, <2>1, <2>3, <2>4, Unmoved DEF RouteInv
  <1> QED BY <1>1, <1>2, <1>3, <1>4 DEF EngineNext

LEMMA InvOutside == RouteInv /\ OutsideNext => RouteInv'
  <1> SUFFICES ASSUME RouteInv, OutsideNext PROVE RouteInv' OBVIOUS
  <1>0. TypeOK /\ TypeOK' BY TypeOutside DEF RouteInv
  <1>b. conn.n \in Nat /\ job.ep \in Nat /\ conn.n >= job.ep
    BY <1>0 DEF TypeOK, Jobs, Epochs, RouteInv, EpochInv
  <1>1. CASE Grant
    <2>1. Limit \in Nat /\ Limit' \in Nat /\ Limit < Limit' /\ attempts \in Nat
      BY <1>0, <1>1 DEF Grant, Limit, TypeOK
    <2>2. UNCHANGED <<conn, memVars, bk, sent, led, made, probeVars, position>>
      BY <1>1 DEF Grant
    <2>3. UNCHANGED <<Pending, ProbesResolved, TradedProbes, TradedSales, Posted>>
      BY <2>2 DEF Pending, ProbesResolved, TradedProbes, TradedSales, Posted
    <2>4. AllowanceHolds' BY <2>1, <2>2, <2>3 DEF RouteInv, AllowanceHolds
    <2>5. ReadyInv'
      BY <2>1, <2>2, <2>3 DEF RouteInv, ReadyInv, ProbeReady, SaleReady
    <2> QED BY <1>0, <2>2, <2>4, <2>5, Unmoved DEF RouteInv
  <1>2. CASE Cutoff BY <1>0, <1>2, Unmoved DEF Cutoff, RouteInv
  <1>3. ASSUME Restart
        PROVE  /\ ~Up' /\ verified' = FALSE /\ job' = IdleJob /\ conn'.n = conn.n
               /\ job'.ep = 0
    BY <1>0, <1>3 DEF Restart, TypeOK, Up, IdleJob
  <1>4. CASE Crash
    <2>1. EpochInv' BY <1>3, <1>4, <1>b DEF Crash, RouteInv, EpochInv
    <2> QED BY <1>0, <1>3, <1>4, <2>1, Unmoved, IdleKeeps, DownKeeps DEF Crash, RouteInv
  <1>5. ASSUME NEW p \in Probes, CrashInReserve(p) PROVE RouteInv'
    <2>1. /\ Qualifying(p) /\ Restart /\ job.pc = "reading" /\ job.o = p
          /\ UNCHANGED <<bk, sent, made, extra, position>>
          /\ attempts' = job.attempts + 1
          /\ debit' \in {debit, job.debit + Cost[p]}
          /\ meta'.ep \in {meta.ep, job.ep}
          /\ led' \in {led, [led EXCEPT ![p] = "PENDING"]}
      BY <1>5 DEF CrashInReserve, Qualifying
    <2>2. p \in Orders /\ bk[p] = "none" /\ led[p] = "none" BY <2>1, ReadyOrder
    <2>3. EpochInv' BY <1>3, <1>b, <2>1 DEF RouteInv, EpochInv
    <2>4. LedgerIsTrue'
      BY <1>0, <2>1, <2>2 DEF RouteInv, LedgerIsTrue, TypeOK
    <2>5. Posted' \subseteq Posted \cup {p} BY <2>1 DEF Posted
    <2>6. AllowanceHolds' BY <2>1, <2>5, ReserveKeeps
    <2> QED BY <1>0, <1>3, <2>1, <2>3, <2>4, <2>6, Unmoved, IdleKeeps, DownKeeps
            DEF RouteInv
  <1> QED BY <1>1, <1>2, <1>4, <1>5 DEF OutsideNext

LEMMA InvStep == RouteInv /\ [Next]_vars => RouteInv'
  <1> SUFFICES ASSUME RouteInv, [Next]_vars PROVE RouteInv' OBVIOUS
  <1>1. CASE UNCHANGED vars
    <2>1. TypeOK' BY <1>1, TypeStep DEF RouteInv
    <2> QED BY <1>1, <2>1, Unmoved DEF RouteInv, vars
  <1> QED BY <1>1, InvSocket, InvBroker, InvProbe, InvSell, InvAnswer, InvEngine,
             InvOutside DEF Next

LEMMA InvHolds == Spec => []RouteInv
  BY InvInit, InvStep, PTL DEF Spec

\* What is reserved stays reserved, and what is posted was reserved.
LEMMA PaidStep ==
  ASSUME RouteInv, RouteInv', [Next]_vars
  PROVE  PaidFor
  <1>0. debit \in Nat /\ \A p \in Probes : Cost[p] \in Nat BY DEF RouteInv, TypeOK
  <1>1. ASSUME UNCHANGED <<bk, debit>> PROVE PaidFor BY <1>0, <1>1 DEF Posted, PaidFor
  <1>2. ASSUME NEW o \in Orders, Reach(o) \/ End(o) PROVE debit' = debit /\ Posted' = Posted
    <2>1. debit' = debit /\ \A q \in Orders : bk'[q] = "none" <=> bk[q] = "none"
      BY <1>2 DEF Reach, End, RouteInv, TypeOK, Ended
    <2> QED BY <2>1, Kinds DEF Posted
  <1>3. ASSUME NEW p \in Probes, ProbeDispatch(p)
        PROVE  Posted' = Posted \cup {p} /\ debit' = debit + Cost[p]
    <2>1. /\ Qualifying(p) /\ Post(p) /\ job.pc = "reading" /\ job.o = p
          /\ debit' = job.debit + Cost[p]
      BY <1>3 DEF ProbeDispatch, Reserve, Qualifying
    <2>2. p \in Orders /\ led[p] = "none" /\ job.debit = debit
      BY <2>1, ReadyOrder DEF RouteInv, ReadyInv, ProbeReady
    <2> QED BY <2>1, <2>2, PostMoves, Kinds DEF Posted
  <1>4. ASSUME NEW p \in Probes, ProbeAborted(p) \/ CrashInReserve(p)
        PROVE  Posted' = Posted /\ debit' >= debit
    <2>1. job.debit = debit
      BY <1>4 DEF ProbeAborted, CrashInReserve, Qualifying, RouteInv, ReadyInv, ProbeReady
    <2> QED BY <1>0, <1>4, <2>1 DEF ProbeAborted, CrashInReserve, Reserve, Posted
  <1>5. ASSUME NEW o \in Sales \cup Exits, SellDispatch(o)
        PROVE  Posted' = Posted /\ debit' = debit
    <2>1. job.pc = "reading" /\ job.o = o /\ Post(o) /\ UNCHANGED debit
      BY <1>5 DEF SellDispatch, Selling
    <2>2. o \in Orders /\ led[o] = "none" BY <2>1, ReadyOrder
    <2> QED BY <2>1, <2>2, PostMoves, Kinds DEF Posted
  <1>6. ASSUME SocketNext \/ EngineNext \/ Grant \/ Cutoff \/ Crash \/ AnswerNext
        PROVE  UNCHANGED <<bk, debit>>
    BY <1>6 DEF SocketNext, Connect, Disconnect, Echo, EchoSale, EngineNext, Verify,
                Reconcile, Stale, Enter, CloseLifecycle, Grant, Cutoff, Crash,
                AnswerNext, Acked, Unknown
  <1>7. ASSUME NEW o \in Sales \cup Exits, SellStart(o) \/ SellFailed(o)
        PROVE  UNCHANGED <<bk, debit>>
    BY <1>7 DEF SellStart, SellFailed
  <1>8. ASSUME NEW p \in Probes, QualifyStart(p) \/ QualifyFailed(p)
        PROVE  UNCHANGED <<bk, debit>>
    BY <1>8 DEF QualifyStart, QualifyFailed
  <1>9. CASE UNCHANGED vars BY <1>1, <1>9 DEF vars
  <1> QED
    <2>1. ASSUME Posted' = Posted, debit' >= debit PROVE PaidFor BY <2>1 DEF PaidFor
    <2>2. ASSUME NEW p \in Probes, Posted' = Posted \cup {p}, debit' = debit + Cost[p]
          PROVE  PaidFor
      BY <1>0, <2>2 DEF PaidFor
    <2>3. CASE SocketNext \/ EngineNext \/ AnswerNext BY <1>1, <1>6, <2>3
    <2>4. CASE BrokerNext BY <1>0, <1>2, <2>1, <2>4 DEF BrokerNext
    <2>5. CASE ProbeNext BY <1>1, <1>3, <1>4, <1>8, <2>1, <2>2, <2>5 DEF ProbeNext
    <2>6. CASE SellNext BY <1>0, <1>1, <1>5, <1>7, <2>1, <2>6 DEF SellNext
    <2>7. CASE OutsideNext BY <1>1, <1>4, <1>6, <2>1, <2>7 DEF OutsideNext
    <2> QED BY <1>9, <2>3, <2>4, <2>5, <2>6, <2>7 DEF Next

----------------------------------------------------------------------------
(* The theorems *)

\* Every reachable state has its type, for any orders, costs and bounds.
THEOREM RouteTypeCorrect == Spec => []TypeOK
  BY TypeInit, TypeStep, PTL DEF Spec

\* The route counts as verified only by an order of the connection that is up,
\* however connections, crashes, late answers and queued frames interleave.
THEOREM RouteVerifiedIsCurrent == Spec => []VerifiedIsCurrent
  <1>1. RouteInv => VerifiedIsCurrent BY DEF RouteInv
  <1> QED BY <1>1, InvHolds, PTL

\* The allowance of the day is never exceeded, nothing reserved is given back,
\* and no probe shares the account with another order, lot or position.
THEOREM RouteProbesAreSafe == Spec => ProbesAreSafe
  <1>1. RouteInv => AllowanceHolds /\ ProbeAlone BY DEF RouteInv
  <1>2. RouteInv /\ RouteInv' /\ [Next]_vars => [PaidFor]_vars BY PaidStep
  <1> QED BY <1>1, <1>2, InvHolds, PTL DEF Spec, ProbesAreSafe

\* A filled probe is never sold twice, whichever answers are lost.
THEOREM RouteProbeNotShort == Spec => []ProbeNotShort
  <1>1. RouteInv => ProbeNotShort BY DEF RouteInv
  <1> QED BY <1>1, InvHolds, PTL
=============================================================================
