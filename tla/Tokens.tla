------------------------------- MODULE Tokens -------------------------------
(* The broker session that the trader and the read-only checks share: the      *)
(* cache behind a file lock (auth.py, session_token) and the rotation of the   *)
(* trader's session when the cached token is not its own any more (service.py  *)
(* 694-715).                                                                   *)
EXTENDS Integers

CONSTANTS
  Procs,       \* the trader and the checkers
  Trader,
  MaxAge,      \* ticks a cached token may be used
  MaxTime,     \* bound of the clock
  MaxTokens,   \* bound of tokens the broker issues
  MaxFaults    \* bound of crashes and damaged caches

VARIABLES
  time, issued, \* issued: number of tokens so far; a token is its number
  cache,       \* dhan_token.json
  tokenLock,   \* who holds token.lock
  proc,        \* where each process is in session_token
  session,     \* token of the trader's clients and sockets, 0 when it has no session
  busy,        \* order_lock
  faults

vars == <<time, issued, cache, tokenLock, proc, session, busy, faults>>

Nobody == "nobody"
NoCache == [token |-> 0, at |-> 0]
Fault == faults < MaxFaults /\ faults' = faults + 1

\* A damaged file, or one of another account, counts as no cache.
Usable == cache.token # 0 /\ time - cache.at < MaxAge

-----------------------------------------------------------------------------
(* session_token *)

Ask(p) ==
  /\ proc[p] = "idle" /\ (p = Trader => session = 0)
  /\ proc' = [proc EXCEPT ![p] = "locking"]
  /\ UNCHANGED <<time, issued, cache, tokenLock, session, busy, faults>>

Given(p, token) == session' = IF p = Trader THEN token ELSE session

TakeLock(p) ==
  /\ proc[p] = "locking" /\ tokenLock = Nobody
  /\ IF Usable
     THEN proc' = [proc EXCEPT ![p] = "idle"] /\ Given(p, cache.token) /\ UNCHANGED tokenLock
     ELSE proc' = [proc EXCEPT ![p] = "minting"] /\ tokenLock' = p /\ UNCHANGED session
  /\ UNCHANGED <<time, issued, cache, busy, faults>>

\* The deadline of the lock, or a failed request.
GiveUp(p) ==
  /\ proc[p] = "minting" \/ (proc[p] = "locking" /\ tokenLock # Nobody)
  /\ proc' = [proc EXCEPT ![p] = "idle"]
  /\ tokenLock' = IF tokenLock = p THEN Nobody ELSE tokenLock
  /\ UNCHANGED <<time, issued, cache, session, busy, faults>>

Mint(p) ==
  /\ proc[p] = "minting" /\ issued < MaxTokens
  /\ issued' = issued + 1
  /\ cache' = [token |-> issued + 1, at |-> time]
  /\ proc' = [proc EXCEPT ![p] = "idle"] /\ tokenLock' = Nobody
  /\ Given(p, issued + 1)
  /\ UNCHANGED <<time, busy, faults>>

\* The system releases the lock of a process that stops; the broker may have
\* issued a token nobody has written.
Crash(p) ==
  /\ Fault
  /\ proc' = [proc EXCEPT ![p] = "idle"]
  /\ tokenLock' = IF tokenLock = p THEN Nobody ELSE tokenLock
  /\ issued' \in IF proc[p] = "minting" /\ issued < MaxTokens THEN {issued, issued + 1} ELSE {issued}
  /\ IF p = Trader THEN session' = 0 /\ busy' = FALSE ELSE UNCHANGED <<session, busy>>
  /\ UNCHANGED <<time, cache>>

-----------------------------------------------------------------------------
(* The main loop of the trader *)

MustRotateByAge == ~Usable \* mutant
\* The cache holds another token, one too old, or none that can be read.
MustRotate == cache.token # session \/ ~Usable

Rotate ==
  /\ session # 0 /\ ~busy /\ MustRotate
  /\ session' = 0
  /\ UNCHANGED <<time, issued, cache, tokenLock, proc, busy, faults>>

\* A submission or a reconciliation takes order_lock, and gives it back.
Order ==
  /\ session # 0
  /\ busy' = ~busy
  /\ UNCHANGED <<time, issued, cache, tokenLock, proc, session, faults>>

Damage ==
  /\ cache # NoCache /\ Fault
  /\ cache' = NoCache
  /\ UNCHANGED <<time, issued, tokenLock, proc, session, busy>>

Tick ==
  /\ time < MaxTime
  /\ time' = time + 1
  /\ UNCHANGED <<issued, cache, tokenLock, proc, session, busy, faults>>

Init ==
  /\ time = 0 /\ issued = 0 /\ cache = NoCache /\ tokenLock = Nobody
  /\ proc = [p \in Procs |-> "idle"] /\ session = 0 /\ busy = FALSE /\ faults = 0

Next ==
  \/ \E p \in Procs : Ask(p) \/ TakeLock(p) \/ GiveUp(p) \/ Mint(p) \/ Crash(p)
  \/ Rotate \/ Order \/ Damage \/ Tick

-----------------------------------------------------------------------------
TypeOK ==
  /\ time \in 0..MaxTime /\ issued \in 0..MaxTokens
  /\ cache.token \in 0..MaxTokens /\ tokenLock \in Procs \cup {Nobody}
  /\ \A p \in Procs : proc[p] \in {"idle", "locking", "minting"} /\ (proc[p] = "minting" <=> tokenLock = p)
  /\ session \in 0..MaxTokens /\ (busy => session # 0)

\* The trader does not go on trading with a token that somebody has replaced in
\* the cache, however fresh the replacement is (service.py 705-715).
SupersededIsDropped == (session # 0 /\ session # cache.token) ~> (session = 0 \/ session = cache.token)
=============================================================================
