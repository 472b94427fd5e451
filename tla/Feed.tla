-------------------------------- MODULE Feed --------------------------------
(* A market feed: WebSocketRunner (transport.py) with its bounded queue, the   *)
(* handler of its frames (service.py, record_dhan), the books they fill, and   *)
(* MarketSubscriptions.sync, which changes the subscriptions of the socket     *)
(* while it may be replaced.                                                   *)
EXTENDS Integers, Sequences

CONSTANTS
  Contracts,   \* option contracts
  Bootstrap,   \* what a new connection subscribes
  Wishes,      \* sets of contracts the loop may ask for
  QueueSize,   \* the queue between receiving and processing
  WireSize,    \* frames the library and the network hold
  MaxConns,    \* bound of connections
  MaxFrames,   \* bound of frames per connection
  MaxWishes    \* bound of changes of the wish

VARIABLES
  conn,        \* the runner: how many connections there were, and where it is
  link,        \* the socket: "none", "open" or "broken"
  subs,        \* what the broker sends on it
  sent,        \* number of frames sent on it
  wire, queue, \* frames on their way, frames received
  handled,     \* number of the last frame given to on_message
  live,        \* FeedEpoch.connected
  books,       \* engine.books
  packets,     \* contracts in last_packets with this epoch
  wanted, applied, synced, \* MarketSubscriptions: synced is its epoch
  sync,        \* the send that is awaited
  desired, wishes

feedVars == <<conn, link, subs, sent, wire, queue, handled, live, books, packets>>
syncVars == <<wanted, applied, synced, sync>>
vars == <<feedVars, syncVars, desired, wishes>>

NoBook == [conn |-> 0, no |-> 0]
NoBooks == [c \in Contracts |-> NoBook]
End == [no |-> 0]
IdleSync == [at |-> "idle", conn |-> 0, add |-> {}, remove |-> {}]

\* runner.socket, 0 for None.
Socket == IF conn.at \in {"subscribing", "open"} THEN conn.n ELSE 0

-----------------------------------------------------------------------------
(* The runner *)

\* market_connect and market_disconnect clear the books.
Connect ==
  /\ conn.at = "down" /\ conn.n < MaxConns
  /\ conn' = [n |-> conn.n + 1, at |-> "subscribing"]
  /\ link' = "open" /\ subs' = {} /\ sent' = 0 /\ handled' = 0
  /\ live' = TRUE /\ books' = NoBooks /\ packets' = {}
  /\ UNCHANGED <<wire, queue, syncVars, desired, wishes>>

Disconnected(at) ==
  /\ conn' = [conn EXCEPT !.at = at]
  /\ link' = "none" /\ live' = FALSE /\ books' = NoBooks

Subscribe ==
  /\ conn.at = "subscribing" /\ link = "open"
  /\ conn' = [conn EXCEPT !.at = "open"]
  /\ subs' = Bootstrap
  /\ UNCHANGED <<link, sent, wire, queue, handled, live, books, packets, syncVars, desired, wishes>>

SubscribeFails ==
  /\ conn.at = "subscribing" /\ link = "broken"
  /\ Disconnected("down")
  /\ UNCHANGED <<subs, sent, wire, queue, handled, packets, syncVars, desired, wishes>>

ReceiveDropping == \* mutant
  /\ conn.at = "open" /\ wire # <<>>
  /\ queue' = IF Len(queue) < QueueSize THEN Append(queue, Head(wire)) ELSE queue
  /\ wire' = Tail(wire)
  /\ UNCHANGED <<conn, link, subs, sent, handled, live, books, packets, syncVars, desired, wishes>>

\* A frame waits in the library while the queue is full.
Receive ==
  /\ conn.at = "open" /\ wire # <<>> /\ Len(queue) < QueueSize
  /\ queue' = Append(queue, Head(wire)) /\ wire' = Tail(wire)
  /\ UNCHANGED <<conn, link, subs, sent, handled, live, books, packets, syncVars, desired, wishes>>

\* The end of the socket is seen behind the frames the library still holds. The
\* authority goes at once; the queued frames are processed all the same when the
\* socket was closed in order, and go with the cancelled tasks when it was not.
Notice ==
  /\ conn.at = "open" /\ link = "broken" /\ wire = <<>>
  /\ \/ Disconnected("ending") /\ UNCHANGED queue
     \/ Disconnected("down") /\ queue' = <<>>
  /\ UNCHANGED <<subs, sent, wire, handled, packets, syncVars, desired, wishes>>

PutEnd ==
  /\ conn.at = "ending" /\ Len(queue) < QueueSize
  /\ conn' = [conn EXCEPT !.at = "draining"]
  /\ queue' = Append(queue, End)
  /\ UNCHANGED <<link, subs, sent, wire, handled, live, books, packets, syncVars, desired, wishes>>

\* consume returns; run waits and connects again.
Drained ==
  /\ queue # <<>> /\ Head(queue) = End
  /\ queue' = <<>>
  /\ conn' = [conn EXCEPT !.at = "down"]
  /\ UNCHANGED <<link, subs, sent, wire, handled, live, books, packets, syncVars, desired, wishes>>

AcceptsAlways(c) == c \in wanted \* mutant
\* record_dhan ignores frames of a connection that is gone, and retired contracts.
Accepts(c) == live /\ c \in wanted

\* A frame holds one book; a packet equal to the last one of its contract is skipped.
Handle ==
  LET f == Head(queue) IN
  /\ queue # <<>> /\ f # End
  /\ queue' = Tail(queue) /\ handled' = f.no
  /\ \/ /\ Accepts(f.contract)
        /\ books' = [books EXCEPT ![f.contract] = [conn |-> f.conn, no |-> f.no]]
        /\ packets' = packets \cup {f.contract}
     \/ /\ ~Accepts(f.contract) \/ f.contract \in packets
        /\ UNCHANGED <<books, packets>>
  /\ UNCHANGED <<conn, link, subs, sent, wire, live, syncVars, desired, wishes>>

\* A frame that cannot be split costs all books, a bad packet that of its contract.
HandleBad ==
  LET f == Head(queue) IN
  /\ queue # <<>> /\ f # End /\ live
  /\ queue' = Tail(queue) /\ handled' = f.no
  /\ \/ books' = NoBooks /\ packets' = {}
     \/ /\ Accepts(f.contract)
        /\ books' = [books EXCEPT ![f.contract] = NoBook]
        /\ packets' = packets \ {f.contract}
  /\ UNCHANGED <<conn, link, subs, sent, wire, live, syncVars, desired, wishes>>

-----------------------------------------------------------------------------
(* MarketSubscriptions.sync; a message carries one contract here *)

Kept(c) == IF c \in desired THEN books[c] ELSE NoBook

AppliedNowKept == applied \* mutant
\* A new epoch starts from the bootstrap.
AppliedNow == IF synced = conn.n THEN applied ELSE Bootstrap

Started == [at |-> "sending", conn |-> conn.n,
            add |-> desired \ AppliedNow, remove |-> AppliedNow \ desired]
Nothing(s) == s.add = {} /\ s.remove = {}

SyncStart ==
  /\ sync.at = "idle"
  /\ wanted' = desired
  /\ books' = [c \in Contracts |-> Kept(c)]
  /\ IF conn.at = "open"
     THEN /\ synced' = conn.n
          /\ sync' = IF Nothing(Started) THEN IdleSync ELSE Started
          /\ applied' = IF Nothing(Started) THEN desired ELSE AppliedNow
     ELSE UNCHANGED <<sync, synced, applied>>
  /\ UNCHANGED <<conn, link, subs, sent, wire, queue, handled, live, packets, desired, wishes>>

\* Whether the broker still hears what is sent.
Heard == conn.n = sync.conn /\ link = "open"

\* Additions go before removals; a send that returns on another socket ends the change.
SyncSend ==
  /\ sync.at = "sending"
  /\ \E c \in IF sync.add # {} THEN sync.add ELSE sync.remove :
       LET rest == [sync EXCEPT !.add = @ \ {c}, !.remove = @ \ {c}] IN
       /\ subs' = IF ~Heard THEN subs ELSE IF c \in sync.add THEN subs \cup {c} ELSE subs \ {c}
       /\ sync' = IF Socket # sync.conn \/ Nothing(rest) THEN IdleSync ELSE rest
       /\ applied' = IF Socket = sync.conn /\ Nothing(rest) THEN wanted ELSE applied
  /\ UNCHANGED <<conn, link, sent, wire, queue, handled, live, books, packets, wanted, synced,
                 desired, wishes>>

\* A send fails or takes too long: the socket it was meant for is closed.
SyncFails ==
  /\ sync.at = "sending"
  /\ sync' = IdleSync
  /\ link' = IF Socket = sync.conn THEN "broken" ELSE link
  /\ UNCHANGED <<conn, subs, sent, wire, queue, handled, live, books, packets, wanted, applied,
                 synced, desired, wishes>>

-----------------------------------------------------------------------------
(* The broker and the wish *)

Send(c) ==
  /\ link = "open" /\ c \in subs
  /\ sent < MaxFrames /\ Len(wire) < WireSize
  /\ sent' = sent + 1
  /\ wire' = Append(wire, [no |-> sent + 1, conn |-> conn.n, contract |-> c])
  /\ UNCHANGED <<conn, link, subs, queue, handled, live, books, packets, syncVars, desired, wishes>>

Break ==
  /\ link = "open"
  /\ link' = "broken"
  /\ UNCHANGED <<conn, subs, sent, wire, queue, handled, live, books, packets, syncVars, desired,
                 wishes>>

\* The anchors moved, or something is held that was not.
Wish(d) ==
  /\ wishes < MaxWishes /\ d # desired
  /\ desired' = d /\ wishes' = wishes + 1
  /\ UNCHANGED <<feedVars, syncVars>>

Init ==
  /\ conn = [n |-> 0, at |-> "down"] /\ link = "none"
  /\ subs = {} /\ sent = 0 /\ wire = <<>> /\ queue = <<>> /\ handled = 0
  /\ live = FALSE /\ books = NoBooks /\ packets = {}
  /\ wanted = Bootstrap /\ applied = {} /\ synced = 0 /\ sync = IdleSync
  /\ desired = Bootstrap /\ wishes = 0

Run == Connect \/ Subscribe \/ SubscribeFails \/ Receive \/ Notice \/ PutEnd \/ Drained
         \/ Handle \/ HandleBad
Sync == SyncStart \/ SyncSend
Next == Run \/ Sync \/ SyncFails \/ Break
          \/ (\E c \in Contracts : Send(c)) \/ (\E d \in Wishes : Wish(d))

-----------------------------------------------------------------------------
(* Properties *)

TypeOK ==
  /\ conn \in [n : 0..MaxConns, at : {"down", "subscribing", "open", "ending", "draining"}]
  /\ link \in {"none", "open", "broken"} /\ live \in BOOLEAN
  /\ subs \subseteq Contracts /\ packets \subseteq Contracts
  /\ wanted \subseteq Contracts /\ applied \subseteq Contracts /\ desired \subseteq Contracts
  /\ Len(wire) <= WireSize /\ Len(queue) <= QueueSize
  /\ books \in [Contracts -> [conn : 0..MaxConns, no : 0..MaxFrames]]

\* A book that may be traded on was received on the connection that is up, after
\* it came up, and belongs to a contract that is wanted: no frame that was still
\* queued when the socket went brings one back (transport.py 105-109, service.py
\* 396, 440).
BooksAreLive ==
  \A c \in Contracts : books[c] # NoBook => live /\ books[c].conn = conn.n /\ c \in wanted

\* The mark of the end is behind all frames.
Frames == IF queue # <<>> /\ queue[Len(queue)] = End THEN SubSeq(queue, 1, Len(queue) - 1) ELSE queue
Waiting == Frames \o wire

\* Back-pressure neither drops nor reorders a frame while the socket is there, nor
\* when it is closed in order: what is queued and what is on the wire continues what
\* was handled (transport.py 92-104, 112-117).
NothingSkipped ==
  conn.at # "down" =>
    /\ handled + Len(Waiting) = sent
    /\ \A i \in 1..Len(Waiting) : Waiting[i].no = handled + i

\* On a connection that stays, the broker ends up sending what is wanted, whatever
\* half-done change an earlier socket left (market_subscriptions.py 37-59).
Stays == conn.at = "open" /\ link = "open"
WantedIsSubscribed == <>[]Stays => <>[](subs = desired)
=============================================================================
