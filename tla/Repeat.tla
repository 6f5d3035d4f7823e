------------------------------- MODULE Repeat -------------------------------
(***************************************************************************)
(* Selective repeat (paqetz, repeat.rs) in one direction: the sender's     *)
(* Outbox, the receiver's Inbox, and the handlers of tunnel.rs that join   *)
(* them over a path that loses, delays and reorders.                       *)
(*                                                                         *)
(* An inner packet is named by the session and counter it first went out   *)
(* under.  A sealed packet is removed from the path when it is delivered:  *)
(* the replay window (ReplayWindow) takes each at most once.               *)
(***************************************************************************)
EXTENDS Integers, FiniteSets

CONSTANTS
    CAPACITY, DEADLINE, ASKS, REORDER,  \* Limits
    MAX_OUTSTANDING, ASK_SCAN,          \* 512 and 8 in the code
    RekeyMidway,    \* an expired session may yield while W is answering a request
    MaxSid,         \* bound: sessions
    MaxCounter,     \* bound: packets sealed under one session
    MaxTime         \* bound: the clock

ASSUME RepeatAssumption ==
    /\ {CAPACITY, ASKS, REORDER, MAX_OUTSTANDING, ASK_SCAN, MaxSid} \subseteq Nat \ {0}
    /\ {DEADLINE, MaxCounter, MaxTime} \subseteq Nat
    /\ RekeyMidway \in BOOLEAN

VARIABLES
    now,
    sid, counter,       \* sender: the session it seals under, its next counter
    outbox,             \* sender: the ring
    owed,               \* sender: repeats its W has still to send
    path,               \* sealed packets on their way to the receiver
    requests,           \* Nacks on their way to the sender
    index, highest, gaps,   \* receiver: the Inbox
    asked,              \* history: every counter asked for, and in which request
    arrivals,           \* history: sealed packets the receiver opened
    delivered,          \* history: sealed packets whose inner packet was written to the device
    straddled,          \* history: the session changed while W was answering a request
    reverted            \* history: a packet of a session came after one of a later session

inbox == <<index, highest, gaps>>
turns == <<straddled, reverted>>
vars  == <<now, sid, counter, outbox, owed, path, requests, inbox, asked, arrivals, delivered, turns>>

None    == -1
Sids    == 1 .. MaxSid
Counter == 0 .. MaxCounter - 1
Time    == 0 .. MaxTime
Slots   == 0 .. CAPACITY - 1
Name    == [sid : Sids, ctr : Counter]          \* of an inner packet
Empty   == [ctr |-> None, at |-> 0, pkt |-> None]
Gap     == [seen : Time, asked_at : Counter \cup {None}, asks : 0 .. ASKS]

\* What a sealed packet carries: an inner packet, or one sent again.
Sealed  == [sid : Sids, ctr : Counter, again : BOOLEAN, original : Counter, pkt : Name]

TypeOK ==
    /\ now \in Time
    /\ sid \in Sids /\ counter \in 0 .. MaxCounter
    /\ \A s \in Slots : /\ outbox[s].ctr \in Counter \cup {None} /\ outbox[s].at \in Time
                        /\ outbox[s].ctr # None => outbox[s].pkt \in Name
    /\ owed \subseteq [original : Counter, pkt : Name]
    /\ path \subseteq Sealed
    /\ \A r \in requests : r.want \subseteq Counter
    /\ index \in Sids \cup {None}
    /\ highest \in Counter \cup {None}
    /\ DOMAIN gaps \subseteq Counter /\ \A c \in DOMAIN gaps : gaps[c] \in Gap
    /\ asked \subseteq [sid : Sids, ctr : Counter, by : Counter]
    /\ arrivals \subseteq Name /\ delivered \subseteq Sealed
    /\ straddled \in BOOLEAN /\ reverted \in BOOLEAN

-----------------------------------------------------------------------------
(* The Outbox. *)

slot(c) == c % CAPACITY

record(c, pkt) == [outbox EXCEPT ![slot(c)] = [ctr |-> c, at |-> now, pkt |-> pkt]]

\* Mutant of clear: what was held stays held.
ClearNothing == outbox

\* Outbox::clear forgets the counters and keeps the buffers.
clear == [s \in Slots |-> [outbox[s] EXCEPT !.ctr = None]]

\* Outbox::get finds a packet by its slot, if the slot still holds it.
gets(c) == outbox[slot(c)].ctr = c /\ now - outbox[slot(c)].at <= DEADLINE

-----------------------------------------------------------------------------
(* Inbox::arrived, from the packet that arrived to the counters to ask for. *)

\* The n smallest of a set of counters.
Lowest(n, S) == {c \in S : Cardinality({d \in S : d < c}) < n}

\* A packet of another session starts the counter space over.
SameSession(i) == index = i
OldHighest(i) == IF SameSession(i) THEN highest ELSE None

\* Mutant of OldGaps: a packet that turns up late leaves its gap open.
OldGapsKept(i, c) == IF SameSession(i) THEN gaps ELSE << >>

OldGaps(i, c) == IF SameSession(i) THEN [d \in DOMAIN gaps \ {c} |-> gaps[d]] ELSE << >>

NewHighest(i, c) == IF c > OldHighest(i) THEN c ELSE OldHighest(i)

\* The counters skipped over, as far as there is room for them.
NewlyMissing(i, c) ==
    IF OldHighest(i) = None THEN {}
    ELSE Lowest(MAX_OUTSTANDING - Cardinality(DOMAIN OldGaps(i, c)), OldHighest(i) + 1 .. c - 1)

Noticed(i, c) ==
    [d \in DOMAIN OldGaps(i, c) \cup NewlyMissing(i, c) |->
        IF d \in DOMAIN OldGaps(i, c) THEN OldGaps(i, c)[d]
        ELSE [seen |-> now, asked_at |-> None, asks |-> 0]]

\* Gaps are given up from the front, up to the first that is young enough.
Abandoned(g) == {d \in DOMAIN g : \A e \in DOMAIN g : e <= d => now - g[e].seen > DEADLINE}
Wanted(g) == [d \in DOMAIN g \ Abandoned(g) |-> g[d]]

\* A gap is called a loss once the stream has moved REORDER past it, or past
\* where it was last asked about.
Moved(g, high, d) == high - (IF g[d].asked_at = None THEN d ELSE g[d].asked_at)
Ask(g, high) == {d \in Lowest(ASK_SCAN, DOMAIN g) : Moved(g, high, d) >= REORDER}

\* Mutants of Asked: an ask leaves no trace; an ask starts the gap's deadline over.
AskedUnnoted(g, high) == g

AskedAfresh(g, high) ==
    LET ask == Ask(g, high)
    IN  [d \in {d \in DOMAIN g : d \in ask => g[d].asks + 1 < ASKS} |->
            IF d \in ask THEN [g[d] EXCEPT !.asks = @ + 1, !.asked_at = high, !.seen = now]
            ELSE g[d]]

\* Asked for once more; a gap asked for often enough is let go with that.
Asked(g, high) ==
    LET ask == Ask(g, high)
        spent == {d \in ask : g[d].asks + 1 >= ASKS}
    IN  [d \in DOMAIN g \ spent |->
            IF d \in ask THEN [g[d] EXCEPT !.asks = @ + 1, !.asked_at = high] ELSE g[d]]

-----------------------------------------------------------------------------
Init ==
    /\ now = 0
    /\ sid = 1 /\ counter = 0
    /\ outbox = [s \in Slots |-> Empty]
    /\ owed = {}
    /\ path = {} /\ requests = {}
    /\ index = None /\ highest = None /\ gaps = << >>
    /\ asked = {} /\ arrivals = {} /\ delivered = {}
    /\ straddled = FALSE /\ reverted = FALSE

Tick == /\ now < MaxTime
        /\ now' = now + 1
        /\ UNCHANGED <<sid, counter, outbox, owed, path, requests, inbox, asked, arrivals, delivered, turns>>

Here == [sid |-> sid, ctr |-> counter]

\* T, seal_into: an inner packet goes out and is held for repeating.
SendData ==
    /\ counter < MaxCounter
    /\ counter' = counter + 1
    /\ path' = path \cup {[sid |-> sid, ctr |-> counter, again |-> FALSE,
                           original |-> counter, pkt |-> Here]}
    /\ outbox' = record(counter, Here)
    /\ UNCHANGED <<now, sid, owed, requests, inbox, asked, arrivals, delivered, turns>>

\* PeerState::install and ::confirm: a new session, and nothing held from the
\* old one.  W installs between packets; an expired session yields in seal_into
\* at any time.
Rekey ==
    /\ sid < MaxSid
    /\ owed = {} \/ RekeyMidway
    /\ sid' = sid + 1
    /\ counter' = 0
    /\ outbox' = clear
    /\ straddled' = (straddled \/ owed # {})
    /\ UNCHANGED <<now, owed, path, requests, inbox, asked, arrivals, delivered, reverted>>

\* W, handle_transport on a Nack: what is asked for and still held is copied
\* while the lock is held.
HandleNack(r) ==
    /\ owed = {}
    /\ r \in requests
    /\ requests' = requests \ {r}
    /\ owed' = {[original |-> c, pkt |-> outbox[slot(c)].pkt] : c \in {d \in r.want : gets(d)}}
    /\ UNCHANGED <<now, sid, counter, outbox, path, inbox, asked, arrivals, delivered, turns>>

\* W, repeat(): the copies go out one by one, each freshly sealed and not held.
SendRepeat(o) ==
    /\ o \in owed /\ \A q \in owed : o.original <= q.original
    /\ counter < MaxCounter
    /\ counter' = counter + 1
    /\ owed' = owed \ {o}
    /\ path' = path \cup {[sid |-> sid, ctr |-> counter, again |-> TRUE,
                           original |-> o.original, pkt |-> o.pkt]}
    /\ UNCHANGED <<now, sid, outbox, requests, inbox, asked, arrivals, delivered, turns>>

\* send_inner carries nothing while the connection is opening or when the
\* session has expired; the copy is gone, and no counter is spent.
LoseRepeat(o) ==
    /\ o \in owed /\ \A q \in owed : o.original <= q.original
    /\ owed' = owed \ {o}
    /\ UNCHANGED <<now, sid, counter, outbox, path, requests, inbox, asked, arrivals, delivered, turns>>

\* The receiver holds the sender's session and the one before it.
Opens(p) == p.sid >= sid - 1

\* Inbox::arrived, and the request its answer makes.
Arrive(p) ==
    LET high == NewHighest(p.sid, p.ctr)
        open == Wanted(Noticed(p.sid, p.ctr))
        ask  == Ask(open, high)
    IN  /\ index' = p.sid
        /\ highest' = high
        /\ gaps' = [d \in DOMAIN Asked(open, high) \ (IF p.again THEN {p.original} ELSE {})
                       |-> Asked(open, high)[d]]
        /\ requests' = IF ask = {} THEN requests
                       ELSE requests \cup {[want |-> ask, on |-> p.sid, by |-> p.ctr]}
        /\ asked' = asked \cup {[sid |-> p.sid, ctr |-> d, by |-> p.ctr] : d \in ask}

\* Mutant of Satisfied: every repeat is wanted.
AlwaysSatisfied(p) == TRUE

\* Inbox::satisfied, on what `arrived` has just left.
Satisfied(p) ==
    p.original \in DOMAIN Asked(Wanted(Noticed(p.sid, p.ctr)), NewHighest(p.sid, p.ctr))

\* W, handle_transport at the receiver: a repeat is delivered only while its
\* gap is open, anything else always.
Receive(p) ==
    /\ p \in path
    /\ Opens(p)
    /\ path' = path \ {p}
    /\ Arrive(p)
    /\ arrivals' = arrivals \cup {[sid |-> p.sid, ctr |-> p.ctr]}
    /\ delivered' = IF p.again /\ ~Satisfied(p) THEN delivered ELSE delivered \cup {p}
    /\ reverted' = (reverted \/ p.sid < index)
    /\ UNCHANGED <<now, sid, counter, outbox, owed, straddled>>

Next ==
    \/ Tick \/ SendData \/ Rekey
    \/ \E r \in requests : HandleNack(r)
    \/ \E o \in owed : SendRepeat(o) \/ LoseRepeat(o)
    \/ \E p \in path : Receive(p)

Spec == Init /\ [][Next]_vars

-----------------------------------------------------------------------------
\* What a repeat that was written to the device carried, and whether a repeat is
\* the first to bring it.
RightPacket == \A p \in delivered : p.again => p.pkt = [sid |-> p.sid, ctr |-> p.original]

FirstCopy == \A p \in delivered' \ delivered : p.again => \A q \in delivered : q.pkt # p.pkt

\* A repeat that fills a gap carries the packet that was missing, not one that
\* took its slot in the ring or its counter in another session, across any
\* number of rekeys, unless one fell while a request was being answered
\* (Outbox::get, ::clear; Inbox::arrived starting over).
RepairsAcrossRekey == ~straddled => RightPacket

\* The same wherever a session yields: the comment on clearing the outbox says
\* that "correctness should not rest on a packet being too old to be wrong".
RepairsTheRightPacket == RightPacket

\* A repeat is never written to the device when its packet already has been: not
\* after the original, not after another repeat of it.  Sessions may change, so
\* long as the receiver sees one after the other (Inbox::satisfied).
NeverDuplicates == [][~straddled /\ ~reverted => FirstCopy]_vars

\* The same with packets of two sessions interleaved: the comment of
\* Inbox::satisfied says that "Delivering it would put the same inner packet on
\* the device twice" is why a second copy is refused.
NeverDuplicatesAcross == [][FirstCopy]_vars

\* A gap is a counter below the high-water mark; and unless packets of two
\* sessions were interleaved it is one that has not arrived, so nothing is asked
\* for that the receiver already has (Inbox::arrived removing what arrives).
GapsAreMissing ==
    \A c \in DOMAIN gaps : /\ c < highest
                           /\ ~reverted => [sid |-> index, ctr |-> c] \notin arrivals

\* Giving gaps up from the front gives up every one past its deadline: the
\* order of the counters is the order in which they were noticed
\* (Inbox::arrived, "the oldest are at the front").
OldestAtFront ==
    \A c, d \in DOMAIN gaps : c <= d => gaps[c].seen <= gaps[d].seen

\* What the inbox takes to be missing is missing, and the front one is the oldest.
GapsMissing == GapsAreMissing /\ OldestAtFront

\* The requests that asked for a counter of a session.
RequestsFor(s, c) == {a \in asked : a.sid = s /\ a.ctr = c}

\* No counter is asked for more than Limits::asks times, however the stream
\* around it is reordered, unless packets of two sessions were interleaved
\* (Inbox::arrived).
AskedAtMostTimes ==
    ~reverted => \A a \in asked : Cardinality(RequestsFor(a.sid, a.ctr)) <= ASKS
=============================================================================
