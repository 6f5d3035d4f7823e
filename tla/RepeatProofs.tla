---------------------------- MODULE RepeatProofs ----------------------------
(***************************************************************************)
(* Proofs about Repeat, for every ring size, every setting of Limits and   *)
(* any number of sessions, packets and requests.                           *)
(***************************************************************************)
EXTENDS Repeat, FiniteSetTheorems, TLAPS

(* A slot of the ring has its three fields whether or not it is in use.    *)
TypeInv ==
  /\ TypeOK
  /\ outbox \in [Slots -> [ctr : Counter \cup {None}, at : Time, pkt : Name \cup {None}]]

(* What the sender holds, owes and has sent again is named by the counter  *)
(* it first went out under: the ring by its own session, what is owed by   *)
(* the same unless the session changed meanwhile, and what is under way by *)
(* the session it is sealed under.                                         *)
SenderInv ==
  /\ \A s \in Slots :
       outbox[s].ctr # None => outbox[s].pkt = [sid |-> sid, ctr |-> outbox[s].ctr]
  /\ \A p \in path : ~p.again => p.pkt = [sid |-> p.sid, ctr |-> p.ctr]
  /\ ~straddled => /\ \A o \in owed : o.pkt = [sid |-> sid, ctr |-> o.original]
                   /\ \A p \in path : p.again => p.pkt = [sid |-> p.sid, ctr |-> p.original]
                   /\ RightPacket

(* A counter of a session is behind the receiver: of an earlier session,   *)
(* or one it has seen the stream pass and is not waiting for.              *)
Behind(name) ==
  name.sid < index \/ (name.sid = index /\ name.ctr <= highest /\ name.ctr \notin DOMAIN gaps)

(* Gaps lie below the high-water mark, in the order they were noticed, and *)
(* can be asked for again.  Everything that has arrived is behind the      *)
(* receiver, and so is everything it has delivered.                        *)
InboxInv ==
  /\ \A c \in DOMAIN gaps : c < highest /\ gaps[c].asks < ASKS /\ gaps[c].seen <= now
  /\ OldestAtFront
  /\ ~reverted => \A a \in arrivals : Behind(a)
  /\ ~reverted /\ ~straddled => \A p \in delivered : Behind(p.pkt)

(* A gap counts the requests it was part of, and nothing beyond the        *)
(* high-water mark has been asked for.                                     *)
AskInv ==
  /\ \A s \in Sids, c \in Counter : IsFiniteSet(RequestsFor(s, c))
  /\ ~reverted =>
       /\ \A a \in asked : a.sid < index \/ (a.sid = index /\ a.ctr <= highest)
       /\ \A c \in DOMAIN gaps : Cardinality(RequestsFor(index, c)) <= gaps[c].asks
       /\ AskedAtMostTimes

Inv == TypeInv /\ SenderInv /\ InboxInv /\ AskInv

-----------------------------------------------------------------------------
(* The constants, one by one.                                              *)
LEMMA Constants ==
  /\ CAPACITY \in Nat /\ CAPACITY >= 1 /\ ASKS \in Nat /\ ASKS >= 1
  /\ REORDER \in Nat /\ REORDER >= 1 /\ MaxSid \in Nat /\ MaxSid >= 1
  /\ DEADLINE \in Nat /\ MaxCounter \in Nat /\ MaxTime \in Nat
BY RepeatAssumption

(* A counter's slot is one of the ring's (Outbox::slot).                   *)
LEMMA SlotInRing == ASSUME NEW c \in Nat PROVE slot(c) \in Slots
BY Constants DEF slot, Slots

(* The inbox as a packet finds it: an earlier session's gaps are gone, and *)
(* so is the gap of the packet itself (Inbox::arrived, its first lines).   *)
LEMMA OldGapsAre ==
  ASSUME NEW i, NEW c
  PROVE  /\ \A d \in DOMAIN OldGaps(i, c) :
              i = index /\ d \in DOMAIN gaps /\ d # c /\ OldGaps(i, c)[d] = gaps[d]
         /\ i # index => DOMAIN OldGaps(i, c) = {}
<1>1. CASE i = index
  BY <1>1 DEF OldGaps, SameSession
<1>2. CASE i # index
  BY <1>2 DEF OldGaps, SameSession
<1>3. QED
  BY <1>1, <1>2

(* The counters found missing lie above the old mark and below the packet. *)
LEMMA NewlyMissingAre ==
  ASSUME TypeOK, NEW i, NEW c \in Counter, NEW d \in NewlyMissing(i, c)
  PROVE  i = index /\ highest # None /\ d \in Counter /\ highest < d /\ d < c
<1>1. OldHighest(i) # None /\ d \in OldHighest(i) + 1 .. c - 1
  BY DEF NewlyMissing, Lowest
<1>2. i = index /\ highest # None /\ d \in highest + 1 .. c - 1 /\ highest \in Counter
  BY <1>1 DEF OldHighest, SameSession, TypeOK
<1>3. QED
  BY <1>2, Constants DEF Counter

(* What is noticed is what was open and what was found missing.            *)
LEMMA NoticedAre ==
  ASSUME TypeOK, NEW i, NEW c \in Counter, NEW d \in DOMAIN Noticed(i, c)
  PROVE  /\ i = index /\ d \in Counter /\ d # c
         /\ \/ d \in DOMAIN gaps /\ Noticed(i, c)[d] = gaps[d]
            \/ /\ highest # None /\ highest < d /\ d < c
               /\ Noticed(i, c)[d] = [seen |-> now, asked_at |-> None, asks |-> 0]
<1>1. CASE d \in DOMAIN OldGaps(i, c)
  <2>1. Noticed(i, c)[d] = OldGaps(i, c)[d]
    BY <1>1 DEF Noticed
  <2>2. QED
    BY <1>1, <2>1, OldGapsAre DEF TypeOK
<1>2. CASE d \notin DOMAIN OldGaps(i, c)
  <2>1. d \in NewlyMissing(i, c)
    BY <1>2 DEF Noticed
  <2>2. Noticed(i, c)[d] = [seen |-> now, asked_at |-> None, asks |-> 0]
    BY <1>2, <2>1 DEF Noticed
  <2>3. i = index /\ highest # None /\ d \in Counter /\ highest < d /\ d < c
    BY <2>1, NewlyMissingAre
  <2>4. d # c
    BY <2>3 DEF Counter
  <2>5. QED
    BY <2>2, <2>3, <2>4
<1>3. QED
  BY <1>1, <1>2

(* Giving gaps up and asking for others leaves each of the rest as it was  *)
(* noticed, apart from the count and the place of its last request.        *)
LEMMA AskedAre ==
  ASSUME NEW g, NEW high, NEW d \in DOMAIN Asked(Wanted(g), high),
         g[d] \in [seen : Time, asked_at : Counter \cup {None}, asks : 0 .. ASKS - 1],
         high \in Counter
  PROVE  /\ d \in DOMAIN g
         /\ Asked(Wanted(g), high)[d] \in Gap
         /\ Asked(Wanted(g), high)[d].seen = g[d].seen
         /\ Asked(Wanted(g), high)[d].asks < ASKS
         /\ d \in Ask(Wanted(g), high) => Asked(Wanted(g), high)[d].asks = g[d].asks + 1
         /\ d \notin Ask(Wanted(g), high) => Asked(Wanted(g), high)[d].asks = g[d].asks
<1> DEFINE W == Wanted(g)
           A == Asked(W, high)
<1>1. d \in DOMAIN W
  BY DEF Asked
<1>2. d \in DOMAIN g /\ W[d] = g[d]
  BY <1>1 DEF Wanted
<1>3. CASE d \in Ask(W, high)
  <2>1. A[d] = [g[d] EXCEPT !.asks = @ + 1, !.asked_at = high]
    BY <1>2, <1>3 DEF Asked
  <2>2. ~(g[d].asks + 1 >= ASKS)
    BY <1>2, <1>3 DEF Asked
  <2>3. A[d] = [seen |-> g[d].seen, asked_at |-> high, asks |-> g[d].asks + 1]
    BY <2>1, Zenon
  <2>4. g[d].seen \in Time /\ g[d].asks \in 0 .. ASKS - 1
    OBVIOUS
  <2>5. g[d].asks + 1 \in 0 .. ASKS /\ g[d].asks + 1 < ASKS
    BY <2>2, <2>4, Constants
  <2>6. QED
    BY <1>2, <1>3, <2>3, <2>4, <2>5 DEF Gap
<1>4. CASE d \notin Ask(W, high)
  <2>1. A[d] = g[d]
    BY <1>1, <1>2, <1>4 DEF Asked
  <2>2. QED
    BY <1>2, <1>4, <2>1, Constants DEF Gap
<1>5. QED
  BY <1>3, <1>4

(* The mark moves up within a session, and starts over with a new one.     *)
LEMMA NewHighestIs ==
  ASSUME TypeOK, NEW i, NEW c \in Counter
  PROVE  /\ NewHighest(i, c) \in Counter /\ NewHighest(i, c) >= c
         /\ i = index => NewHighest(i, c) >= highest
BY Constants DEF TypeOK, NewHighest, OldHighest, SameSession, Counter, None

(* A gap as it was noticed can be asked for.                               *)
LEMMA NoticedCanBeAsked ==
  ASSUME TypeOK, InboxInv, NEW i, NEW c \in Counter, NEW d \in DOMAIN Noticed(i, c)
  PROVE  Noticed(i, c)[d] \in [seen : Time, asked_at : Counter \cup {None}, asks : 0 .. ASKS - 1]
<1>1. CASE d \in DOMAIN gaps /\ Noticed(i, c)[d] = gaps[d]
  <2>1. gaps[d] \in Gap /\ gaps[d].asks < ASKS
    BY <1>1 DEF TypeOK, InboxInv
  <2>2. QED
    BY <1>1, <2>1, Constants DEF Gap
<1>2. CASE Noticed(i, c)[d] = [seen |-> now, asked_at |-> None, asks |-> 0]
  BY <1>2, Constants DEF TypeOK
<1>3. QED
  BY <1>1, <1>2, NoticedAre

(* Each gap that is open after a packet arrived: where it lies, and what   *)
(* it was before (Inbox::arrived and ::satisfied).                         *)
LEMMA GapsAfter ==
  ASSUME TypeOK, InboxInv, NEW p \in path, Receive(p), NEW d \in DOMAIN gaps'
  PROVE  /\ index = p.sid /\ d \in Counter /\ d < highest' /\ d # p.ctr
         /\ p.again => d # p.original
         /\ gaps'[d] \in Gap /\ gaps'[d].asks < ASKS
         /\ d \in DOMAIN Noticed(p.sid, p.ctr)
         /\ gaps'[d].seen = Noticed(p.sid, p.ctr)[d].seen
         /\ LET ask == Ask(Wanted(Noticed(p.sid, p.ctr)), NewHighest(p.sid, p.ctr))
            IN  gaps'[d].asks = Noticed(p.sid, p.ctr)[d].asks + (IF d \in ask THEN 1 ELSE 0)
<1> DEFINE N == Noticed(p.sid, p.ctr)
           high == NewHighest(p.sid, p.ctr)
           A == Asked(Wanted(N), high)
           ask == Ask(Wanted(N), high)
<1>1. p.sid \in Sids /\ p.ctr \in Counter
  BY DEF TypeOK, Sealed
<1>2. high \in Counter /\ high >= p.ctr /\ (p.sid = index => high >= highest)
  BY <1>1, NewHighestIs
<1>3. highest' = high
  BY DEF Receive, Arrive
<1>4. d \in DOMAIN A /\ gaps'[d] = A[d] /\ (p.again => d # p.original)
  BY DEF Receive, Arrive
<1>5. d \in DOMAIN N
  BY <1>4 DEF Asked, Wanted
<1>6. N[d] \in [seen : Time, asked_at : Counter \cup {None}, asks : 0 .. ASKS - 1]
  BY <1>1, <1>5, NoticedCanBeAsked
<1>7. /\ A[d] \in Gap /\ A[d].seen = N[d].seen /\ A[d].asks < ASKS
      /\ d \in ask => A[d].asks = N[d].asks + 1
      /\ d \notin ask => A[d].asks = N[d].asks
  BY <1>2, <1>4, <1>6, AskedAre
<1>8. /\ p.sid = index /\ d \in Counter /\ d # p.ctr
      /\ (d \in DOMAIN gaps) \/ d < p.ctr
  BY <1>1, <1>5, NoticedAre
<1>9. d < high
  <2>1. CASE d \in DOMAIN gaps
    <3>1. d < highest /\ highest \in Counter \cup {None}
      BY <2>1 DEF InboxInv, TypeOK
    <3>2. QED
      BY <1>2, <1>8, <3>1, Constants DEF Counter, None
  <2>2. CASE d < p.ctr
    BY <1>1, <1>2, <1>8, <2>2, Constants DEF Counter
  <2>3. QED
    BY <1>8, <2>1, <2>2
<1>10. A[d].asks = N[d].asks + (IF d \in ask THEN 1 ELSE 0)
  BY <1>6, <1>7, Constants
<1>11. QED
  BY <1>3, <1>4, <1>5, <1>7, <1>8, <1>9, <1>10

(* What is asked for has been noticed.                                     *)
LEMMA AskIsNoticed ==
  ASSUME NEW g, NEW high, NEW d \in Ask(Wanted(g), high)
  PROVE  d \in DOMAIN g
BY DEF Ask, Lowest, Wanted

(* The requests after a packet: each gap it asked for is in one more.      *)
LEMMA ReceiveAsks ==
  ASSUME TypeInv, InboxInv, AskInv, NEW p \in path, Receive(p)
  PROVE  AskInv'
<1> DEFINE N == Noticed(p.sid, p.ctr)
           high == NewHighest(p.sid, p.ctr)
           ask == Ask(Wanted(N), high)
           one(c) == [sid |-> p.sid, ctr |-> c, by |-> p.ctr]
<1>1. /\ TypeOK /\ p.sid \in Sids /\ p.ctr \in Counter
      /\ asked \subseteq [sid : Sids, ctr : Counter, by : Counter]
      /\ highest \in Counter \cup {None} /\ index \in Sids \cup {None}
  BY DEF TypeInv, TypeOK, Sealed
<1>2. index' = p.sid /\ highest' = high /\ asked' = asked \cup {one(d) : d \in ask}
  BY DEF Receive, Arrive
<1>3. high \in Counter /\ high >= p.ctr /\ (p.sid = index => high >= highest)
  BY <1>1, NewHighestIs
<1>4. ASSUME NEW d \in ask
      PROVE  /\ d \in DOMAIN N /\ p.sid = index /\ d \in Counter /\ d <= high
  <2>1. d \in DOMAIN N
    BY AskIsNoticed
  <2>2. p.sid = index /\ d \in Counter /\ (d \in DOMAIN gaps \/ d < p.ctr)
    BY <1>1, <2>1, NoticedAre
  <2>3. d < highest \/ d < p.ctr
    BY <2>2 DEF InboxInv
  <2>4. d <= high
    BY <1>1, <1>3, <2>2, <2>3, Constants DEF Counter, None
  <2>5. QED
    BY <2>1, <2>2, <2>4
<1>5. ASSUME NEW s \in Sids, NEW c \in Counter
      PROVE  /\ ~(s = p.sid /\ c \in ask) => RequestsFor(s, c)' = RequestsFor(s, c)
             /\ s = p.sid /\ c \in ask => RequestsFor(s, c)' = RequestsFor(s, c) \cup {one(c)}
  BY <1>2 DEF RequestsFor
<1>6. ASSUME NEW s \in Sids, NEW c \in Counter
      PROVE  /\ IsFiniteSet(RequestsFor(s, c)) /\ Cardinality(RequestsFor(s, c)) \in Nat
             /\ IsFiniteSet(RequestsFor(s, c)')
             /\ ~(s = p.sid /\ c \in ask) =>
                  Cardinality(RequestsFor(s, c)') = Cardinality(RequestsFor(s, c))
             /\ Cardinality(RequestsFor(s, c)') <= Cardinality(RequestsFor(s, c)) + 1
             /\ Cardinality(RequestsFor(s, c)') \in Nat
  <2>1. IsFiniteSet(RequestsFor(s, c)) /\ Cardinality(RequestsFor(s, c)) \in Nat
    BY FS_CardinalityType DEF AskInv
  <2>2. CASE ~(s = p.sid /\ c \in ask)
    BY <1>5, <2>1, <2>2
  <2>3. CASE s = p.sid /\ c \in ask
    <3>1. RequestsFor(s, c)' = RequestsFor(s, c) \cup {one(c)}
      BY <1>5, <2>3
    <3>2. /\ IsFiniteSet(RequestsFor(s, c) \cup {one(c)})
          /\ \/ Cardinality(RequestsFor(s, c) \cup {one(c)}) = Cardinality(RequestsFor(s, c))
             \/ Cardinality(RequestsFor(s, c) \cup {one(c)}) = Cardinality(RequestsFor(s, c)) + 1
      BY <2>1, FS_AddElement, Zenon
    <3>3. QED
      BY <2>1, <2>3, <3>1, <3>2
  <2>4. QED
    BY <2>2, <2>3
<1>7. ~reverted' => ~reverted /\ p.sid >= index
  <2>1. ~reverted' => ~reverted /\ ~(p.sid < index)
    BY ZenonT(40) DEF Receive
  <2>2. QED
    BY <1>1, <2>1, Constants DEF Sids, None
<1>8. ASSUME ~reverted, NEW d \in DOMAIN N
      PROVE  /\ d \in Counter /\ p.sid = index /\ N[d].asks \in 0 .. ASKS - 1
             /\ Cardinality(RequestsFor(p.sid, d)) <= N[d].asks
  <2>1. p.sid = index /\ d \in Counter
    BY <1>1, NoticedAre
  <2>2. N[d].asks \in 0 .. ASKS - 1
    BY <1>1, NoticedCanBeAsked
  <2>3. CASE d \in DOMAIN gaps /\ N[d] = gaps[d]
    BY <1>8, <2>1, <2>2, <2>3 DEF AskInv
  <2>4. CASE highest < d
    <3>1. RequestsFor(p.sid, d) = {}
      <4>1. ASSUME NEW a \in asked, a.sid = p.sid, a.ctr = d PROVE FALSE
        <5>1. a.sid < index \/ a.ctr <= highest
          BY <1>8 DEF AskInv
        <5>2. QED
          BY <1>1, <2>1, <2>4, <4>1, <5>1, Constants DEF Sids, Counter, None
      <4>2. QED
        BY <4>1 DEF RequestsFor
    <3>2. Cardinality(RequestsFor(p.sid, d)) = 0
      BY <3>1, FS_EmptySet
    <3>3. QED
      BY <2>1, <2>2, <3>2, Constants
  <2>5. QED
    BY <1>1, <2>3, <2>4, NoticedAre
<1>9. ASSUME ~reverted', NEW a \in asked'
      PROVE  a.sid < index' \/ (a.sid = index' /\ a.ctr <= highest')
  <2>1. CASE a \in asked
    <3>1. a.sid < index \/ (a.sid = index /\ a.ctr <= highest)
      BY <1>7, <1>9, <2>1 DEF AskInv
    <3>2. a.sid \in Sids /\ a.ctr \in Counter
      BY <1>1, <2>1
    <3>3. QED
      BY <1>1, <1>2, <1>3, <1>7, <1>9, <3>1, <3>2, Constants DEF Sids, Counter, None
  <2>2. CASE \E d \in ask : a = one(d)
    BY <1>2, <1>4, <2>2
  <2>3. QED
    BY <1>2, <2>1, <2>2
<1>10. ASSUME ~reverted', NEW d \in DOMAIN gaps'
       PROVE  Cardinality(RequestsFor(p.sid, d)') <= gaps'[d].asks
  <2>1. /\ d \in DOMAIN N
        /\ gaps'[d].asks = N[d].asks + (IF d \in ask THEN 1 ELSE 0)
    BY <1>1, GapsAfter
  <2>2. d \in Counter /\ N[d].asks \in 0 .. ASKS - 1 /\ Cardinality(RequestsFor(p.sid, d)) <= N[d].asks
    BY <1>7, <1>8, <1>10, <2>1
  <2>3. CASE d \in ask
    BY <1>1, <1>6, <2>1, <2>2, <2>3, Constants
  <2>4. CASE d \notin ask
    BY <1>1, <1>6, <2>1, <2>2, <2>4, Constants
  <2>5. QED
    BY <2>3, <2>4
<1>11. ASSUME ~reverted', NEW a \in asked'
       PROVE  Cardinality(RequestsFor(a.sid, a.ctr)') <= ASKS
  <2>1. CASE a.sid = p.sid /\ a.ctr \in ask
    <3>1. a.ctr \in DOMAIN N /\ a.ctr \in Counter
      BY <1>4, <2>1
    <3>2. N[a.ctr].asks \in 0 .. ASKS - 1 /\ Cardinality(RequestsFor(p.sid, a.ctr)) <= N[a.ctr].asks
      BY <1>7, <1>8, <1>11, <3>1
    <3>3. QED
      BY <1>1, <1>6, <2>1, <3>1, <3>2, Constants
  <2>2. CASE ~(a.sid = p.sid /\ a.ctr \in ask)
    <3>1. a \in asked
      BY <1>2, <2>2
    <3>2. a.sid \in Sids /\ a.ctr \in Counter
      BY <1>1, <3>1
    <3>3. Cardinality(RequestsFor(a.sid, a.ctr)) <= ASKS
      BY <1>7, <1>11, <3>1 DEF AskInv, AskedAtMostTimes
    <3>4. QED
      BY <1>6, <2>2, <3>2, <3>3
  <2>3. QED
    BY <2>1, <2>2
<1>12. QED
  BY <1>2, <1>6, <1>9, <1>10, <1>11, Zenon DEF AskInv, AskedAtMostTimes

(* A packet the sender has sealed.                                         *)
LEMMA SealedIs ==
  ASSUME NEW s \in Sids, NEW c \in Counter, NEW o \in Counter, NEW n \in Name, NEW b \in BOOLEAN
  PROVE  [sid |-> s, ctr |-> c, again |-> b, original |-> o, pkt |-> n] \in Sealed
BY Zenon DEF Sealed

-----------------------------------------------------------------------------
(* Types at the sender.                                                    *)
LEMMA SenderTypes ==
  ASSUME TypeInv, Tick \/ SendData \/ Rekey
                  \/ (\E r \in requests : HandleNack(r))
                  \/ (\E o \in owed : SendRepeat(o) \/ LoseRepeat(o))
  PROVE  TypeInv'
<1>1. CASE Tick
  BY <1>1, Constants DEF Tick, TypeInv, TypeOK, inbox, turns, Time, Slots
<1>2. CASE SendData
  <2>1. counter \in Counter /\ Here \in Name /\ counter + 1 \in 0 .. MaxCounter
    BY <1>2, Constants DEF SendData, TypeInv, TypeOK, Counter, Here, Name
  <2>2. slot(counter) \in Slots
    BY <2>1, SlotInRing DEF Counter
  <2>3. outbox' \in [Slots -> [ctr : Counter \cup {None}, at : Time, pkt : Name \cup {None}]]
    BY <1>2, <2>1, <2>2 DEF SendData, record, TypeInv, TypeOK
  <2>4. \A s \in Slots : outbox'[s].ctr # None => outbox'[s].pkt \in Name
    BY <1>2, <2>1, <2>2 DEF SendData, record, TypeInv, TypeOK
  <2>5. path' \subseteq Sealed
    <3>1. [sid |-> sid, ctr |-> counter, again |-> FALSE, original |-> counter, pkt |-> Here] \in Sealed
      BY <2>1, SealedIs, Zenon DEF TypeInv, TypeOK
    <3>2. QED
      BY <1>2, <3>1, Zenon DEF SendData, TypeInv, TypeOK
  <2>6. \A s \in Slots : outbox'[s].ctr \in Counter \cup {None} /\ outbox'[s].at \in Time
    BY <2>3
  <2>7. QED
    BY <1>2, <2>1, <2>3, <2>4, <2>5, <2>6 DEF SendData, TypeInv, TypeOK, inbox, turns
<1>3. CASE Rekey
  <2>1. sid + 1 \in Sids /\ 0 \in 0 .. MaxCounter
    BY <1>3, Constants DEF Rekey, TypeInv, TypeOK, Sids
  <2>2. /\ outbox' \in [Slots -> [ctr : Counter \cup {None}, at : Time, pkt : Name \cup {None}]]
        /\ \A s \in Slots : outbox'[s].ctr = None
    BY <1>3 DEF Rekey, clear, TypeInv, TypeOK
  <2>3. straddled' \in BOOLEAN
    BY <1>3, Zenon DEF Rekey
  <2>4. QED
    BY <1>3, <2>1, <2>2, <2>3 DEF Rekey, TypeInv, TypeOK, inbox
<1>4. CASE \E r \in requests : HandleNack(r)
  <2>1. PICK r \in requests : HandleNack(r)
    BY <1>4
  <2>2. \A c \in r.want : c \in Counter /\ slot(c) \in Slots
    BY SlotInRing DEF TypeInv, TypeOK, Counter
  <2>3. ASSUME NEW c \in r.want, gets(c)
        PROVE  outbox[slot(c)].pkt \in Name
    <3>1. outbox[slot(c)].ctr # None
      BY <2>2, <2>3, Constants DEF gets, Counter, None
    <3>2. QED
      BY <2>2, <3>1 DEF TypeInv, TypeOK
  <2>4. owed' \subseteq [original : Counter, pkt : Name]
    BY <2>1, <2>2, <2>3 DEF HandleNack
  <2>5. QED
    BY <2>1, <2>4 DEF HandleNack, TypeInv, TypeOK, inbox, turns
<1>5. CASE \E o \in owed : SendRepeat(o)
  <2>1. PICK o \in owed : SendRepeat(o)
    BY <1>5
  <2>2. /\ counter \in Counter /\ counter + 1 \in 0 .. MaxCounter
        /\ o.original \in Counter /\ o.pkt \in Name
    BY <2>1, Constants DEF SendRepeat, TypeInv, TypeOK, Counter
  <2>3. path' \subseteq Sealed
    <3>1. [sid |-> sid, ctr |-> counter, again |-> TRUE, original |-> o.original, pkt |-> o.pkt] \in Sealed
      BY <2>2, SealedIs, Zenon DEF TypeInv, TypeOK
    <3>2. QED
      BY <2>1, <3>1, Zenon DEF SendRepeat, TypeInv, TypeOK
  <2>4. QED
    BY <2>1, <2>2, <2>3 DEF SendRepeat, TypeInv, TypeOK, inbox, turns
<1>6. CASE \E o \in owed : LoseRepeat(o)
  BY <1>6 DEF LoseRepeat, TypeInv, TypeOK, inbox, turns
<1>7. QED
  BY <1>1, <1>2, <1>3, <1>4, <1>5, <1>6

(* Types at the receiver.                                                  *)
LEMMA ReceiverTypes ==
  ASSUME TypeInv, InboxInv, NEW p \in path, Receive(p)
  PROVE  TypeInv'
<1> DEFINE N == Noticed(p.sid, p.ctr)
           high == NewHighest(p.sid, p.ctr)
           ask == Ask(Wanted(N), high)
<1>1. p \in Sealed /\ p.sid \in Sids /\ p.ctr \in Counter
  BY DEF TypeInv, TypeOK, Sealed
<1>2. index' \in Sids \cup {None} /\ highest' \in Counter \cup {None}
  BY <1>1, NewHighestIs DEF Receive, Arrive, TypeInv
<1>3. DOMAIN gaps' \subseteq Counter /\ \A c \in DOMAIN gaps' : gaps'[c] \in Gap
  BY GapsAfter DEF TypeInv
<1>4. ask \subseteq Counter
  BY <1>1, AskIsNoticed, NoticedAre DEF TypeInv
<1>5. \A r \in requests' : r.want \subseteq Counter
  <2>1. requests' = requests \/ requests' = requests \cup {[want |-> ask, on |-> p.sid, by |-> p.ctr]}
    BY DEF Receive, Arrive
  <2>2. QED
    BY <1>4, <2>1 DEF TypeInv, TypeOK
<1>6. asked' \subseteq [sid : Sids, ctr : Counter, by : Counter]
  <2>1. asked' = asked \cup {[sid |-> p.sid, ctr |-> d, by |-> p.ctr] : d \in ask}
    BY DEF Receive, Arrive
  <2>2. QED
    BY <1>1, <1>4, <2>1 DEF TypeInv, TypeOK
<1>7. arrivals' \subseteq Name /\ delivered' \subseteq Sealed /\ path' \subseteq Sealed
  BY <1>1 DEF Receive, TypeInv, TypeOK, Name
<1>8. reverted' \in BOOLEAN
  BY Zenon DEF Receive
<1>9. UNCHANGED <<now, sid, counter, outbox, owed, straddled>>
  BY DEF Receive
<1>10. QED
  BY <1>2, <1>3, <1>5, <1>6, <1>7, <1>8, <1>9 DEF TypeInv, TypeOK

-----------------------------------------------------------------------------
(* What the sender holds and sends again keeps its name.                   *)
LEMMA SendDataNames == ASSUME TypeInv, SenderInv, SendData PROVE SenderInv'
<1>1. counter \in Counter /\ slot(counter) \in Slots
  BY SlotInRing, Constants DEF SendData, TypeInv, TypeOK, Counter
<1>2. \A s \in Slots :
        outbox'[s].ctr # None => outbox'[s].pkt = [sid |-> sid', ctr |-> outbox'[s].ctr]
  BY <1>1 DEF SendData, record, Here, SenderInv, TypeInv, TypeOK
<1>3. \A p \in path' : p \in path \/ (~p.again /\ p.pkt = [sid |-> p.sid, ctr |-> p.ctr])
  BY DEF SendData, Here
<1>4. UNCHANGED <<owed, sid, straddled, delivered>>
  BY DEF SendData, turns
<1>5. QED
  BY <1>2, <1>3, <1>4, Zenon DEF SenderInv, RightPacket

(* A new session finds the ring empty (PeerState::install, ::confirm).     *)
LEMMA RekeyNames == ASSUME TypeInv, SenderInv, Rekey PROVE SenderInv'
<1>1. \A s \in Slots : outbox'[s].ctr = None
  BY DEF Rekey, clear, TypeInv, TypeOK
<1>2. ~straddled' => ~straddled /\ owed' = {}
  BY Zenon DEF Rekey
<1>3. UNCHANGED <<path, delivered>>
  BY DEF Rekey
<1>4. QED
  BY <1>1, <1>2, <1>3 DEF SenderInv, RightPacket

(* What is copied for a request is what was asked for (Outbox::get).       *)
LEMMA HandleNackNames ==
  ASSUME TypeInv, SenderInv, NEW r \in requests, HandleNack(r) PROVE SenderInv'
<1>1. ASSUME NEW o \in owed' PROVE o.pkt = [sid |-> sid, ctr |-> o.original]
  <2>1. PICK c \in r.want : gets(c) /\ o = [original |-> c, pkt |-> outbox[slot(c)].pkt]
    BY DEF HandleNack
  <2>2. c \in Counter /\ slot(c) \in Slots
    BY SlotInRing DEF TypeInv, TypeOK, Counter
  <2>3. outbox[slot(c)].ctr = c /\ c # None
    BY <2>1, <2>2, Constants DEF gets, Counter, None
  <2>4. QED
    BY <2>1, <2>2, <2>3 DEF SenderInv
<1>2. UNCHANGED <<outbox, sid, path, delivered, straddled>>
  BY DEF HandleNack, turns
<1>3. QED
  BY <1>1, <1>2 DEF SenderInv, RightPacket

(* A copy goes out under the counter it was asked for by (repeat).         *)
LEMMA SendRepeatNames ==
  ASSUME TypeInv, SenderInv, NEW o \in owed, SendRepeat(o) PROVE SenderInv'
<1>1. \A p \in path' \ path : p.again /\ p.sid = sid /\ p.original = o.original /\ p.pkt = o.pkt
  BY DEF SendRepeat
<1>2. UNCHANGED <<outbox, sid, delivered, straddled>> /\ owed' \subseteq owed
  BY DEF SendRepeat, turns
<1>3. QED
  BY <1>1, <1>2 DEF SenderInv, RightPacket

(* And it is delivered as it was sent.                                     *)
LEMMA ReceiveNames ==
  ASSUME TypeInv, SenderInv, NEW p \in path, Receive(p) PROVE SenderInv'
<1>1. UNCHANGED <<outbox, sid, owed, straddled>> /\ path' \subseteq path /\ delivered' \subseteq delivered \cup {p}
  BY DEF Receive
<1>2. QED
  BY <1>1 DEF SenderInv, RightPacket

-----------------------------------------------------------------------------
(* What is behind the receiver stays there, as long as sessions come one   *)
(* after the other: a gap is opened above the high-water mark only.        *)
LEMMA StaysBehind ==
  ASSUME TypeOK, InboxInv, NEW p \in path, Receive(p), ~reverted',
         NEW name \in Name, Behind(name)
  PROVE  Behind(name)'
<1>1. /\ p.sid \in Sids /\ p.ctr \in Counter /\ p.sid >= index /\ index' = p.sid
      /\ highest' = NewHighest(p.sid, p.ctr) /\ index \in Sids \cup {None}
      /\ highest \in Counter \cup {None} /\ name.sid \in Sids /\ name.ctr \in Counter
  <2>1. p.sid \in Sids /\ p.ctr \in Counter /\ index \in Sids \cup {None} /\ highest \in Counter \cup {None}
    BY DEF TypeOK, Sealed
  <2>2. ~(p.sid < index) /\ index' = p.sid /\ highest' = NewHighest(p.sid, p.ctr)
    BY Zenon DEF Receive, Arrive
  <2>3. name.sid \in Sids /\ name.ctr \in Counter
    BY DEF Name
  <2>4. QED
    BY <2>1, <2>2, <2>3, Constants DEF Sids, None
<1>2. CASE p.sid # index \/ name.sid < index
  <2>1. name.sid < index'
    BY <1>1, <1>2, Constants DEF Behind, Sids, None
  <2>2. QED
    BY <2>1 DEF Behind
<1>3. CASE p.sid = index /\ name.sid = index
  <2>1. name.ctr <= highest /\ name.ctr \notin DOMAIN gaps
    BY <1>3, <1>1, Constants DEF Behind, Sids
  <2>2. highest' >= highest /\ highest' \in Counter
    BY <1>1, <1>3, NewHighestIs
  <2>3. name.ctr <= highest'
    BY <1>1, <2>1, <2>2, Constants DEF Counter, None
  <2>4. name.ctr \notin DOMAIN gaps'
    <3>1. SUFFICES ASSUME name.ctr \in DOMAIN gaps' PROVE FALSE
      OBVIOUS
    <3>2. name.ctr \in DOMAIN Noticed(p.sid, p.ctr)
      BY <3>1, GapsAfter
    <3>3. highest < name.ctr
      BY <1>1, <2>1, <3>2, NoticedAre
    <3>4. QED
      BY <1>1, <2>1, <3>3, Constants DEF Counter, None
  <2>5. QED
    BY <1>1, <1>3, <2>3, <2>4 DEF Behind
<1>4. QED
  BY <1>1, <1>2, <1>3, Constants DEF Behind, Sids, None

(* A packet that has arrived is behind the receiver, and so is the packet  *)
(* of a repeat that was wanted.                                            *)
LEMMA ArrivalIsBehind ==
  ASSUME TypeOK, InboxInv, NEW p \in path, Receive(p)
  PROVE  /\ Behind([sid |-> p.sid, ctr |-> p.ctr])'
         /\ p.again /\ Satisfied(p) => Behind([sid |-> p.sid, ctr |-> p.original])'
<1>1. p.sid \in Sids /\ p.ctr \in Counter /\ highest \in Counter \cup {None}
  BY DEF TypeOK, Sealed
<1>2. index' = p.sid /\ highest' = NewHighest(p.sid, p.ctr)
  BY DEF Receive, Arrive
<1>3. /\ highest' \in Counter /\ highest' >= p.ctr
      /\ p.sid = index => highest' >= highest
  BY <1>1, <1>2, NewHighestIs
<1>4. Behind([sid |-> p.sid, ctr |-> p.ctr])'
  <2>1. p.ctr \notin DOMAIN gaps'
    BY GapsAfter
  <2>2. p.ctr <= highest'
    BY <1>1, <1>3, Constants DEF Counter
  <2>3. QED
    BY <1>2, <2>1, <2>2 DEF Behind
<1>5. ASSUME p.again, Satisfied(p)
      PROVE  Behind([sid |-> p.sid, ctr |-> p.original])'
  <2>1. p.original \in DOMAIN Noticed(p.sid, p.ctr)
    BY <1>5 DEF Satisfied, Asked, Wanted
  <2>2. p.sid = index /\ p.original \in Counter /\ (p.original \in DOMAIN gaps \/ p.original < p.ctr)
    BY <1>1, <2>1, NoticedAre
  <2>3. p.original < highest \/ p.original < p.ctr
    BY <2>2 DEF InboxInv
  <2>4. p.original <= highest'
    BY <1>1, <1>3, <2>2, <2>3, Constants DEF Counter, None
  <2>5. p.original \notin DOMAIN gaps'
    BY <1>5, GapsAfter
  <2>6. QED
    BY <1>2, <2>4, <2>5 DEF Behind
<1>6. QED
  BY <1>4, <1>5

(* The inbox after a packet.                                               *)
LEMMA ReceiveInbox ==
  ASSUME TypeInv, SenderInv, InboxInv, NEW p \in path, Receive(p)
  PROVE  InboxInv'
<1>1. TypeOK /\ p.sid \in Sids /\ p.ctr \in Counter
  BY DEF TypeInv, TypeOK, Sealed
<1>2. now' = now /\ straddled' = straddled /\ now \in Nat
  BY <1>1, Constants DEF Receive, TypeOK, Time
<1>3. ASSUME NEW d \in DOMAIN gaps'
      PROVE  /\ d < highest' /\ gaps'[d].asks < ASKS
             /\ \/ d \in DOMAIN gaps /\ gaps'[d].seen = gaps[d].seen
                \/ d \in Counter /\ highest < d /\ gaps'[d].seen = now
  <2>1. /\ d < highest' /\ gaps'[d].asks < ASKS /\ d \in DOMAIN Noticed(p.sid, p.ctr)
        /\ gaps'[d].seen = Noticed(p.sid, p.ctr)[d].seen
    BY <1>1, GapsAfter
  <2>2. QED
    BY <1>1, <2>1, NoticedAre
<1>4. \A d \in DOMAIN gaps : d \in Counter /\ d < highest /\ gaps[d].seen \in Nat /\ gaps[d].seen <= now
  BY <1>1, Constants DEF InboxInv, TypeOK, Gap, Time
<1>5. \A d \in DOMAIN gaps' : d < highest' /\ gaps'[d].asks < ASKS /\ gaps'[d].seen <= now'
  BY <1>2, <1>3, <1>4
<1>6. OldestAtFront'
  <2>1. SUFFICES ASSUME NEW c \in DOMAIN gaps', NEW d \in DOMAIN gaps', c <= d
                 PROVE  gaps'[c].seen <= gaps'[d].seen
    BY DEF OldestAtFront
  <2>2. CASE c \in DOMAIN gaps /\ gaps'[c].seen = gaps[c].seen
    <3>1. CASE d \in DOMAIN gaps /\ gaps'[d].seen = gaps[d].seen
      BY <2>1, <2>2, <3>1 DEF InboxInv, OldestAtFront
    <3>2. CASE gaps'[d].seen = now
      BY <1>4, <2>2, <3>2
    <3>3. QED
      BY <1>3, <3>1, <3>2
  <2>3. CASE c \in Counter /\ highest < c /\ gaps'[c].seen = now
    <3>1. d \notin DOMAIN gaps
      BY <1>1, <1>4, <2>1, <2>3, Constants DEF TypeOK, Counter, None
    <3>2. QED
      BY <1>2, <1>3, <2>3, <3>1
  <2>4. QED
    BY <1>3, <2>2, <2>3
<1>7. ~reverted' => ~reverted
  BY Zenon DEF Receive
<1>8. ASSUME ~reverted', NEW a \in arrivals'
      PROVE  Behind(a)'
  <2>1. CASE a \in arrivals
    <3>1. Behind(a) /\ a \in Name
      BY <1>1, <1>7, <1>8, <2>1 DEF InboxInv, TypeOK
    <3>2. QED
      BY <1>1, <1>8, <3>1, StaysBehind
  <2>2. CASE a = [sid |-> p.sid, ctr |-> p.ctr]
    BY <1>1, <2>2, ArrivalIsBehind, ZenonT(40)
  <2>3. QED
    BY <1>8, <2>1, <2>2 DEF Receive
<1>9. ASSUME ~reverted', ~straddled', NEW q \in delivered'
      PROVE  Behind(q.pkt)'
  <2>1. CASE q \in delivered
    <3>1. Behind(q.pkt) /\ q.pkt \in Name
      BY <1>1, <1>2, <1>7, <1>9, <2>1 DEF InboxInv, TypeOK, Sealed
    <3>2. QED
      BY <1>1, <1>9, <3>1, StaysBehind, Zenon
  <2>2. CASE q = p /\ ~p.again
    <3>1. q.pkt = [sid |-> p.sid, ctr |-> p.ctr]
      BY <2>2 DEF SenderInv
    <3>2. QED
      BY <1>1, <3>1, ArrivalIsBehind, ZenonT(40)
  <2>3. CASE q = p /\ p.again /\ Satisfied(p)
    <3>1. q.pkt = [sid |-> p.sid, ctr |-> p.original]
      BY <1>2, <1>9, <2>3, Zenon DEF SenderInv
    <3>2. QED
      BY <1>1, <2>3, <3>1, ArrivalIsBehind, ZenonT(40)
  <2>4. q \in delivered \/ (q = p /\ (~p.again \/ Satisfied(p)))
    BY DEF Receive
  <2>5. QED
    BY <2>1, <2>2, <2>3, <2>4
<1>10. QED
  BY <1>5, <1>6, <1>8, <1>9 DEF InboxInv

-----------------------------------------------------------------------------
(* The invariant holds when the tunnel starts.                             *)
LEMMA InitInv == Init => Inv
<1> SUFFICES ASSUME Init PROVE Inv
  OBVIOUS
<1>1. TypeInv
  <2>1. straddled \in BOOLEAN /\ reverted \in BOOLEAN
    BY Zenon DEF Init
  <2>2. outbox \in [Slots -> [ctr : Counter \cup {None}, at : Time, pkt : Name \cup {None}]]
    BY Constants DEF Init, Empty, Time
  <2>3. \A s \in Slots : outbox[s].ctr = None /\ outbox[s].at \in Time
    BY <2>2 DEF Init, Empty
  <2>4. now \in Time /\ sid \in Sids /\ counter \in 0 .. MaxCounter
    BY Constants DEF Init, Time, Sids
  <2>5. DOMAIN gaps = {}
    BY DEF Init
  <2>6. QED
    BY <2>1, <2>2, <2>3, <2>4, <2>5 DEF Init, TypeInv, TypeOK
<1>2. SenderInv
  BY DEF Init, SenderInv, RightPacket, Empty
<1>3. DOMAIN gaps = {}
  BY DEF Init
<1>4. InboxInv
  BY <1>3 DEF Init, InboxInv, OldestAtFront
<1>5. AskInv
  <2>1. \A s \in Sids, c \in Counter : RequestsFor(s, c) = {}
    BY DEF Init, RequestsFor
  <2>2. QED
    BY <1>3, <2>1, FS_EmptySet, ZenonT(40) DEF Init, AskInv, AskedAtMostTimes
<1>6. QED
  BY <1>1, <1>2, <1>4, <1>5 DEF Inv

(* The sender's steps and the clock leave the receiver's part alone.       *)
LEMMA SenderLeavesInbox ==
  ASSUME TypeInv, InboxInv, AskInv,
         UNCHANGED <<inbox, asked, arrivals, delivered, reverted>>,
         now' = now \/ now' = now + 1, ~straddled' => ~straddled
  PROVE  InboxInv' /\ AskInv'
<1>1. UNCHANGED <<index, highest, gaps, asked, arrivals, delivered, reverted>>
  BY DEF inbox
<1>2. \A c \in DOMAIN gaps : gaps[c].seen \in Nat /\ now \in Nat /\ gaps[c].seen <= now
  BY Constants DEF TypeInv, TypeOK, InboxInv, Gap, Time
<1>3. \A c \in DOMAIN gaps : gaps[c].seen <= now'
  BY <1>2
<1>4. \A name : Behind(name)' <=> Behind(name)
  BY <1>1 DEF Behind
<1>5. InboxInv'
  BY <1>1, <1>3, <1>4 DEF InboxInv, OldestAtFront
<1>6. AskInv'
  BY <1>1 DEF AskInv, AskedAtMostTimes, RequestsFor
<1>7. QED
  BY <1>5, <1>6

(* Every step preserves the invariant.                                     *)
LEMMA StepInv == Inv /\ [Next]_vars => Inv'
<1> SUFFICES ASSUME Inv, [Next]_vars PROVE Inv'
  OBVIOUS
<1>1. TypeInv /\ SenderInv /\ InboxInv /\ AskInv
  BY DEF Inv
<1>2. CASE Tick
  <2>1. UNCHANGED <<sid, outbox, owed, path, delivered, straddled>>
    BY <1>2 DEF Tick, turns
  <2>2. SenderInv'
    BY <1>1, <2>1 DEF SenderInv, RightPacket
  <2>3. QED
    BY <1>1, <1>2, <2>2, SenderTypes, SenderLeavesInbox DEF Tick, turns, Inv
<1>3. CASE SendData
  BY <1>1, <1>3, SenderTypes, SendDataNames, SenderLeavesInbox DEF SendData, turns, Inv
<1>4. CASE Rekey
  BY <1>1, <1>4, SenderTypes, RekeyNames, SenderLeavesInbox, ZenonT(40) DEF Rekey, Inv
<1>5. ASSUME NEW r \in requests, HandleNack(r) PROVE Inv'
  BY <1>1, <1>5, SenderTypes, HandleNackNames, SenderLeavesInbox, ZenonT(40) DEF HandleNack, turns, Inv
<1>6. ASSUME NEW o \in owed, SendRepeat(o) PROVE Inv'
  BY <1>1, <1>6, SenderTypes, SendRepeatNames, SenderLeavesInbox DEF SendRepeat, turns, Inv
<1>7. ASSUME NEW o \in owed, LoseRepeat(o) PROVE Inv'
  <2>1. UNCHANGED <<sid, outbox, path, delivered, straddled>> /\ owed' \subseteq owed
    BY <1>7 DEF LoseRepeat, turns
  <2>2. SenderInv'
    BY <1>1, <2>1, Zenon DEF SenderInv, RightPacket
  <2>3. QED
    BY <1>1, <1>7, <2>2, SenderTypes, SenderLeavesInbox DEF LoseRepeat, turns, Inv
<1>8. ASSUME NEW p \in path, Receive(p) PROVE Inv'
  BY <1>1, <1>8, ReceiverTypes, ReceiveNames, ReceiveInbox, ReceiveAsks DEF Inv
<1>9. CASE UNCHANGED vars
  <2>1. UNCHANGED <<sid, counter, outbox, owed, path, requests, index, highest, gaps, asked,
                    arrivals, delivered, straddled, reverted, now>>
    BY <1>9 DEF vars, inbox, turns
  <2>2. TypeInv' /\ SenderInv'
    BY <1>1, <2>1 DEF TypeInv, TypeOK, SenderInv, RightPacket
  <2>3. QED
    BY <1>1, <2>1, <2>2, SenderLeavesInbox DEF inbox, Inv
<1>10. QED
  BY <1>2, <1>3, <1>4, <1>5, <1>6, <1>7, <1>8, <1>9 DEF Next

(* So it holds of every behaviour of the two ends.                         *)
THEOREM Invariance == Spec => []Inv
BY InitInv, StepInv, PTL DEF Spec

(* A repeat that was wanted brings a packet the device has not had: the    *)
(* gap it fills is not behind the receiver, and all that was delivered is. *)
LEMMA WantedIsNew ==
  Inv /\ [Next]_vars => (~straddled /\ ~reverted => FirstCopy)
<1> SUFFICES ASSUME Inv, [Next]_vars, ~straddled, ~reverted,
                    NEW p \in delivered', p \notin delivered, p.again, NEW q \in delivered
             PROVE  q.pkt # p.pkt
  BY DEF FirstCopy
<1>1. p \in path /\ Receive(p) /\ Satisfied(p)
  <2>1. PICK r \in path : Receive(r)
    BY Zenon DEF Next, Tick, SendData, Rekey, HandleNack, SendRepeat, LoseRepeat, vars
  <2>2. p = r /\ (~r.again \/ Satisfied(r))
    BY <2>1, Zenon DEF Receive
  <2>3. QED
    BY <2>1, <2>2
<1>2. /\ TypeOK /\ p.sid \in Sids /\ p.ctr \in Counter /\ p.original \in Counter
      /\ index \in Sids \cup {None} /\ highest \in Counter \cup {None}
  BY <1>1, Zenon DEF Inv, TypeInv, TypeOK, Sealed
<1>3. p.pkt = [sid |-> p.sid, ctr |-> p.original]
  BY <1>1 DEF Inv, SenderInv
<1>4. p.original \in DOMAIN Noticed(p.sid, p.ctr)
  BY <1>1 DEF Satisfied, Asked, Wanted
<1>5. p.sid = index /\ (p.original \in DOMAIN gaps \/ highest < p.original)
  BY <1>2, <1>4, NoticedAre
<1>6. Behind(q.pkt)
  BY DEF Inv, InboxInv
<1>7. ~Behind(p.pkt)
  BY <1>2, <1>3, <1>5, Constants DEF Behind, Sids, Counter, None
<1>8. QED
  BY <1>6, <1>7

-----------------------------------------------------------------------------
(* A repeat that fills a gap carries the packet that was missing, for any  *)
(* ring and any number of rekeys, unless one fell while a request was      *)
(* being answered (Outbox::get and ::clear, Tunnel::repeat).               *)
THEOREM RepairsAreRight == Spec => []RepairsAcrossRekey
<1>1. Inv => RepairsAcrossRekey
  BY DEF Inv, SenderInv, RepairsAcrossRekey
<1>2. QED
  BY <1>1, Invariance, PTL

(* A repeat is not written to the device after its packet, whatever was    *)
(* lost, delayed or asked for twice, as long as the receiver meets the     *)
(* sessions one after the other (Inbox::satisfied).                        *)
THEOREM RepeatsAreNotDuplicates == Spec => NeverDuplicates
<1>1. Inv /\ [Next]_vars => [~straddled /\ ~reverted => FirstCopy]_vars
  BY WantedIsNew
<1>2. QED
  BY <1>1, Invariance, PTL DEF Spec, NeverDuplicates

(* A gap of the inbox is really missing, and the first is the oldest       *)
(* (Inbox::arrived).                                                       *)
THEOREM GapsAreLosses == Spec => []GapsMissing
<1>1. Inv => GapsMissing
  <2>1. SUFFICES ASSUME Inv PROVE GapsAreMissing /\ OldestAtFront
    BY DEF GapsMissing
  <2>2. \A c \in DOMAIN gaps : c < highest
    BY <2>1 DEF Inv, InboxInv
  <2>3. ASSUME ~reverted, NEW c \in DOMAIN gaps, [sid |-> index, ctr |-> c] \in arrivals
        PROVE  FALSE
    <3>1. Behind([sid |-> index, ctr |-> c])
      BY <2>1, <2>3 DEF Inv, InboxInv
    <3>2. index \in Sids \cup {None}
      BY <2>1 DEF Inv, TypeInv, TypeOK
    <3>3. QED
      BY <2>3, <3>1, <3>2, Constants DEF Behind, Sids, None
  <2>4. OldestAtFront
    BY <2>1 DEF Inv, InboxInv
  <2>5. QED
    BY <2>2, <2>3, <2>4 DEF GapsAreMissing
<1>2. QED
  BY <1>1, Invariance, PTL

(* No counter is asked for more than Limits::asks times in one pass of the *)
(* receiver through a session (Inbox::arrived).                            *)
THEOREM AsksAreBounded == Spec => []AskedAtMostTimes
<1>1. Inv => AskedAtMostTimes
  BY DEF Inv, AskInv, AskedAtMostTimes
<1>2. QED
  BY <1>1, Invariance, PTL
=============================================================================
