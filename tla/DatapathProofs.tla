--------------------------- MODULE DatapathProofs ----------------------------
(***************************************************************************)
(* Proofs about what the datapath believes of what it is sent: the reports *)
(* of path MTUs, for any sizes, hops and number of rotations; and the SYN  *)
(* ledger, for every length of a period, every size of the ledger, any set *)
(* of places and any number of SYNs.                                       *)
(***************************************************************************)
EXTENDS PathMtu, SynLedger, FiniteSetTheorems, SequenceTheorems, TLAPS

(* Path-MTU reports.                                                       *)

Announcement == [mtu : Nat, size : Nat, port : Nat, suggested : Nat, full : Nat]

(* Every report that quotes this end's flow quotes a packet of it, however *)
(* late it is.                                                             *)
ReportsInv ==
  /\ port \in Nat \ {0} /\ hop \in Nat /\ sent \in Seq([size : Nat, port : Nat])
  /\ \A r \in reports :
       /\ r.mtu \in Nat /\ r.size \in Nat
       /\ r.ours => \E i \in DOMAIN sent :
            sent[i].size = r.size /\ (r.port # NoNumber => sent[i].port = r.port)

(* The number remembered is the last one announced.                        *)
AnnounceInv ==
  /\ reported \in Nat /\ said \in Seq(Announcement)
  /\ said = << >> => reported = NoNumber
  /\ said # << >> => reported # NoNumber /\ reported = said[Len(said)].mtu
  /\ AnnouncementsFall /\ SuggestionFitsFullSized

MtuInv == ReportsInv /\ AnnounceInv

(* Nothing is sent or announced at first (PeerState::new).                 *)
LEMMA MtuInitial == ASSUME MtuAssumption PROVE MtuInit => MtuInv
BY DEF MtuAssumption, MtuInit, MtuInv, ReportsInv, AnnounceInv, NoNumber, AnnouncementsFall,
       SuggestionFitsFullSized

(* A report quotes the packet that was refused (the hop's quotation).      *)
LEMMA ReportsStep ==
  ASSUME MtuAssumption, ReportsInv, [MtuNext]_mtuVars
  PROVE  ReportsInv'
<1>1. ASSUME NEW n \in Inner, Send(n) PROVE ReportsInv'
  <2> DEFINE size == n + OVERHEAD
             new == [mtu : {hop, 0}, size : {size}, port : {port, NoNumber}, ours : {TRUE}]
  <2>1. size \in Nat /\ UNCHANGED <<port, hop>> /\ sent' = Append(sent, [size |-> size, port |-> port])
    BY <1>1 DEF MtuAssumption, Send
  <2>2. reports' \subseteq reports \cup new
    BY <1>1, Zenon DEF Send
  <2>3. \A r \in new : r.mtu \in Nat /\ r.size = size /\ (r.port # NoNumber => r.port = port)
    BY DEF ReportsInv
  <2> HIDE DEF size, new
  <2>4. /\ sent' \in Seq([size : Nat, port : Nat]) /\ Len(sent') = Len(sent) + 1
        /\ \A i \in DOMAIN sent : i \in DOMAIN sent' /\ sent'[i] = sent[i]
        /\ Len(sent') \in DOMAIN sent' /\ sent'[Len(sent')] = [size |-> size, port |-> port]
    BY <2>1 DEF ReportsInv
  <2>5. ASSUME NEW r \in reports'
        PROVE  /\ r.mtu \in Nat /\ r.size \in Nat
               /\ r.ours => \E i \in DOMAIN sent' :
                    sent'[i].size = r.size /\ (r.port # NoNumber => sent'[i].port = r.port)
    <3>1. CASE r \in reports
      <4>1. r.mtu \in Nat /\ r.size \in Nat
        BY <3>1 DEF ReportsInv
      <4>2. ASSUME r.ours
            PROVE  \E i \in DOMAIN sent' :
                     sent'[i].size = r.size /\ (r.port # NoNumber => sent'[i].port = r.port)
        <5>1. PICK i \in DOMAIN sent : sent[i].size = r.size /\ (r.port # NoNumber => sent[i].port = r.port)
          BY <3>1, <4>2 DEF ReportsInv
        <5> QED BY <2>4, <5>1
      <4> QED BY <4>1, <4>2
    <3>2. CASE r \in new
      BY <3>2, <2>1, <2>3, <2>4
    <3> QED BY <2>2, <2>5, <3>1, <3>2
  <2> QED BY <2>1, <2>4, <2>5 DEF ReportsInv, NoNumber
<1>2. CASE Stray
  <2> DEFINE new == [mtu : {MIN_IPV4_MTU}, size : {mtu + OVERHEAD}, port : {NoNumber}, ours : {FALSE}]
  <2>1. UNCHANGED <<port, hop, sent>> /\ reports' = reports \cup new
    BY <1>2 DEF Stray
  <2>2. \A r \in new : r.mtu \in Nat /\ r.size \in Nat
    BY DEF MtuAssumption
  <2>3. \A r \in new : ~r.ours
    BY Zenon
  <2> HIDE DEF new
  <2> QED BY <2>1, <2>2, <2>3 DEF ReportsInv, NoNumber
<1>3. CASE maybe_rotate
  BY <1>3 DEF maybe_rotate, ReportsInv, NoNumber
<1>4. CASE PathChanges
  BY <1>4 DEF PathChanges, ReportsInv, NoNumber, MtuAssumption
<1>5. CASE UNCHANGED <<port, hop, sent, reports>>
  BY <1>5 DEF ReportsInv, NoNumber
<1> QED
  BY <1>1, <1>2, <1>3, <1>4, <1>5, Zenon DEF MtuNext, mtuVars, note_too_big

(* Reports of a new low are announced, with a size that hop takes; the     *)
(* others change nothing (note_too_big, shortfall).                        *)
LEMMA AnnounceStep ==
  ASSUME MtuAssumption, ReportsInv, AnnounceInv, [MtuNext]_mtuVars
  PROVE  AnnounceInv'
<1>1. CASE UNCHANGED <<reported, said>>
  BY <1>1 DEF AnnounceInv, AnnouncementsFall, SuggestionFitsFullSized, NoNumber
<1>2. ASSUME NEW r \in reports, usable(r), shortfall(r) > 0, ~SaidAlready(r),
             reported' = r.mtu,
             said' = Append(said, [mtu |-> r.mtu, size |-> r.size, port |-> port,
                                   suggested |-> Suggested(shortfall(r)), full |-> mtu + OVERHEAD])
      PROVE  AnnounceInv'
  <2> DEFINE over == shortfall(r)
             suggested == Suggested(over)
             new == [mtu |-> r.mtu, size |-> r.size, port |-> port,
                     suggested |-> suggested, full |-> mtu + OVERHEAD]
  <2>1. r.mtu \in Nat \ {0} /\ r.size \in Nat /\ port \in Nat
    BY <1>2 DEF ReportsInv, usable, MtuAssumption
  <2>2. suggested \in Nat /\ (r.size = mtu + OVERHEAD => suggested = 0 \/ suggested + OVERHEAD <= r.mtu)
    BY <1>2, <2>1 DEF Suggested, shortfall, MtuAssumption
  <2> HIDE DEF suggested
  <2>3. new \in Announcement
    BY <2>1, <2>2 DEF Announcement, MtuAssumption
  <2>4. new.mtu = r.mtu /\ new.size = r.size /\ new.suggested = suggested /\ new.full = mtu + OVERHEAD
    OBVIOUS
  <2>5. said' = Append(said, new)
    BY <1>2 DEF suggested
  <2> HIDE DEF new
  <2>6. /\ said' \in Seq(Announcement) /\ said' # << >> /\ Len(said') = Len(said) + 1
        /\ \A i \in DOMAIN said : said'[i] = said[i]
        /\ said'[Len(said')] = new
    BY <2>3, <2>5 DEF AnnounceInv
  <2>7. said # << >> => r.mtu < said[Len(said)].mtu
    BY <1>2, <2>1 DEF AnnounceInv, SaidAlready
  <2>8. AnnouncementsFall'
    <3> SUFFICES ASSUME NEW i \in 1 .. Len(said') - 1 PROVE said'[i + 1].mtu < said'[i].mtu
      BY Zenon DEF AnnouncementsFall
    <3>1. i \in DOMAIN said /\ Len(said) \in Nat
      BY <2>6 DEF AnnounceInv
    <3>2. CASE i = Len(said)
      BY <2>4, <2>6, <2>7, <3>1, <3>2
    <3>3. CASE i < Len(said)
      <4>1. i + 1 \in DOMAIN said
        BY <3>1, <3>3 DEF AnnounceInv
      <4> QED BY <2>6, <3>1, <3>3, <4>1 DEF AnnounceInv, AnnouncementsFall
    <3> QED BY <3>1, <3>2, <3>3, <2>6
  <2>9. SuggestionFitsFullSized'
    <3> SUFFICES ASSUME NEW i \in DOMAIN said', said'[i].size = said'[i].full
                 PROVE  said'[i].suggested + OVERHEAD <= said'[i].mtu \/ said'[i].suggested = 0
      BY DEF SuggestionFitsFullSized
    <3>1. CASE i \in DOMAIN said
      BY <2>6, <3>1 DEF AnnounceInv, SuggestionFitsFullSized
    <3>2. CASE i = Len(said')
      BY <2>2, <2>4, <2>6, <3>2
    <3> QED BY <2>6, <3>1, <3>2 DEF AnnounceInv
  <2> QED BY <1>2, <2>1, <2>4, <2>6, <2>8, <2>9 DEF AnnounceInv, NoNumber
<1> QED
  BY <1>1, <1>2, Zenon DEF MtuNext, mtuVars, note_too_big, Send, Stray, maybe_rotate, PathChanges

(* Path MTUs are announced only as they fall; the one suggested after a    *)
(* full-sized packet was refused is one the hop takes; and only a report   *)
(* that quotes a packet this end sent is believed, from the port in use    *)
(* where it says (Tunnel::note_too_big, TooBig::describes and shortfall).  *)
THEOREM ReportsAreBelieved ==
  ASSUME MtuAssumption
  PROVE  MtuSpec => ReportsBelieved
<1>1. MtuInv /\ [MtuNext]_mtuVars => MtuInv'
  BY ReportsStep, AnnounceStep DEF MtuInv
<1>2. MtuInv => AnnouncementsFall /\ SuggestionFitsFullSized
  BY DEF MtuInv, AnnounceInv
<1>3. MtuInv /\ [MtuNext]_mtuVars => [BelievedWasSent]_mtuVars
  <2> SUFFICES ASSUME MtuInv, NEW r \in reports, note_too_big(r), counted' = "too_big"
               PROVE  \E i \in DOMAIN sent :
                        sent[i].size = r.size /\ (r.port # NoNumber => sent[i].port = port)
    BY DEF BelievedWasSent
  <2>1. r.ours /\ r.port \in {NoNumber, port}
    BY DEF note_too_big, describes
  <2> QED BY <2>1 DEF MtuInv, ReportsInv
<1> QED BY MtuInitial, <1>1, <1>2, <1>3, PTL DEF MtuSpec, ReportsBelieved

------------------------------------------------------------------------------
(* The SYN ledger.                                                         *)

Syn == [n : Nat, period : Int, sent : Nat]
Entry == [syn : Syn, from : Places, at : Nat]

(* The clocks, and the SYN the sender is knocking with.                    *)
ClockInv ==
  /\ now \in Nat /\ skew \in Int /\ -MaxSkew <= skew /\ skew <= MaxSkew
  /\ syns \subseteq Syn /\ IsFiniteSet(syns) /\ syn \in syns
  /\ syn.sent <= now /\ syn.period = syn_period(syn.sent + skew)

(* A SYN has one entry, made when its proof was good.                      *)
LedgerInv ==
  /\ seen \in Seq(Entry)
  /\ \A i \in 1 .. Len(seen) : /\ seen[i].at <= now
                               /\ seen[i].syn.period <= syn_period(seen[i].at) + 1
  /\ \A i, j \in 1 .. Len(seen) : seen[i].syn = seen[j].syn => i = j

(* The SYN's period is so long past that no proof of it is accepted again. *)
Stale(s) == s.period < syn_period(now) - 1

(* A SYN that was answered is remembered with its place, unless it can no  *)
(* longer prove itself or the ledger has run out of room for it.           *)
MemoryInv ==
  /\ answered \subseteq syns \X Places
  /\ \A s \in syns, p \in Places : <<s, p>> \in answered =>
       \/ s \in evicted
       \/ Stale(s)
       \/ \E i \in 1 .. Len(seen) : seen[i].syn = s /\ seen[i].from = p
  /\ AnsweredAtOnePlace

Inv == ClockInv /\ LedgerInv /\ MemoryInv

------------------------------------------------------------------------------
(* Multiplying by a period keeps the order of whole numbers.               *)
LEMMA Times ==
  ASSUME NEW P \in Nat \ {0}, NEW q \in Int, NEW r \in Int, q < r
  PROVE  P * q + P <= P * r
<1>1. P * q \in Int /\ P * r \in Int /\ P * (r - q - 1) \in Int
  OBVIOUS
<1>2. P * (r - q - 1) >= 0
  OBVIOUS
<1>3. P * (r - q - 1) = P * r - P * q - P
  OBVIOUS
<1>4. QED
  BY <1>1, <1>2, <1>3

(* What the quotient of a time by a period is.                             *)
LEMMA Quotient ==
  ASSUME NEW P \in Nat \ {0}, NEW a \in Int
  PROVE  a \div P \in Int /\ P * (a \div P) <= a /\ a < P * (a \div P) + P
OBVIOUS

(* k periods later the period is k further on at least.                    *)
LEMMA Advance ==
  ASSUME SynAssumption, NEW a \in Int, NEW b \in Int, NEW k \in Int, a + PERIOD * k <= b
  PROVE  syn_period(a) + k <= syn_period(b)
<1> DEFINE P == PERIOD
           A == Epoch + a
           B == Epoch + b
           qa == A \div P
           qb == B \div P
<1>1. P \in Nat \ {0} /\ A \in Int /\ B \in Int /\ P * k \in Int /\ A + P * k <= B
  BY DEF SynAssumption, Epoch
<1>2. qa \in Int /\ P * qa <= A /\ qb \in Int /\ B < P * qb + P
  BY <1>1, Quotient
<1> HIDE DEF A, B, qa, qb
<1>3. SUFFICES ASSUME qb < qa + k PROVE FALSE
  BY <1>2 DEF qa, qb, A, B, P, syn_period
<1>4. P * qb + P <= P * (qa + k)
  BY <1>1, <1>2, <1>3, Times
<1>5. P * (qa + k) = P * qa + P * k /\ P * qa \in Int /\ P * qb \in Int
  BY <1>1, <1>2
<1>6. QED
  BY <1>1, <1>2, <1>4, <1>5

(* Periods are counted in whole numbers.                                   *)
LEMMA PeriodIsInt == ASSUME SynAssumption, NEW a \in Int PROVE syn_period(a) \in Int
BY Quotient DEF SynAssumption, syn_period, Epoch

(* A period never goes back.                                               *)
LEMMA Monotone ==
  ASSUME SynAssumption, NEW a \in Int, NEW b \in Int, a <= b
  PROVE  syn_period(a) <= syn_period(b)
<1>1. a + PERIOD * 0 <= b
  BY DEF SynAssumption
<1>2. syn_period(a) + 0 <= syn_period(b)
  BY <1>1, Advance
<1>3. QED
  BY <1>2, PeriodIsInt

(* The ledger keeps an entry for as long as its SYN proves itself          *)
(* (SYN_LEDGER_KEEP is three periods, and a proof is good for at most two  *)
(* after the SYN was answered).                                            *)
LEMMA DroppedIsStale ==
  ASSUME SynAssumption, ClockInv, LedgerInv, NEW i \in 1 .. Len(seen), ~Kept(seen[i])
  PROVE  Stale(seen[i].syn)
<1>1. seen[i] \in Entry
  BY ElementOfSeq DEF LedgerInv
<1>2. seen[i].at \in Nat /\ seen[i].syn.period \in Int /\ now \in Nat /\ PERIOD \in Nat
  BY <1>1 DEF Entry, Syn, ClockInv, SynAssumption
<1>3. seen[i].at + PERIOD * 3 <= now
  BY <1>2 DEF Kept, SYN_LEDGER_KEEP
<1>4. syn_period(seen[i].at) + 3 <= syn_period(now)
  <2>1. ASSUME NEW a \in Nat, NEW b \in Nat, a + PERIOD * 3 <= b
        PROVE  syn_period(a) + 3 <= syn_period(b)
    <3>1. a \in Int /\ b \in Int /\ 3 \in Int
      OBVIOUS
    <3>2. QED
      BY <2>1, <3>1, Advance, Zenon
  <2>2. QED
    BY <1>2, <1>3, <2>1
<1>5. seen[i].syn.period <= syn_period(seen[i].at) + 1
  BY DEF LedgerInv
<1>6. syn_period(seen[i].at) \in Int /\ syn_period(now) \in Int
  <2>1. \A a \in Nat : syn_period(a) \in Int
    BY PeriodIsInt
  <2>2. QED
    BY <1>2, <2>1
<1>7. QED
  BY <1>2, <1>4, <1>5, <1>6 DEF Stale

(* Only a SYN that is not stale is answered (syn_tag_matches).             *)
LEMMA MatchesIsNotStale ==
  ASSUME SynAssumption, ClockInv, NEW s \in Syn, syn_tag_matches(s)
  PROVE  ~Stale(s) /\ s.period <= syn_period(now) + 1
<1>1. now \in Nat /\ s.period \in Int /\ syn_period(now) \in Int
  BY PeriodIsInt DEF ClockInv, Syn
<1>2. QED
  BY <1>1 DEF syn_tag_matches, Stale

(* The size of an interval that starts at 1.                               *)
LEMMA UpTo ==
  ASSUME NEW n \in Nat
  PROVE  IsFiniteSet(1 .. n) /\ Cardinality(1 .. n) = n
<1>1. 1 \in Int /\ n \in Int
  OBVIOUS
<1>2. IsFiniteSet(1 .. n) /\ Cardinality(1 .. n) = IF 1 > n THEN 0 ELSE n - 1 + 1
  BY <1>1, FS_Interval, Zenon
<1>3. QED
  BY <1>2

(* SynLedger::admit first drops entries from the front, each past its time.*)
LEMMA PrunedIs ==
  ASSUME SynAssumption, LedgerInv
  PROVE  \E k \in 0 .. Len(seen) :
           /\ Pruned(seen) = SubSeq(seen, k + 1, Len(seen))
           /\ \A j \in 1 .. k : ~Kept(seen[j])
<1> DEFINE old == {i \in DOMAIN seen : \A j \in 1 .. i : ~Kept(seen[j])}
           k == Cardinality(old)
<1>1. Len(seen) \in Nat /\ DOMAIN seen = 1 .. Len(seen)
  BY LenProperties DEF LedgerInv
<1>2. old \subseteq 1 .. Len(seen)
  BY <1>1
<1>3. IsFiniteSet(old) /\ k \in Nat /\ k <= Len(seen)
  <2>1. IsFiniteSet(1 .. Len(seen)) /\ Cardinality(1 .. Len(seen)) = Len(seen)
    BY <1>1, UpTo
  <2>2. IsFiniteSet(old) /\ k <= Len(seen)
    BY <1>2, <2>1, FS_Subset
  <2>3. QED
    BY <2>2, FS_CardinalityType
<1>4. ASSUME NEW j \in 1 .. k, Kept(seen[j]) PROVE FALSE
  <2>1. \A i \in old : i < j
    BY <1>2, <1>3, <1>4
  <2>2. old \subseteq 1 .. j - 1
    BY <1>2, <1>3, <2>1
  <2>3. IsFiniteSet(1 .. j - 1) /\ Cardinality(1 .. j - 1) = j - 1
    <3>1. j - 1 \in Nat
      BY <1>3
    <3>2. QED
      BY <3>1, UpTo, Zenon
  <2>4. k <= j - 1
    BY <2>2, <2>3, FS_Subset
  <2>5. QED
    BY <1>3, <2>4
<1>5. Pruned(seen) = SubSeq(seen, k + 1, Len(seen))
  BY DEF Pruned
<1> HIDE DEF k
<1>6. QED
  BY <1>1, <1>3, <1>4, <1>5

(* So what is left are the last entries, as they were.                     *)
LEMMA PrunedEntries ==
  ASSUME SynAssumption, LedgerInv
  PROVE  \E k \in 0 .. Len(seen) :
           /\ Pruned(seen) \in Seq(Entry) /\ Len(Pruned(seen)) = Len(seen) - k
           /\ \A i \in 1 .. Len(Pruned(seen)) : i + k \in 1 .. Len(seen) /\ Pruned(seen)[i] = seen[i + k]
           /\ \A j \in 1 .. k : ~Kept(seen[j])
<1>1. PICK k \in 0 .. Len(seen) : /\ Pruned(seen) = SubSeq(seen, k + 1, Len(seen))
                                  /\ \A j \in 1 .. k : ~Kept(seen[j])
  BY PrunedIs
<1>2. seen \in Seq(Entry) /\ Len(seen) \in Nat
  BY LenProperties DEF LedgerInv
<1>3. Pruned(seen) \in Seq(Entry)
  BY <1>1, <1>2
<1>4. Len(Pruned(seen)) = Len(seen) - k
  BY <1>1, <1>2
<1>5. ASSUME NEW i \in 1 .. Len(Pruned(seen))
      PROVE  i + k \in 1 .. Len(seen) /\ Pruned(seen)[i] = seen[i + k]
  BY <1>1, <1>2, <1>4
<1>6. QED
  BY <1>1, <1>3, <1>4, <1>5

(* The ledger that is left still keeps to its rule.                        *)
LEMMA PrunedKeeps ==
  ASSUME SynAssumption, LedgerInv
  PROVE  /\ Pruned(seen) \in Seq(Entry)
         /\ \A i \in 1 .. Len(Pruned(seen)) :
              /\ Pruned(seen)[i].at <= now
              /\ Pruned(seen)[i].syn.period <= syn_period(Pruned(seen)[i].at) + 1
         /\ \A i, j \in 1 .. Len(Pruned(seen)) : Pruned(seen)[i].syn = Pruned(seen)[j].syn => i = j
<1>1. PICK k \in 0 .. Len(seen) :
           /\ Pruned(seen) \in Seq(Entry) /\ Len(Pruned(seen)) = Len(seen) - k
           /\ \A i \in 1 .. Len(Pruned(seen)) : i + k \in 1 .. Len(seen) /\ Pruned(seen)[i] = seen[i + k]
  BY PrunedEntries
<1>2. ASSUME NEW i \in 1 .. Len(Pruned(seen)), NEW j \in 1 .. Len(Pruned(seen)),
             Pruned(seen)[i].syn = Pruned(seen)[j].syn
      PROVE  i = j
  <2>1. i + k = j + k
    BY <1>1, <1>2 DEF LedgerInv
  <2>2. Len(Pruned(seen)) \in Nat /\ k \in Int
    BY <1>1, LenProperties
  <2>3. QED
    BY <2>1, <2>2
<1>3. QED
  BY <1>1, <1>2 DEF LedgerInv

(* A SYN that was answered and can be answered still is remembered after   *)
(* the pruning, with its place.                                            *)
LEMMA Remembered ==
  ASSUME SynAssumption, Inv, NEW s \in syns, NEW p \in Places,
         <<s, p>> \in answered, s \notin evicted, ~Stale(s)
  PROVE  \E i \in 1 .. Len(Pruned(seen)) : Pruned(seen)[i].syn = s /\ Pruned(seen)[i].from = p
<1>1. PICK m \in 1 .. Len(seen) : seen[m].syn = s /\ seen[m].from = p
  BY DEF Inv, MemoryInv
<1>2. PICK k \in 0 .. Len(seen) :
           /\ Pruned(seen) \in Seq(Entry) /\ Len(Pruned(seen)) = Len(seen) - k
           /\ \A i \in 1 .. Len(Pruned(seen)) : i + k \in 1 .. Len(seen) /\ Pruned(seen)[i] = seen[i + k]
           /\ \A j \in 1 .. k : ~Kept(seen[j])
  BY PrunedEntries DEF Inv
<1>3. Kept(seen[m])
  BY <1>1, DroppedIsStale DEF Inv
<1>4. Len(seen) \in Nat
  BY LenProperties DEF Inv, LedgerInv
<1>5. m - k \in 1 .. Len(Pruned(seen)) /\ (m - k) + k = m
  BY <1>2, <1>3, <1>4
<1>6. QED
  BY <1>1, <1>2, <1>5, Zenon

------------------------------------------------------------------------------
(* A SYN the ledger knows is answered where it was answered first.         *)
LEMMA KnownInv ==
  ASSUME SynAssumption, Inv, NEW s \in syns, NEW from \in Places, ~Stale(s),
         NEW m \in 1 .. Len(Pruned(seen)), Pruned(seen)[m].syn = s,
         seen' = Pruned(seen), evicted' = evicted,
         answered' = IF Pruned(seen)[m].from = from THEN answered \cup {<<s, from>>} ELSE answered,
         UNCHANGED <<now, skew, syn, syns>>
  PROVE  Inv'
<1> DEFINE L == Pruned(seen)
<1>1. ClockInv'
  BY DEF Inv, ClockInv, syn_period
<1>2. LedgerInv'
  BY PrunedKeeps DEF Inv, LedgerInv, syn_period
<1>3. answered' \subseteq syns' \X Places
  BY DEF Inv, MemoryInv
<1>4. ASSUME NEW t \in syns, NEW p \in Places, <<t, p>> \in answered', t \notin evicted, ~Stale(t)
      PROVE  \E i \in 1 .. Len(L) : L[i].syn = t /\ L[i].from = p
  BY <1>4, Remembered
<1>5. \A t \in syns : Stale(t)' <=> Stale(t)
  BY DEF Stale, syn_period
<1>6. AnsweredAtOnePlace'
  <2>1. SUFFICES ASSUME NEW t \in syns, NEW p \in Places, NEW q \in Places,
                        <<t, p>> \in answered', <<t, q>> \in answered', t \notin evicted
                 PROVE  p = q
    BY DEF AnsweredAtOnePlace
  <2>2. CASE Stale(t)
    <3>1. <<t, p>> \in answered /\ <<t, q>> \in answered
      BY <2>1, <2>2
    <3>2. QED
      BY <2>1, <3>1 DEF Inv, MemoryInv, AnsweredAtOnePlace
  <2>3. CASE ~Stale(t)
    <3>1. PICK i \in 1 .. Len(L) : L[i].syn = t /\ L[i].from = p
      BY <1>4, <2>1, <2>3
    <3>2. PICK j \in 1 .. Len(L) : L[j].syn = t /\ L[j].from = q
      BY <1>4, <2>1, <2>3
    <3>3. i = j
      BY <3>1, <3>2, PrunedKeeps DEF Inv
    <3>4. QED
      BY <3>1, <3>2, <3>3
  <2>4. QED
    BY <2>2, <2>3
<1>7. MemoryInv'
  BY <1>3, <1>4, <1>5, <1>6 DEF MemoryInv
<1>8. QED
  BY <1>1, <1>2, <1>7 DEF Inv

(* A SYN the ledger does not know is written down, and one that must make  *)
(* room for it is noted as dropped: M is what stays of the ledger L.       *)
LEMMA UnknownInv ==
  ASSUME SynAssumption, Inv, NEW s \in syns, NEW from \in Places, ~Stale(s),
         s.period <= syn_period(now) + 1,
         \A i \in 1 .. Len(Pruned(seen)) : Pruned(seen)[i].syn # s,
         NEW M \in Seq(Entry), NEW d \in {0, 1}, Len(M) = Len(Pruned(seen)) - d,
         \A i \in 1 .. Len(M) : M[i] = Pruned(seen)[i + d],
         d = 1 => Pruned(seen)[1].syn \in evicted', evicted \subseteq evicted',
         seen' = Append(M, [syn |-> s, from |-> from, at |-> now]),
         answered' = answered \cup {<<s, from>>},
         UNCHANGED <<now, skew, syn, syns>>
  PROVE  Inv'
<1> DEFINE L == Pruned(seen)
           e == [syn |-> s, from |-> from, at |-> now]
<1>1. ClockInv'
  BY DEF Inv, ClockInv, syn_period
<1>2. e \in Entry
  BY DEF Inv, ClockInv, Entry
<1>3. Len(M) \in Nat /\ Len(L) \in Nat
  BY LenProperties, PrunedKeeps DEF Inv
<1>4. /\ seen' \in Seq(Entry) /\ Len(seen') = Len(M) + 1
      /\ \A i \in 1 .. Len(M) : seen'[i] = M[i]
      /\ seen'[Len(M) + 1] = e
  BY <1>2, AppendProperties
<1>5. \A i \in 1 .. Len(M) : i + d \in 1 .. Len(L) /\ seen'[i] = L[i + d]
  BY <1>3, <1>4
<1>6. \A i \in 1 .. Len(seen') : i \in 1 .. Len(M) \/ i = Len(M) + 1
  BY <1>3, <1>4
<1>7. LedgerInv'
  <2>1. ASSUME NEW i \in 1 .. Len(seen')
        PROVE  seen'[i].at <= now /\ seen'[i].syn.period <= syn_period(seen'[i].at) + 1
    <3>1. CASE i \in 1 .. Len(M)
      BY <1>5, <3>1, PrunedKeeps DEF Inv
    <3>2. CASE i = Len(M) + 1
      BY <1>4, <3>2 DEF Inv, ClockInv
    <3>3. QED
      BY <1>6, <3>1, <3>2
  <2>2. ASSUME NEW i \in 1 .. Len(seen'), NEW j \in 1 .. Len(seen'), seen'[i].syn = seen'[j].syn
        PROVE  i = j
    <3>1. CASE i \in 1 .. Len(M) /\ j \in 1 .. Len(M)
      <4>1. i + d \in 1 .. Len(L) /\ j + d \in 1 .. Len(L) /\ L[i + d].syn = L[j + d].syn
        BY <1>5, <2>2, <3>1
      <4>2. \A a, b \in 1 .. Len(L) : L[a].syn = L[b].syn => a = b
        BY PrunedKeeps DEF Inv
      <4>3. i + d = j + d
        BY <4>1, <4>2
      <4>4. QED
        BY <1>3, <3>1, <4>3
    <3>2. CASE i = Len(M) + 1 /\ j = Len(M) + 1
      BY <3>2
    <3>3. CASE i \in 1 .. Len(M) /\ j = Len(M) + 1
      BY <1>4, <1>5, <2>2, <3>3
    <3>4. CASE i = Len(M) + 1 /\ j \in 1 .. Len(M)
      BY <1>4, <1>5, <2>2, <3>4
    <3>5. QED
      BY <1>6, <3>1, <3>2, <3>3, <3>4
  <2>3. QED
    BY <1>4, <2>1, <2>2 DEF LedgerInv, syn_period
<1>8. answered' \subseteq syns' \X Places
  BY DEF Inv, MemoryInv
<1>9. ASSUME NEW t \in syns, NEW p \in Places, <<t, p>> \in answered, t \notin evicted', ~Stale(t)
      PROVE  /\ t # s
             /\ \E i \in 1 .. Len(seen') : seen'[i].syn = t /\ seen'[i].from = p
  <2>1. PICK i \in 1 .. Len(L) : L[i].syn = t /\ L[i].from = p
    BY <1>9, Remembered
  <2>2. i - d \in 1 .. Len(M) /\ (i - d) + d = i
    BY <1>3, <1>9, <2>1
  <2>3. seen'[i - d] = L[i]
    BY <1>5, <2>2
  <2>4. i - d \in 1 .. Len(seen')
    BY <1>3, <1>4, <2>2
  <2>5. QED
    BY <2>1, <2>3, <2>4
<1>10. Len(M) + 1 \in 1 .. Len(seen') /\ seen'[Len(M) + 1].syn = s /\ seen'[Len(M) + 1].from = from
  BY <1>3, <1>4
<1>11. \A t \in syns : Stale(t)' <=> Stale(t)
  BY DEF Stale, syn_period
<1>12. ASSUME NEW t \in syns, NEW p \in Places, <<t, p>> \in answered', t \notin evicted', ~Stale(t)
       PROVE  \E i \in 1 .. Len(seen') : seen'[i].syn = t /\ seen'[i].from = p
  <2>1. CASE <<t, p>> \in answered
    BY <1>9, <1>12, <2>1, ZenonT(40)
  <2>2. CASE t = s /\ p = from
    BY <1>10, <2>2
  <2>3. QED
    BY <1>12, <2>1, <2>2
<1>13. AnsweredAtOnePlace'
  <2>1. SUFFICES ASSUME NEW t \in syns, NEW p \in Places, NEW q \in Places,
                        <<t, p>> \in answered', <<t, q>> \in answered', t \notin evicted'
                 PROVE  p = q
    BY DEF AnsweredAtOnePlace
  <2>2. CASE t # s
    BY <2>1, <2>2 DEF Inv, MemoryInv, AnsweredAtOnePlace
  <2>3. CASE t = s
    BY <1>9, <2>1, <2>3
  <2>4. QED
    BY <2>2, <2>3
<1>14. MemoryInv'
  BY <1>8, <1>11, <1>12, <1>13 DEF MemoryInv
<1>15. QED
  BY <1>1, <1>7, <1>14 DEF Inv

(* A SYN arrives (answer_syn).                                             *)
LEMMA AnswerInv ==
  ASSUME SynAssumption, Inv, NEW s \in syns, NEW from \in Places, answer_syn(s, from)
  PROVE  Inv'
<1> DEFINE L == Pruned(seen)
           e == [syn |-> s, from |-> from, at |-> now]
           full == Len(L) >= SYN_LEDGER_LEN
<1>1. UNCHANGED <<now, skew, syn, syns>>
  BY DEF answer_syn
<1>2. CASE ~syn_tag_matches(s)
  <2>1. UNCHANGED <<seen, answered, evicted>>
    BY <1>2 DEF answer_syn
  <2>2. QED
    BY <1>1, <2>1 DEF Inv, ClockInv, LedgerInv, MemoryInv, Stale, syn_period, AnsweredAtOnePlace
<1>3. CASE syn_tag_matches(s)
  <2>1. ~Stale(s) /\ s.period <= syn_period(now) + 1
    BY <1>3, MatchesIsNotStale DEF Inv, ClockInv
  <2>2. L \in Seq(Entry) /\ Len(L) \in Nat /\ DOMAIN L = 1 .. Len(L)
    BY PrunedKeeps, LenProperties DEF Inv
  <2>3. CASE \E i \in DOMAIN L : L[i].syn = s
    <3> DEFINE m == First(L, s)
    <3>1. PICK i \in 1 .. Len(L) : L[i].syn = s
      BY <2>2, <2>3
    <3>2. \A j \in 1 .. i - 1 : j \in 1 .. Len(L) /\ j # i
      BY <2>2
    <3>3. \A j \in 1 .. i - 1 : L[j].syn # s
      BY <3>1, <3>2, PrunedKeeps DEF Inv
    <3>4. m \in 1 .. Len(L) /\ L[m].syn = s
      BY <2>2, <3>1, <3>3, Zenon DEF First
    <3>5. /\ seen' = L /\ evicted' = evicted
          /\ answered' = IF L[m].from = from THEN answered \cup {<<s, from>>} ELSE answered
      BY <1>3, <2>3, Zenon DEF answer_syn, admit
    <3> HIDE DEF m
    <3>6. QED
      BY <1>1, <2>1, <3>4, <3>5, KnownInv, Zenon
  <2>4. CASE ~(\E i \in DOMAIN L : L[i].syn = s)
    <3>1. /\ seen' = Append(IF full THEN Tail(L) ELSE L, e)
          /\ evicted' = evicted \cup (IF full THEN {Head(L).syn} ELSE {})
          /\ answered' = answered \cup {<<s, from>>}
      BY <1>3, <2>4, Zenon DEF answer_syn, admit
    <3>2. \A i \in 1 .. Len(L) : L[i].syn # s
      BY <2>2, <2>4
    <3>3. CASE full
      <4>1. L # << >> /\ Len(L) >= 1
        BY <2>2, <3>3, EmptySeq DEF SynAssumption
      <4>2. /\ Tail(L) \in Seq(Entry) /\ Len(Tail(L)) = Len(L) - 1 /\ Head(L) = L[1]
            /\ \A i \in 1 .. Len(Tail(L)) : Tail(L)[i] = L[i + 1]
        <5> HIDE DEF L
        <5>1. /\ Tail(L) \in Seq(Entry) /\ Len(Tail(L)) = Len(L) - 1
              /\ \A i \in 1 .. Len(Tail(L)) : Tail(L)[i] = L[i + 1]
          BY <2>2, <4>1, HeadTailProperties
        <5>2. Head(L) = L[1]
          BY <2>2, <4>1
        <5>3. QED
          BY <5>1, <5>2
      <4>3. /\ seen' = Append(Tail(L), e) /\ L[1].syn \in evicted' /\ evicted \subseteq evicted'
        BY <3>1, <3>3, <4>2
      <4>4. QED
        BY <1>1, <2>1, <3>1, <3>2, <4>2, <4>3, UnknownInv, Zenon
    <3>4. CASE ~full
      <4>1. seen' = Append(L, e) /\ evicted \subseteq evicted'
        BY <3>1, <3>4
      <4>2. PICK d \in {0, 1} : d = 0
        OBVIOUS
      <4>3. d # 1 /\ Len(L) = Len(L) - d /\ \A i \in 1 .. Len(L) : L[i] = L[i + d]
        BY <2>2, <4>2
      <4>4. QED
        BY <1>1, <2>1, <2>2, <3>1, <3>2, <4>1, <4>3, UnknownInv, Zenon
    <3>5. QED
      BY <3>3, <3>4
  <2>5. QED
    BY <2>3, <2>4
<1>4. QED
  BY <1>2, <1>3

(* Time passes: entries grow older, and what was stale stays so.           *)
LEMMA TickInv == ASSUME SynAssumption, Inv, Tick PROVE Inv'
<1>1. now \in Nat /\ now' = now + 1 /\ UNCHANGED <<skew, syn, syns, seen, answered, evicted>>
  BY DEF Tick, Inv, ClockInv
<1>2. syn_period(now) <= syn_period(now') /\ syn_period(now) \in Int /\ syn_period(now') \in Int
  <2>1. now \in Int /\ now' \in Int /\ now <= now'
    BY <1>1
  <2>2. QED
    BY <2>1, Monotone, PeriodIsInt
<1>3. \A s \in Syn : Stale(s) => Stale(s)'
  BY <1>2 DEF Stale, Syn, syn_period
<1>4. ClockInv'
  <2>1. syn.sent \in Nat
    BY DEF Inv, ClockInv, Syn
  <2>2. syn.sent <= now'
    BY <1>1, <2>1 DEF Inv, ClockInv
  <2>3. QED
    BY <1>1, <2>2 DEF Inv, ClockInv, syn_period
<1>5. LedgerInv'
  <2>1. \A i \in 1 .. Len(seen) : seen[i].at \in Nat
    <3>1. \A i \in 1 .. Len(seen) : seen[i] \in Entry
      BY ElementOfSeq DEF Inv, LedgerInv
    <3>2. QED
      BY <3>1 DEF Entry
  <2>2. \A i \in 1 .. Len(seen) : seen[i].at <= now'
    BY <1>1, <2>1 DEF Inv, LedgerInv
  <2>3. QED
    BY <1>1, <2>2 DEF Inv, LedgerInv, syn_period
<1>6. MemoryInv'
  <2>1. \A s \in syns : s \in Syn
    BY DEF Inv, ClockInv
  <2>2. QED
    BY <1>1, <1>3, <2>1 DEF Inv, MemoryInv, AnsweredAtOnePlace
<1>7. QED
  BY <1>4, <1>5, <1>6 DEF Inv

(* The sender's SYN is replaced (Wire::knock).                             *)
LEMMA RenewInv == ASSUME SynAssumption, Inv, Renew PROVE Inv'
<1>1. /\ UNCHANGED <<now, skew, seen, answered, evicted>> /\ syn' = syn_tag(Cardinality(syns) + 1)
      /\ syns' = syns \cup {syn'}
  BY DEF Renew
<1>2. now \in Nat /\ skew \in Int /\ now + skew \in Int /\ Cardinality(syns) + 1 \in Nat
  BY FS_CardinalityType DEF Inv, ClockInv
<1>3. syn_period(now + skew) \in Int
  BY <1>2, PeriodIsInt
<1>4. syn' = [n |-> Cardinality(syns) + 1, period |-> syn_period(now + skew), sent |-> now]
  BY <1>1 DEF syn_tag
<1>5. syn' \in Syn
  BY <1>2, <1>3, <1>4 DEF Syn
<1>6. IsFiniteSet(syns')
  BY <1>1, FS_AddElement DEF Inv, ClockInv
<1>7. syn'.sent = now /\ syn'.period = syn_period(now + skew)
  BY <1>4
<1>8. ClockInv'
  BY <1>1, <1>2, <1>5, <1>6, <1>7 DEF Inv, ClockInv, syn_period
<1>9. LedgerInv'
  BY <1>1 DEF Inv, LedgerInv, syn_period
<1>10. MemoryInv'
  <2>1. \A s \in syns', p \in Places : <<s, p>> \in answered => s \in syns
    BY DEF Inv, MemoryInv
  <2>2. answered' \subseteq syns' \X Places
    BY <1>1 DEF Inv, MemoryInv
  <2>3. \A s \in syns : Stale(s)' <=> Stale(s)
    BY <1>1 DEF Stale, syn_period
  <2>4. AnsweredAtOnePlace'
    BY <1>1, <2>1 DEF Inv, MemoryInv, AnsweredAtOnePlace
  <2>5. QED
    BY <1>1, <2>1, <2>2, <2>3, <2>4 DEF Inv, MemoryInv
<1>11. QED
  BY <1>8, <1>9, <1>10 DEF Inv

(* The invariant holds at the first SYN.                                   *)
LEMMA InitInv == ASSUME SynAssumption, LedgerInit PROVE Inv
<1>1. now = 0 /\ skew \in Int /\ -MaxSkew <= skew /\ skew <= MaxSkew /\ syns = {syn}
      /\ seen = << >> /\ answered = {}
  BY DEF LedgerInit, SynAssumption
<1>2. syn = [n |-> 1, period |-> syn_period(now + skew), sent |-> now]
  BY DEF LedgerInit, syn_tag
<1>3. now + skew \in Int /\ syn_period(now + skew) \in Int
  <2>1. now + skew \in Int
    BY <1>1
  <2>2. QED
    BY <2>1, PeriodIsInt
<1>4. syn \in Syn /\ syn.sent = now /\ syn.period = syn_period(now + skew)
  BY <1>1, <1>2, <1>3 DEF Syn
<1>5. IsFiniteSet(syns)
  BY <1>1, FS_Singleton, Zenon
<1>6. ClockInv
  BY <1>1, <1>4, <1>5 DEF ClockInv
<1>7. LedgerInv
  BY <1>1, EmptySeq DEF LedgerInv
<1>8. MemoryInv
  BY <1>1 DEF MemoryInv, AnsweredAtOnePlace
<1>9. QED
  BY <1>6, <1>7, <1>8 DEF Inv

(* Every step preserves the invariant.                                     *)
LEMMA StepInv == ASSUME SynAssumption, Inv, [LedgerNext]_ledgerVars PROVE Inv'
<1>1. CASE UNCHANGED ledgerVars
  BY <1>1 DEF ledgerVars, Inv, ClockInv, LedgerInv, MemoryInv, Stale, syn_period, AnsweredAtOnePlace
<1>2. QED
  BY <1>1, TickInv, RenewInv, AnswerInv DEF LedgerNext

(* A SYN younger than SYN_FRESH is within a period of the responder's, as  *)
(* long as the clocks are within half of one.                              *)
LEMMA FreshMatches == ASSUME SynAssumption, Inv PROVE KnocksWithAProof
<1> SUFFICES ASSUME Fresh PROVE syn_tag_matches(syn)
  BY DEF KnocksWithAProof
<1> DEFINE x == syn.sent + skew
<1>1. /\ PERIOD \in Nat /\ MaxSkew \in Nat /\ 2 * MaxSkew <= PERIOD
      /\ now \in Nat /\ syn.sent \in Nat /\ syn.sent <= now
      /\ skew \in Int /\ -MaxSkew <= skew /\ skew <= MaxSkew /\ syn.period = syn_period(x)
  BY DEF SynAssumption, Inv, ClockInv, Syn
<1>2. 2 * (now - syn.sent) <= PERIOD
  BY <1>1 DEF Fresh, SYN_FRESH
<1>3. x \in Int /\ now \in Int /\ -1 \in Int
  BY <1>1
<1>4. now + PERIOD * (-1) <= x /\ x + PERIOD * (-1) <= now
  BY <1>1, <1>2
<1> HIDE DEF x
<1>5. syn_period(now) + (-1) <= syn_period(x) /\ syn_period(x) + (-1) <= syn_period(now)
  BY <1>3, <1>4, Advance
<1>6. syn_period(now) \in Int /\ syn_period(x) \in Int
  BY <1>3, PeriodIsInt
<1>7. QED
  BY <1>1, <1>5, <1>6 DEF syn_tag_matches

------------------------------------------------------------------------------
(* A SYN is answered at one place, for as long as it can prove itself and  *)
(* the ledger has room (SynLedger::admit, SYN_LEDGER_KEEP); and the SYN an *)
(* initiator is repeating always proves itself (syn_stale, SYN_FRESH).     *)
THEOREM KnocksAreAnswered == ASSUME SynAssumption PROVE LedgerSpec => []KnocksAnswered
<1>1. LedgerInit => Inv
  BY InitInv
<1>2. Inv /\ [LedgerNext]_ledgerVars => Inv'
  BY StepInv
<1>3. Inv => KnocksAnswered
  BY FreshMatches DEF KnocksAnswered, Inv, MemoryInv
<1>4. QED
  BY <1>1, <1>2, <1>3, PTL DEF LedgerSpec
=============================================================================
