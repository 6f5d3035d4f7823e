------------------------------ MODULE SynLedger ------------------------------
(***************************************************************************)
(* The proof a real handshake's SYN carries and the responder's memory of  *)
(* the SYNs it has answered: syn_tag and syn_tag_matches (paqetz-core      *)
(* noise.rs), SynLedger::admit, answer_syn and the freshness rule of       *)
(* Wire::knock's caller (tunnel.rs).  A SYN's tag stands for the period of *)
(* the sender's clock it was composed in and a number that tells it from   *)
(* the others.  Places are addresses: a SYN may arrive again from another  *)
(* one, because a tag cannot cover an address that a NAT rewrites.         *)
(***************************************************************************)
EXTENDS Integers, Sequences, FiniteSets

CONSTANTS PERIOD,           \* SYN_PERIOD_SECS, in ticks
          SYN_LEDGER_LEN,
          Places,
          MaxSkew,          \* how far the sender's clock may be off
          MaxSyns, MaxTime

(* A period lasts, the ledger has room for a SYN, and the clocks agree to  *)
(* half a period.                                                          *)
SynAssumption ==
  /\ PERIOD \in Nat \ {0} /\ SYN_LEDGER_LEN \in Nat \ {0}
  /\ MaxSkew \in Nat /\ 2 * MaxSkew <= PERIOD

VARIABLES now,              \* the responder's clock
          skew,             \* the sender's, less the responder's
          syn,              \* the sender's current SYN
          syns,             \* every SYN composed
          seen,             \* the ledger: SYN, place, time
          answered,         \* SYN, place pairs that drew a SYN+ACK
          evicted           \* SYNs the ledger dropped for want of room

ledgerVars == <<now, skew, syn, syns, seen, answered, evicted>>

SYN_LEDGER_KEEP == 3 * PERIOD
SYN_FRESH == PERIOD \div 2
Epoch == 2 * PERIOD         \* clocks start well after their zero

syn_period(t) == (Epoch + t) \div PERIOD

(* syn_tag: the period and the SYN's own timestamp.                        *)
syn_tag(n) == [n |-> n, period |-> syn_period(now + skew), sent |-> now]

syn_tag_matches(s) == s.period \in syn_period(now) - 1 .. syn_period(now) + 1

LedgerInit ==
  /\ now = 0
  /\ skew \in {-MaxSkew, 0, MaxSkew}
  /\ syn = syn_tag(1) /\ syns = {syn}
  /\ seen = << >> /\ answered = {} /\ evicted = {}

Tick ==
  /\ now < MaxTime
  /\ now' = now + 1
  /\ UNCHANGED <<skew, syn, syns, seen, answered, evicted>>

\* Mutant of Fresh: a SYN is repeated for as long as nothing answers it.
FreshForever == TRUE

Fresh == now - syn.sent < SYN_FRESH

(* A SYN that has been repeated for half a period is replaced.             *)
Renew ==
  /\ ~Fresh /\ Cardinality(syns) < MaxSyns
  /\ syn' = syn_tag(Cardinality(syns) + 1)
  /\ syns' = syns \cup {syn'}
  /\ UNCHANGED <<now, skew, seen, answered, evicted>>

------------------------------------------------------------------------------
\* Mutant of Kept: what proves itself for three periods is kept for two.
KeptShort(entry) == now - entry.at <= 2 * PERIOD

Kept(entry) == now - entry.at <= SYN_LEDGER_KEEP

(* The entries from the first that is still kept.                          *)
Pruned(ledger) ==
  LET old == {i \in DOMAIN ledger : \A j \in 1 .. i : ~Kept(ledger[j])}
  IN SubSeq(ledger, Cardinality(old) + 1, Len(ledger))

(* The first entry of a SYN.                                               *)
First(ledger, s) ==
  CHOOSE i \in DOMAIN ledger : ledger[i].syn = s /\ \A j \in 1 .. i - 1 : ledger[j].syn # s

admit(s, from) ==
  LET ledger == Pruned(seen)
      known == \E i \in DOMAIN ledger : ledger[i].syn = s
      full == Len(ledger) >= SYN_LEDGER_LEN
      entry == [syn |-> s, from |-> from, at |-> now]
  IN IF known
     THEN [seen |-> ledger, out |-> {}, yes |-> ledger[First(ledger, s)].from = from]
     ELSE [seen |-> Append(IF full THEN Tail(ledger) ELSE ledger, entry),
           out |-> IF full THEN {Head(ledger).syn} ELSE {}, yes |-> TRUE]

(* A SYN composed earlier arrives, possibly again, from `from`.            *)
answer_syn(s, from) ==
  /\ s \in syns
  /\ IF ~syn_tag_matches(s) THEN UNCHANGED <<seen, answered, evicted>>
     ELSE LET a == admit(s, from) IN
          /\ seen' = a.seen
          /\ evicted' = evicted \cup a.out
          /\ answered' = IF a.yes THEN answered \cup {<<s, from>>} ELSE answered
  /\ UNCHANGED <<now, skew, syn, syns>>

LedgerNext == Tick \/ Renew \/ \E s \in syns, from \in Places : answer_syn(s, from)

LedgerSpec == LedgerInit /\ [][LedgerNext]_ledgerVars

------------------------------------------------------------------------------
(* A SYN is answered at one place, for as long as it can prove itself:     *)
(* the ledger outlives the proof, unless it ran out of room and dropped    *)
(* the SYN.                                                                *)
AnsweredAtOnePlace ==
  \A s \in syns : (\A p, q \in Places :
     <<s, p>> \in answered /\ <<s, q>> \in answered => p = q) \/ s \in evicted

(* The SYN the sender is knocking with always proves itself, if the clocks *)
(* agree to half a period: the rule that renews it after SYN_FRESH keeps   *)
(* an end that cannot move from repeating one the responder refuses.       *)
KnocksWithAProof == Fresh => syn_tag_matches(syn)

(* Both: what may go on being answered, and what may go on being sent.     *)
KnocksAnswered == AnsweredAtOnePlace /\ KnocksWithAProof
==============================================================================
