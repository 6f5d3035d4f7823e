------------------------------- MODULE PathMtu -------------------------------
(***************************************************************************)
(* Path-MTU reports: the carrier sets Don't Fragment, a hop that cannot    *)
(* pass a packet quotes it back (toobig.rs), and Tunnel::note_too_big      *)
(* decides whether to believe the report and what to tell the operator.    *)
(* Packets, reports, port rotations and changes of the path interleave;    *)
(* reports are lost, repeated and late.                                    *)
(***************************************************************************)
EXTENDS Integers, Sequences

CONSTANTS mtu,            \* interface.mtu
          OVERHEAD,       \* outer bytes around an inner packet
          Inner,          \* inner sizes sent
          Hops,           \* outer sizes a hop may take
          MIN_IPV4_MTU,
          MaxPorts, MaxSends, MaxChanges

VARIABLES port,           \* the local port in use
          hop,            \* what the narrowest hop takes
          sent,           \* packets put on the wire, by number
          reports,        \* reports that may arrive, never or often
          reported,       \* PeerState::reported_mtu, or NoNumber
          said,           \* announcements made, oldest first
          counted,        \* the counter the last report went to
          changes

mtuVars == <<port, hop, sent, reports, reported, said, counted, changes>>

NoNumber == 0

(* The sizes are sizes, and an IPv4 hop takes something (68 bytes).        *)
MtuAssumption ==
  /\ mtu \in Nat /\ OVERHEAD \in Nat /\ MIN_IPV4_MTU \in Nat \ {0}
  /\ Inner \subseteq Nat /\ Hops \subseteq Nat

------------------------------------------------------------------------------
(* Reading one report.                                                     *)

\* Mutant of describes: the ports of the quotation are not compared.
DescribesAnyPort(r) == r.ours

describes(r) == r.ours /\ r.port \in {NoNumber, port}

usable(r) == r.mtu >= MIN_IPV4_MTU

\* Mutant of shortfall: measured against the packet without its header.
ShortfallInner(r) == r.size - OVERHEAD - r.mtu

shortfall(r) == r.size - r.mtu

(* saturating_sub                                                          *)
Suggested(over) == IF over > mtu THEN 0 ELSE mtu - over

\* Mutant of SaidAlready: announced whenever the number differs.
SaidSame(r) == reported = r.mtu

SaidAlready(r) == reported # NoNumber /\ reported <= r.mtu

note_too_big(r) ==
  /\ r \in reports
  /\ \/ /\ ~describes(r)
        /\ counted' = "unparsed"
        /\ UNCHANGED <<reported, said>>
     \/ /\ describes(r) /\ ~(usable(r) /\ shortfall(r) > 0)
        /\ counted' = "nothing"
        /\ UNCHANGED <<reported, said>>
     \/ /\ describes(r) /\ usable(r) /\ shortfall(r) > 0
        /\ counted' = "too_big"
        /\ IF SaidAlready(r) THEN UNCHANGED <<reported, said>>
           ELSE /\ reported' = r.mtu
                /\ said' = Append(said, [mtu |-> r.mtu, size |-> r.size, port |-> port,
                                         suggested |-> Suggested(shortfall(r)), full |-> mtu + OVERHEAD])
  /\ UNCHANGED <<port, hop, sent, reports, changes>>

------------------------------------------------------------------------------
MtuInit ==
  /\ port = 1 /\ hop \in Hops
  /\ sent = << >> /\ reports = {} /\ reported = NoNumber /\ said = << >>
  /\ counted = "nothing" /\ changes = 0

(* A packet, and the report of the hop that refuses it: with the ports it  *)
(* carried, or with a quotation too short to hold them, or with an MTU of  *)
(* zero, as some routers send.                                             *)
Send(n) ==
  LET size == n + OVERHEAD
  IN /\ n <= mtu /\ Len(sent) < MaxSends
     /\ sent' = Append(sent, [size |-> size, port |-> port])
     /\ reports' = IF size <= hop THEN reports
                   ELSE reports \cup [mtu : {hop, 0}, size : {size}, port : {port, NoNumber}, ours : {TRUE}]
     /\ UNCHANGED <<port, hop, reported, said, counted, changes>>

(* Somebody else's flow, quoted to the same capture.                       *)
Stray ==
  /\ reports' = reports \cup [mtu : {MIN_IPV4_MTU}, size : {mtu + OVERHEAD}, port : {NoNumber}, ours : {FALSE}]
  /\ UNCHANGED <<port, hop, sent, reported, said, counted, changes>>

maybe_rotate ==
  /\ port < MaxPorts
  /\ port' = port + 1
  /\ UNCHANGED <<hop, sent, reports, reported, said, counted, changes>>

PathChanges ==
  /\ changes < MaxChanges
  /\ hop' \in Hops \ {hop} /\ changes' = changes + 1
  /\ UNCHANGED <<port, sent, reports, reported, said, counted>>

MtuNext ==
  \/ \E n \in Inner : Send(n)
  \/ Stray \/ maybe_rotate \/ PathChanges
  \/ \E r \in reports : note_too_big(r)

MtuSpec == MtuInit /\ [][MtuNext]_mtuVars

------------------------------------------------------------------------------
(* However often reports repeat and the path changes, what is announced    *)
(* only falls: a repeated or a late report is never announced again.       *)
AnnouncementsFall ==
  \A i \in 1 .. Len(said) - 1 : said[i + 1].mtu < said[i].mtu

(* A report is believed only if it quotes a packet this end sent, from the *)
(* port now in use unless the quotation is too short to say: a report that *)
(* crosses a rotation with its ports in it counts as somebody else's.      *)
BelievedWasSent ==
  \A r \in reports : note_too_big(r) /\ counted' = "too_big" =>
    \E i \in DOMAIN sent : sent[i].size = r.size /\ (r.port # NoNumber => sent[i].port = port)

(* The size suggested, when the packet refused was a full-sized one, is a  *)
(* size that hop takes.                                                    *)
SuggestionFitsFullSized ==
  \A i \in DOMAIN said : said[i].size = said[i].full =>
     said[i].suggested + OVERHEAD <= said[i].mtu \/ said[i].suggested = 0

(* The three together: what is announced falls, what is suggested fits,    *)
(* and what is believed was sent (note_too_big).                           *)
ReportsBelieved ==
  [](AnnouncementsFall /\ SuggestionFitsFullSized) /\ [][BelievedWasSent]_mtuVars

(* The claim of TooBig::shortfall: the figure comes from the report alone, *)
(* whatever packet it quotes.                                              *)
SuggestionFits ==
  \A i \in DOMAIN said : said[i].suggested + OVERHEAD <= said[i].mtu \/ said[i].suggested = 0
==============================================================================
