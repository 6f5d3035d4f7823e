------------------------------- MODULE Ingress -------------------------------
(***************************************************************************)
(* What happens to a captured frame before the tunnel sees it: the         *)
(* classic-BPF program the kernel runs (paqetz-dp bpf.rs), the carrier's   *)
(* parser (segment.rs, rawip.rs), and the reader of path-MTU reports       *)
(* (toobig.rs) for what the parser refused.  The three read the same       *)
(* headers independently; a frame is the fields they look at.              *)
(***************************************************************************)
EXTENDS Integers, Sequences

CONSTANTS Widths,       \* sizes of the port pool tried
          BaseId,       \* first echo identifier of the peering's block
          IdWidth,      \* identifiers in the block
          IdSpace       \* 2^16

VARIABLES shape,        \* "tcp", or the raw shell
          width,        \* ports in the filter
          frame,        \* the frame being handled
          pc, acc,      \* the kernel's place in the program, its accumulator
          outcome       \* what became of it

vars == <<shape, width, frame, pc, acc, outcome>>

Shapes == {"tcp", "gre", "bare", "icmp"}
TCP == 6
ICMP == 1
protocol(s) == CASE s = "tcp" -> TCP [] s = "gre" -> 47 [] s = "bare" -> 99 [] s = "icmp" -> ICMP
Protocols == {protocol(s) : s \in Shapes} \cup {17}

(* Fragment word: Don't Fragment, More Fragments, or a non-zero offset.    *)
Frags == {"whole", "df", "more", "later"}
LaterFragment(f) == f.frag = "later"            \* & 0x1FFF
Whole(f) == f.frag \in {"whole", "df"}          \* & 0xBFFF

Kinds == {"too big", "echo", "other"}
Frames ==
  [eth : {"ipv4", "other"}, proto : Protocols, frag : Frags, ihl : {4, 5, 6},
   sane : BOOLEAN, own : BOOLEAN, port : {0}, kind : {"other"}, id : {0}]
    \cup
  [eth : {"ipv4", "other"}, proto : {TCP}, frag : Frags, ihl : {5, 6},
   sane : BOOLEAN, own : {FALSE}, port : {0, 1, width \div 2 + 1, width}, kind : {"other"}, id : {0}]
    \cup
  [eth : {"ipv4"}, proto : {ICMP}, frag : Frags, ihl : {5, 6},
   sane : BOOLEAN, own : BOOLEAN, port : {0}, kind : Kinds, id : 0 .. IdSpace - 1]

------------------------------------------------------------------------------
(* The filter program.  A jump offset is one byte, counted from the next   *)
(* instruction, and one that does not fit saturates.                       *)

insn(op, jt, jf, k) == [op |-> op, jt |-> jt, jf |-> jf, k |-> k]
u8(n) == IF n > 255 THEN 255 ELSE n

(* Reached with the protocol still in the accumulator.                     *)
push_mtu_tail ==
  << insn("jeq", 0, 6, ICMP),
     insn("ld frag", 0, 0, 20),
     insn("jset", 4, 0, "offset"),
     insn("ldx ihl", 0, 0, 14),
     insn("ld kind", 0, 0, 14),
     insn("jeq", 0, 1, "too big"),
     insn("ret", 0, 0, TRUE),
     insn("ret", 0, 0, FALSE) >>

protocol_program(proto) ==
  << insn("ld eth", 0, 0, 12),
     insn("jeq", 0, 5, "ipv4"),
     insn("ld proto", 0, 0, 23),
     insn("jeq", 0, 4, proto),
     insn("ld frag", 0, 0, 20),
     insn("jset", 1, 0, "offset"),
     insn("ret", 0, 0, TRUE),
     insn("ret", 0, 0, FALSE) >> \o push_mtu_tail

to_fail(n, i) == u8(9 + n - i - 1)

to_icmp(n, i) == u8(10 + n - i - 1)

\* Mutant of to_accept: counted from the jump instead of the one after it.
ToAcceptLong(n, i) == u8(n - i)

to_accept(n, i) == u8(n - 1 - i)

ports_program(n) ==
  << insn("ld eth", 0, 0, 12),
     insn("jeq", 0, to_fail(n, 1), "ipv4"),
     insn("ld proto", 0, 0, 23),
     insn("jeq", 0, to_icmp(n, 3), TCP),
     insn("ld frag", 0, 0, 20),
     insn("jset", to_fail(n, 5), 0, "offset"),
     insn("ldx ihl", 0, 0, 14),
     insn("ld port", 0, 0, 16) >>
  \o [p \in 1 .. n |-> insn("jeq", to_accept(n, p - 1), IF p = n THEN 1 ELSE 0, p)]
  \o << insn("ret", 0, 0, TRUE), insn("ret", 0, 0, FALSE) >>
  \o push_mtu_tail

program == IF shape = "tcp" THEN ports_program(width) ELSE protocol_program(protocol(shape))

(* What a load leaves in the accumulator: the field, tagged with its name, *)
(* and equal only to an operand of that field.                             *)
Field(op, f) == CASE op = "ld eth" -> <<"eth", f.eth>> [] op = "ld proto" -> <<"proto", f.proto>>
                  [] op = "ld port" -> <<"port", f.port>> [] op = "ld kind" -> <<"kind", f.kind>>
                  [] OTHER -> <<"frag", f.frag>>

Equals(a, k) ==
  CASE a[1] = "eth" -> k = "ipv4" /\ a[2] = "ipv4"
    [] a[1] = "kind" -> k = "too big" /\ a[2] = "too big"
    [] OTHER -> k \in Int /\ a[2] = k

------------------------------------------------------------------------------
(* The readers in user space.  `sane` says the lengths a frame declares,   *)
(* IP and TCP, fit what arrived.                                           *)

parse_ipv4(f) == f.eth = "ipv4" /\ f.ihl >= 5 /\ Whole(f) /\ f.sane

SegmentOf(f) == parse_ipv4(f) /\ f.proto = TCP

\* Mutant of InBlock: compares without wrapping.
InBlockUnwrapped(id) == id >= BaseId /\ id - BaseId < IdWidth

InBlock(id) == (id - BaseId) % IdSpace < IdWidth

\* Mutant of EchoOnly: any ICMP message is taken for a ping.
AnyIcmp(f) == InBlock(f.id)

EchoOnly(f) == f.kind = "echo" /\ InBlock(f.id)

PacketOf(f) ==
  /\ parse_ipv4(f) /\ f.proto = protocol(shape)
  /\ shape = "icmp" => EchoOnly(f)
  /\ ~f.own

parse(f) == IF shape = "tcp" THEN SegmentOf(f) ELSE PacketOf(f)

TooBig(f) == f.eth = "ipv4" /\ f.ihl >= 5 /\ f.proto = ICMP /\ Whole(f) /\ f.kind = "too big"

handle_unparsed(f) ==
  IF TooBig(f) THEN "report" ELSE IF shape = "icmp" THEN "ignored" ELSE "unparsed"

(* The identifiers the asking end moves through.                           *)
outer_pool == {(BaseId + i) % IdSpace : i \in 0 .. IdWidth - 1}

------------------------------------------------------------------------------
Init ==
  /\ shape \in Shapes
  /\ width \in (IF shape = "tcp" THEN Widths ELSE {0})
  /\ frame \in Frames
  /\ pc = 1 /\ acc = <<"none", 0>>
  /\ outcome = "captured"

(* The kernel executes one instruction.                                    *)
Execute ==
  LET i == program[pc]
      jump(taken) == pc' = pc + 1 + (IF taken THEN i.jt ELSE i.jf)
  IN /\ outcome = "captured" /\ pc <= Len(program)
     /\ \/ /\ i.op = "ret"
           /\ outcome' = IF i.k THEN "accepted" ELSE "filtered"
           /\ UNCHANGED <<pc, acc>>
        \/ /\ i.op = "jeq" /\ jump(Equals(acc, i.k))
           /\ UNCHANGED <<acc, outcome>>
        \/ /\ i.op = "jset" /\ jump(LaterFragment(frame))
           /\ UNCHANGED <<acc, outcome>>
        \/ /\ i.op \notin {"ret", "jeq", "jset"}
           /\ acc' = IF i.op = "ldx ihl" THEN acc ELSE Field(i.op, frame)
           /\ pc' = pc + 1
           /\ UNCHANGED outcome
     /\ UNCHANGED <<shape, width, frame>>

wire_to_tun_simple ==
  /\ outcome = "accepted"
  /\ outcome' = IF parse(frame) THEN "segment" ELSE handle_unparsed(frame)
  /\ UNCHANGED <<shape, width, frame, pc, acc>>

Next == Execute \/ wire_to_tun_simple

Spec == Init /\ [][Next]_vars

------------------------------------------------------------------------------
Ours(f) == IF shape = "tcp" THEN f.proto = TCP /\ f.port \in 1 .. width
           ELSE f.proto = protocol(shape)

(* The program decides exactly what its comment says it decides, for any   *)
(* number of ports up to the limit: this carrier's packets and path-MTU    *)
(* reports, later fragments excepted.                                      *)
FilterIsItsPredicate ==
  outcome # "captured" =>
    (outcome = "filtered" <=>
       ~(/\ frame.eth = "ipv4" /\ ~LaterFragment(frame)
         /\ Ours(frame) \/ (frame.proto = ICMP /\ frame.kind = "too big")))

(* A packet of the peer that the parser would take is never lost to the    *)
(* filter or taken for something else, whichever number of the pool it     *)
(* came under.                                                             *)
PeersPacketsArrive ==
  /\ outcome \notin {"captured", "accepted"} /\ Ours(frame) /\ parse_ipv4(frame)
  /\ shape = "tcp" \/ ~frame.own
  /\ shape = "icmp" => frame.kind = "echo" /\ frame.id \in outer_pool
  => outcome = "segment"

(* A path-MTU report reaches its reader under every carrier, the ping      *)
(* carrier included, whose own protocol it shares.                         *)
ReportsArrive ==
  outcome \notin {"captured", "accepted"} /\ TooBig(frame) => outcome = "report"
==============================================================================
