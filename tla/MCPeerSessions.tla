--------------------------- MODULE MCPeerSessions ---------------------------
(***************************************************************************)
(* What tunnel.rs says of its own goodbye handler in a comment, stated as  *)
(* a property of PeerSessions.                                             *)
(***************************************************************************)
EXTENDS PeerSessions

\* tunnel.rs:930-932 on `farewell`: every session goes, because "the peer is
\* about to forget all of them, so holding any is holding keys nobody on the
\* other side has".
FarewellDropsDeadKeys ==
    [][\A e \in End : \A p \in wire[Peer(e)] :
          p.body = "bye" /\ HandleTransport(e, p)
          => leaving[Peer(e)] \/ Held(e) \cap Held(Peer(e)) = {}]_vars
=============================================================================
