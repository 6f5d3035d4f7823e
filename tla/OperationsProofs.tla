-------------------------- MODULE OperationsProofs ---------------------------
(***************************************************************************)
(* Proofs about what an operator sets up: the enrolling of two hosts, for  *)
(* any plans, failures and files carried over; and the SOCKS listener, for *)
(* any number of bytes, datagrams and attempts and whatever the resolver   *)
(* answers.                                                                *)
(***************************************************************************)
EXTENDS Enrol, Socks, TLAPS

(* Enrolling two hosts.                                                    *)

Junk == [end |-> "junk"]

(* A file as render lays it out.                                           *)
IsFile(f) ==
  f = [end |-> f.end, private_key |-> f.private_key, public_key |-> f.public_key,
       address |-> f.address, tunnel_address |-> f.tunnel_address, ipv6 |-> f.ipv6,
       listen_port |-> f.listen_port, endpoint |-> f.endpoint, gateway |-> f.gateway,
       route_all |-> f.route_all, route_marked |-> f.route_marked, socks5 |-> f.socks5,
       allowed_ips |-> f.allowed_ips, whole |-> f.whole]

(* `made` holds the plan each pair was generated from.  A file is missing, *)
(* or unreadable, or laid out for one of the ends; and one that is whole   *)
(* is what render wrote for that end when its pair was generated.          *)
Laid(f) ==
  /\ IsFile(f) /\ f.end \in Ends /\ f.whole \in BOOLEAN
  /\ f.endpoint # << >> <=> f.end = "client"
Comes(made, f) == \E n \in DOMAIN made : f = render(n, made[n], f.end)
Of(made, f) == f = NoFile \/ f = Junk \/ (Laid(f) /\ (f.whole => Comes(made, f)))

FilesInv(made) ==
  /\ minted \in Nat /\ made \in [1 .. minted -> Plans]
  /\ \A h \in Hosts :
       /\ \A e \in Ends : Of(made, dir[h][e])
       /\ Of(made, etc[h]) /\ Of(made, run[h])
       /\ pc[h] = "second" => \A e \in Ends : Of(made, pair[h][e]) /\ pair[h][e].end = e

(* Where nobody was overruled, a host runs, and is about to install, only  *)
(* files for the end it is.                                                *)
HostInv(h) ==
  /\ role[h] \in {Home[h], "neither"}
  /\ pc[h] = "service" => role[h] = Home[h]
  /\ ~overruled =>
       /\ run[h] # NoFile => run[h].end = Home[h]
       /\ etc[h].end \in Ends => etc[h].end = Home[h]
       /\ pc[h] = "second" /\ role[h] = "server" => dir[h]["server"].end = "server"
       /\ pc[h] = "service" => dir[h][role[h]].end = role[h]

Domains ==
  /\ dir = [h \in Hosts |-> [e \in Ends |-> dir[h][e]]]
  /\ etc = [h \in Hosts |-> etc[h]] /\ run = [h \in Hosts |-> run[h]]
  /\ pc = [h \in Hosts |-> pc[h]] /\ role = [h \in Hosts |-> role[h]]
  /\ pair = [h \in Hosts |-> pair[h]] /\ overruled \in BOOLEAN

EnrolInv(made) == Domains /\ FilesInv(made) /\ \A h \in Hosts : HostInv(h)

------------------------------------------------------------------------------
(* What render writes is laid out for the end it was asked for.            *)
LEMMA RenderIs ==
  ASSUME NEW n, NEW plan, NEW e \in Ends
  PROVE  Laid(render(n, plan, e)) /\ render(n, plan, e).end = e /\ render(n, plan, e).whole = TRUE
BY DEF Laid, IsFile, render, Ends

(* The key in a file names its pair.                                       *)
LEMMA KeyIs == ASSUME NEW n, NEW plan, NEW e PROVE render(n, plan, e).private_key[1] = n
BY DEF render

(* The two files of one pair fit together (render).                        *)
LEMMA PairFits ==
  ASSUME NEW n, NEW plan, NEW d \in Ends, NEW e \in Ends, d # e
  PROVE  Fits(render(n, plan, d), render(n, plan, e))
<1> DEFINE f == render(n, plan, d)
           g == render(n, plan, e)
<1>1. d = Other(e) /\ e = Other(d) /\ {d, e} = Ends
  BY DEF Ends, Other
<1>2. /\ f.end = d /\ g.end = e /\ f.private_key = <<n, d>> /\ g.private_key = <<n, e>>
      /\ f.public_key = <<n, Other(d)>> /\ g.public_key = <<n, Other(e)>>
      /\ f.tunnel_address = Other(d) /\ g.address = e /\ f.ipv6 = plan.ipv6 /\ g.ipv6 = plan.ipv6
  BY DEF render
<1>3. {f.end, g.end} = Ends
  BY <1>1, <1>2
<1>4. d = "client" => f.endpoint = <<plan.host, plan.port>> /\ g.listen_port = plan.port
  BY <1>1 DEF render, Other
<1>5. CASE d = ExitEnd(plan)
  <2>1. e # ExitEnd(plan)
    BY <1>5
  <2>2. /\ f.gateway = plan.gateway /\ f.route_all = FALSE /\ f.route_marked = 0
        /\ f.allowed_ips = "the peer"
    BY <1>5 DEF render, exit_iface, allowed_ips
  <2>3. f.socks5 = entry_socks5(plan, d) /\ ~entry_socks5(plan, d)
    BY <1>5 DEF render, entry_socks5
  <2>4. g.gateway = FALSE /\ (plan.gateway => g.allowed_ips = "anything")
    BY <2>1 DEF render, entry_iface, allowed_ips
  <2> HIDE DEF f, g
  <2>6. d = "client" => f.endpoint[2] = g.listen_port
    BY <1>4
  <2> QED BY <1>1, <1>2, <1>3, <2>2, <2>3, <2>4, <2>6 DEF f, g, Fits
<1>6. CASE d # ExitEnd(plan)
  <2>1. f.gateway = FALSE
    BY <1>6 DEF render, entry_iface
  <2> HIDE DEF f, g
  <2>3. d = "client" => f.endpoint[2] = g.listen_port
    BY <1>4
  <2> QED BY <1>1, <1>2, <1>3, <2>1, <2>3 DEF f, g, Fits
<1> QED BY <1>5, <1>6

(* A write that fails part way leaves a file for the same end that is not  *)
(* whole, or one that is for neither.                                      *)
LEMMA CutIs ==
  ASSUME NEW made, NEW f, Of(made, f), NEW c \in Cut(f)
  PROVE  Of(made, c) /\ c.end \in {f.end, "junk"}
<1>1. CASE c = Junk
  BY <1>1 DEF Of, Junk
<1>2. CASE c # Junk
  <2>1. c = [f EXCEPT !.whole = FALSE, !.allowed_ips = "the peer", !.socks5 = FALSE]
    BY <1>2 DEF Cut, Junk
  <2>2. CASE f = NoFile
    <3>1. c = NoFile
      BY <2>1, <2>2, Zenon DEF NoFile
    <3> QED BY <2>2, <3>1 DEF Of
  <2>3. CASE f = Junk
    BY <1>2, <2>1, <2>3, Zenon DEF Junk
  <2>4. CASE Laid(f)
    <3>1. /\ IsFile(c) /\ c.end = f.end /\ c.whole = FALSE /\ c.endpoint = f.endpoint
      BY <2>1, <2>4 DEF Laid, IsFile
    <3> QED BY <2>4, <3>1, Zenon DEF Of, Laid
  <2> QED BY <2>2, <2>3, <2>4 DEF Of
<1> QED BY <1>1, <1>2

(* What a write leaves, and where setup goes on (write_private).           *)
LEMMA WritesIs ==
  ASSUME NEW made, NEW f, Of(made, f), NEW next, NEW w \in Writes(f, next)
  PROVE  /\ Of(made, w[1])
         /\ \/ w[1] = f /\ w[2] = next
            \/ w[2] = "idle" /\ w[1].end \in {f.end, "junk"}
<1>1. CASE w = <<f, next, cuts>>
  BY <1>1
<1>2. ASSUME NEW c \in Cut(f), w = <<c, "idle", cuts + 1>>
      PROVE  Of(made, w[1]) /\ w[2] = "idle" /\ w[1].end \in {f.end, "junk"}
  BY <1>2, CutIs
<1> QED BY <1>1, <1>2 DEF Writes

(* A file that parses is laid out, and is_for tells which end it is for.   *)
LEMMA ParsedIs ==
  ASSUME NEW made, NEW f, Of(made, f), parses(f)
  PROVE  Laid(f) /\ \A r \in Ends : is_for(f, r) => f.end = r
<1>1. Laid(f)
  BY DEF Of, parses, Ends, NoFile, Junk
<1> QED BY <1>1 DEF Laid, is_for, Ends

(* A new pair leaves the files of the earlier ones as they were.           *)
LEMMA OfGrows ==
  ASSUME NEW n \in Nat, NEW made \in [1 .. n -> Plans], NEW plan \in Plans,
         NEW f, Of(made, f)
  PROVE  Of([i \in 1 .. n + 1 |-> IF i = n + 1 THEN plan ELSE made[i]], f)
<1> DEFINE more == [i \in 1 .. n + 1 |-> IF i = n + 1 THEN plan ELSE made[i]]
<1>1. \A i \in DOMAIN made : i \in DOMAIN more /\ more[i] = made[i]
  OBVIOUS
<1> HIDE DEF more
<1>2. Comes(made, f) => Comes(more, f)
  BY <1>1 DEF Comes
<1>3. Of(more, f)
  BY <1>2 DEF Of
<1> QED BY <1>3 DEF more

(* A step that does not touch a host leaves what holds of it.              *)
LEMMA HostStays ==
  ASSUME NEW h \in Hosts, HostInv(h), overruled => overruled',
         dir'[h] = dir[h], etc'[h] = etc[h], run'[h] = run[h], pc'[h] = pc[h], role'[h] = role[h]
  PROVE  HostInv(h)'
BY DEF HostInv

(* Writing one file of a host's directory.                                 *)
Put(h, e, f) == [dir EXCEPT ![h][e] = f]

(* write_private() replaces one file of one host, the rest stays.          *)
LEMMA DirWrites ==
  ASSUME NEW made, Domains, \A k \in Hosts, d \in Ends : Of(made, dir[k][d]),
         NEW h \in Hosts, NEW e \in Ends, NEW f, Of(made, f), dir' = Put(h, e, f)
  PROVE  /\ dir' = [k \in Hosts |-> [d \in Ends |-> dir'[k][d]]]
         /\ \A k \in Hosts, d \in Ends : Of(made, dir'[k][d])
         /\ dir'[h][e] = f
         /\ \A d \in Ends : d # e => dir'[h][d] = dir[h][d]
         /\ \A k \in Hosts : k # h => dir'[k] = dir[k]
<1>1. dir = [k \in Hosts |-> [d \in Ends |-> dir[k][d]]]
  BY DEF Domains
<1>2. /\ dir'[h][e] = f
      /\ \A d \in Ends : d # e => dir'[h][d] = dir[h][d]
      /\ \A k \in Hosts : k # h => dir'[k] = dir[k]
      /\ dir' = [k \in Hosts |-> [d \in Ends |-> dir'[k][d]]]
  BY <1>1, Zenon DEF Put
<1> QED BY <1>2

(* Nothing is written, and nobody enrolled, at first.                      *)
LEMMA EnrolInitial == ASSUME EnrolInit PROVE \E made : EnrolInv(made)
<1> DEFINE made == [i \in 1 .. 0 |-> NoFile]
<1>1. made \in [1 .. 0 -> Plans]
  OBVIOUS
<1> HIDE DEF made
<1>2. Domains
  BY Zenon DEF EnrolInit, Domains
<1>3. FilesInv(made)
  BY <1>1 DEF EnrolInit, FilesInv, Of
<1>4. ASSUME NEW h \in Hosts PROVE HostInv(h)
  BY DEF EnrolInit, HostInv, NoFile, Ends
<1> QED BY <1>2, <1>3, <1>4 DEF EnrolInv

(* Question 0 and adopt: a file found or pasted is used without a warning  *)
(* only if it is for the end this host is.                                 *)
LEMMA InteractiveInv ==
  ASSUME EnrolAssumption, NEW made, EnrolInv(made), NEW h \in Hosts, interactive(h)
  PROVE  EnrolInv(made)'
<1>1. Domains /\ FilesInv(made) /\ \A k \in Hosts : HostInv(k)
  BY DEF EnrolInv
<1>2. PICK r \in {Home[h], "neither"} :
        role' = [role EXCEPT ![h] = r] /\ (AdoptFound(h, r) \/ AdoptPasted(h, r) \/ AdoptNothing(h, r))
  BY Zenon DEF interactive
<1>3. /\ UNCHANGED <<minted, etc, run, pair, carried>> /\ pc[h] = "idle"
      /\ role'[h] = r /\ \A k \in Hosts : k # h => role'[k] = role[k]
      /\ role' = [k \in Hosts |-> role'[k]]
  BY <1>1, <1>2, Zenon DEF interactive, Domains
<1>4. r \in Ends => r = Home[h]
  BY DEF Ends
<1>5. ASSUME NEW step, Go(h, step), step # "second", overruled' \in BOOLEAN, overruled => overruled',
             dir' = [k \in Hosts |-> [d \in Ends |-> dir'[k][d]]],
             \A k \in Hosts, d \in Ends : Of(made, dir'[k][d]),
             \A k \in Hosts : k # h => dir'[k] = dir[k],
             step = "service" => r \in Ends /\ (~overruled' => dir'[h][r].end = r)
      PROVE  EnrolInv(made)'
  <2>1. /\ pc'[h] = step /\ (\A k \in Hosts : k # h => pc'[k] = pc[k])
        /\ pc' = [k \in Hosts |-> pc'[k]]
    BY <1>1, <1>5, Zenon DEF Go, Domains
  <2>2. Domains'
    BY <1>1, <1>3, <1>5, <2>1 DEF Domains
  <2>3. FilesInv(made)'
    BY <1>1, <1>3, <1>5, <2>1 DEF FilesInv
  <2>4. HostInv(h)'
    BY <1>1, <1>2, <1>3, <1>4, <1>5, <2>1 DEF HostInv
  <2>5. ASSUME NEW k \in Hosts, k # h PROVE HostInv(k)'
    BY <1>1, <1>3, <1>5, <2>1, <2>5, HostStays
  <2> QED BY <2>2, <2>3, <2>4, <2>5 DEF EnrolInv
<1>6. ASSUME UNCHANGED dir
      PROVE  /\ dir' = [k \in Hosts |-> [d \in Ends |-> dir'[k][d]]]
             /\ \A k \in Hosts, d \in Ends : Of(made, dir'[k][d])
             /\ \A k \in Hosts : k # h => dir'[k] = dir[k]
  BY <1>1, <1>6 DEF Domains, FilesInv
<1>7. CASE AdoptNothing(h, r)
  <2>1. Go(h, "questions") /\ UNCHANGED <<dir, overruled>>
    BY <1>7 DEF AdoptNothing
  <2> QED BY <1>1, <1>5, <1>6, <2>1 DEF Domains
<1>8. CASE AdoptFound(h, r)
  <2>1. r \in Ends /\ parses(dir[h][r]) /\ UNCHANGED dir
    BY <1>8 DEF AdoptFound
  <2>2. CASE Go(h, "questions") /\ UNCHANGED overruled
    BY <1>1, <1>5, <1>6, <2>1, <2>2 DEF Domains
  <2>3. CASE Go(h, "service") /\ overruled' = (overruled \/ ~is_for(dir[h][r], r))
    <3>1. ~overruled' => dir[h][r].end = r
      BY <1>1, <2>1, <2>3, ParsedIs, Zenon DEF FilesInv
    <3>2. overruled' \in BOOLEAN /\ (overruled => overruled')
      BY <2>3, Zenon
    <3> QED BY <1>5, <1>6, <2>1, <2>3, <3>1, <3>2
  <2> QED BY <1>8, <2>2, <2>3 DEF AdoptFound
<1>9. CASE AdoptPasted(h, r)
  <2>1. r \in Ends
    BY <1>9 DEF AdoptPasted
  <2>2. PICK from \in Hosts, e \in Ends :
          /\ parses(dir[from][e]) /\ overruled' = (overruled \/ ~is_for(dir[from][e], r))
          /\ \E w \in Writes(dir[from][e], "service") :
               dir' = [dir EXCEPT ![h][r] = w[1]] /\ Go(h, w[2])
    BY <1>9, Zenon DEF AdoptPasted
  <2> DEFINE f == dir[from][e]
  <2>3. Of(made, f)
    BY <1>1 DEF FilesInv
  <2>4. PICK w \in Writes(f, "service") : dir' = Put(h, r, w[1]) /\ Go(h, w[2])
    BY <2>2, Zenon DEF Put
  <2>5. ~overruled' => f.end = r
    BY <2>1, <2>2, <2>3, ParsedIs, Zenon
  <2>6. overruled' \in BOOLEAN /\ (overruled => overruled')
    BY <2>2, Zenon
  <2> HIDE DEF f
  <2>7. Of(made, w[1]) /\ (w[2] = "idle" \/ (w[2] = "service" /\ w[1] = f))
    BY <2>3, <2>4, WritesIs
  <2>8. /\ dir' = [k \in Hosts |-> [d \in Ends |-> dir'[k][d]]]
        /\ \A k \in Hosts, d \in Ends : Of(made, dir'[k][d])
        /\ dir'[h][r] = w[1] /\ \A k \in Hosts : k # h => dir'[k] = dir[k]
    BY <1>1, <2>1, <2>4, <2>7, DirWrites DEF FilesInv
  <2> QED BY <1>5, <2>1, <2>4, <2>5, <2>6, <2>7, <2>8
<1> QED BY <1>2, <1>7, <1>8, <1>9

(* generate and init: the pair is new, and its server file written first,  *)
(* for whatever end it is written under.                                   *)
LEMMA WriteServerInv ==
  ASSUME NEW made, EnrolInv(made), NEW h \in Hosts, NEW plan \in Plans, WriteServer(h, plan),
         role' = role \/ role' = [role EXCEPT ![h] = "neither"]
  PROVE  \E more : EnrolInv(more)'
<1>1. Domains /\ FilesInv(made) /\ \A k \in Hosts : HostInv(k)
  BY DEF EnrolInv
<1>2. PICK n \in Nat : n = minted
  BY <1>1 DEF FilesInv
<1> DEFINE more == [i \in 1 .. n + 1 |-> IF i = n + 1 THEN plan ELSE made[i]]
           p == [e \in Ends |-> render(n + 1, plan, e)]
<1>3. minted' = n + 1 /\ minted' \in Nat /\ more \in [1 .. minted' -> Plans]
  BY <1>1, <1>2 DEF WriteServer, FilesInv
<1>4. UNCHANGED <<etc, run, overruled, carried>> /\ pair' = [pair EXCEPT ![h] = p]
  BY <1>2 DEF WriteServer
<1>5. PICK w \in Writes(p["server"], "second") : dir' = Put(h, "server", w[1]) /\ Go(h, w[2])
  BY <1>2, Zenon DEF WriteServer, Put
<1>6. n + 1 \in DOMAIN more /\ more[n + 1] = plan
  OBVIOUS
<1>7. ASSUME NEW f, Of(made, f) PROVE Of(more, f)
  BY <1>1, <1>2, <1>7, OfGrows DEF FilesInv
<1> HIDE DEF more
<1>8. ASSUME NEW e \in Ends PROVE Of(more, p[e]) /\ p[e].end = e
  <2>1. Laid(p[e]) /\ p[e].end = e
    BY RenderIs, Zenon
  <2>2. Comes(more, p[e])
    BY <1>6, <2>1 DEF Comes
  <2> HIDE DEF p
  <2> QED BY <2>1, <2>2 DEF Of
<1> HIDE DEF p
<1>9. /\ Of(more, w[1])
      /\ \/ w[1] = p["server"] /\ w[2] = "second"
         \/ w[2] = "idle"
  BY <1>5, <1>8, WritesIs DEF Ends
<1>10. \A k \in Hosts : /\ \A e \in Ends : Of(more, dir[k][e])
                        /\ Of(more, etc[k]) /\ Of(more, run[k])
                        /\ pc[k] = "second" => \A e \in Ends : Of(more, pair[k][e]) /\ pair[k][e].end = e
  BY <1>1, <1>7 DEF FilesInv
<1>11. /\ dir' = [k \in Hosts |-> [d \in Ends |-> dir'[k][d]]]
       /\ \A k \in Hosts, d \in Ends : Of(more, dir'[k][d])
       /\ dir'[h]["server"] = w[1] /\ \A k \in Hosts : k # h => dir'[k] = dir[k]
  <2>1. "server" \in Ends /\ \A k \in Hosts, d \in Ends : Of(more, dir[k][d])
    BY <1>10 DEF Ends
  <2>2. /\ dir' = [k \in Hosts |-> [d \in Ends |-> dir'[k][d]]]
        /\ \A k \in Hosts, d \in Ends : Of(more, dir'[k][d])
    BY <1>1, <1>5, <1>9, <2>1, DirWrites, Zenon
  <2>3. dir'[h]["server"] = w[1] /\ \A k \in Hosts : k # h => dir'[k] = dir[k]
    BY <1>1, <1>5, <2>1 DEF Put, Domains
  <2> QED BY <2>2, <2>3
<1>12. /\ pc'[h] = w[2] /\ pc' = [k \in Hosts |-> pc'[k]]
       /\ \A k \in Hosts : k # h => pc'[k] = pc[k]
  BY <1>1, <1>5, Zenon DEF Go, Domains
<1>13. /\ role'[h] \in {role[h], "neither"} /\ role' = [k \in Hosts |-> role'[k]]
       /\ \A k \in Hosts : k # h => role'[k] = role[k]
  BY <1>1 DEF Domains
<1>14. /\ pair'[h] = p /\ pair' = [k \in Hosts |-> pair'[k]]
       /\ \A k \in Hosts : k # h => pair'[k] = pair[k]
  BY <1>1, <1>4, Zenon DEF Domains
<1>15. Domains'
  BY <1>1, <1>4, <1>11, <1>12, <1>13, <1>14 DEF Domains
<1>16. FilesInv(more)'
  BY <1>3, <1>4, <1>8, <1>10, <1>11, <1>12, <1>14 DEF FilesInv
<1>17. HostInv(h)'
  BY <1>1, <1>4, <1>8, <1>9, <1>11, <1>12, <1>13 DEF HostInv, Ends
<1>18. ASSUME NEW k \in Hosts, k # h PROVE HostInv(k)'
  BY <1>1, <1>4, <1>11, <1>12, <1>13, <1>18, HostStays
<1> QED BY <1>15, <1>16, <1>17, <1>18 DEF EnrolInv

(* The client file is written second, for the end it is written under.     *)
LEMMA WriteClientInv ==
  ASSUME EnrolAssumption, NEW made, EnrolInv(made), NEW h \in Hosts, WriteClient(h)
  PROVE  EnrolInv(made)'
<1>1. Domains /\ FilesInv(made) /\ \A k \in Hosts : HostInv(k)
  BY DEF EnrolInv
<1> DEFINE next == IF role[h] = "neither" THEN "idle" ELSE "service"
           f == pair[h]["client"]
<1>2. /\ UNCHANGED <<minted, etc, run, role, overruled, carried>> /\ pc[h] = "second"
      /\ pair' = [pair EXCEPT ![h] = NoFile]
  BY DEF WriteClient
<1>3. PICK w \in Writes(f, next) : dir' = Put(h, "client", w[1]) /\ Go(h, w[2])
  BY Zenon DEF WriteClient, Put
<1>4. Of(made, f) /\ f.end = "client"
  BY <1>1, <1>2 DEF FilesInv, Ends
<1> HIDE DEF f
<1>5. Of(made, w[1]) /\ ((w[1] = f /\ w[2] = next) \/ w[2] = "idle")
  BY <1>3, <1>4, WritesIs
<1>6. /\ dir' = [k \in Hosts |-> [d \in Ends |-> dir'[k][d]]]
      /\ \A k \in Hosts, d \in Ends : Of(made, dir'[k][d])
      /\ dir'[h]["client"] = w[1] /\ dir'[h]["server"] = dir[h]["server"]
      /\ \A k \in Hosts : k # h => dir'[k] = dir[k]
  <2>1. "client" \in Ends /\ "server" \in Ends /\ \A k \in Hosts, d \in Ends : Of(made, dir[k][d])
    BY <1>1 DEF Ends, FilesInv
  <2>2. /\ dir' = [k \in Hosts |-> [d \in Ends |-> dir'[k][d]]]
        /\ \A k \in Hosts, d \in Ends : Of(made, dir'[k][d])
    BY <1>1, <1>3, <1>5, <2>1, DirWrites, Zenon
  <2>3. /\ dir'[h]["client"] = w[1] /\ dir'[h]["server"] = dir[h]["server"]
        /\ \A k \in Hosts : k # h => dir'[k] = dir[k]
    BY <1>1, <1>3, <2>1 DEF Put, Domains
  <2> QED BY <2>2, <2>3
<1>7. /\ pc'[h] = w[2] /\ pc' = [k \in Hosts |-> pc'[k]]
      /\ \A k \in Hosts : k # h => pc'[k] = pc[k]
  BY <1>1, <1>3, Zenon DEF Go, Domains
<1>8. pair' = [k \in Hosts |-> pair'[k]] /\ \A k \in Hosts : k # h => pair'[k] = pair[k]
  BY <1>1, <1>2, Zenon DEF Domains
<1>9. w[2] \in {"idle", "service"} /\ (w[2] = "service" => w[1] = f /\ role[h] # "neither")
  BY <1>5
<1>10. Domains'
  BY <1>1, <1>2, <1>6, <1>7, <1>8 DEF Domains
<1>11. FilesInv(made)'
  BY <1>1, <1>2, <1>6, <1>7, <1>8, <1>9 DEF FilesInv
<1>12. HostInv(h)'
  <2>1. w[2] = "service" => role[h] = Home[h] /\ Home[h] \in {"server", "client"}
    BY <1>1, <1>9 DEF HostInv, EnrolAssumption, Ends
  <2>2. w[2] = "service" /\ ~overruled => dir'[h][role[h]].end = role[h]
    BY <1>1, <1>2, <1>4, <1>6, <1>9, <2>1 DEF HostInv
  <2> QED BY <1>1, <1>2, <1>7, <1>9, <2>1, <2>2 DEF HostInv
<1>13. ASSUME NEW k \in Hosts, k # h PROVE HostInv(k)'
  BY <1>1, <1>2, <1>6, <1>7, <1>13, HostStays
<1> QED BY <1>10, <1>11, <1>12, <1>13 DEF EnrolInv

(* Step 8 copies the file of this host's end, and the service starts with  *)
(* it, at once or when it is next restarted.                               *)
LEMMA InstallInv ==
  ASSUME EnrolAssumption, NEW made, EnrolInv(made), NEW h \in Hosts, Install(h)
  PROVE  EnrolInv(made)'
<1>1. Domains /\ FilesInv(made) /\ \A k \in Hosts : HostInv(k)
  BY DEF EnrolInv
<1> DEFINE f == dir[h][role[h]]
<1>2. UNCHANGED <<minted, dir, run, role, pair, overruled, carried>> /\ pc[h] = "service"
  BY DEF Install
<1>3. PICK w \in Writes(f, "unit") : etc' = [etc EXCEPT ![h] = w[1]] /\ Go(h, w[2])
  BY Zenon DEF Install
<1>4. role[h] = Home[h] /\ Home[h] \in Ends /\ Of(made, f) /\ (~overruled => f.end = Home[h])
  BY <1>1, <1>2 DEF FilesInv, HostInv, EnrolAssumption
<1> HIDE DEF f
<1>5. Of(made, w[1]) /\ w[1].end \in {f.end, "junk"} /\ w[2] \in {"unit", "idle"}
  BY <1>3, <1>4, WritesIs
<1>6. /\ etc'[h] = w[1] /\ etc' = [k \in Hosts |-> etc'[k]]
      /\ \A k \in Hosts : k # h => etc'[k] = etc[k]
  BY <1>1, <1>3, Zenon DEF Domains
<1>7. /\ pc'[h] = w[2] /\ pc' = [k \in Hosts |-> pc'[k]]
      /\ \A k \in Hosts : k # h => pc'[k] = pc[k]
  BY <1>1, <1>3, Zenon DEF Go, Domains
<1>8. Domains'
  BY <1>1, <1>2, <1>6, <1>7 DEF Domains
<1>9. FilesInv(made)'
  BY <1>1, <1>2, <1>5, <1>6, <1>7 DEF FilesInv
<1>10. HostInv(h)'
  <2>1. ~overruled /\ etc'[h].end \in Ends => etc'[h].end = Home[h]
    BY <1>4, <1>5, <1>6 DEF Ends
  <2> QED BY <1>1, <1>2, <1>5, <1>7, <2>1 DEF HostInv
<1>11. ASSUME NEW k \in Hosts, k # h PROVE HostInv(k)'
  BY <1>1, <1>2, <1>6, <1>7, <1>11, HostStays
<1> QED BY <1>8, <1>9, <1>10, <1>11 DEF EnrolInv

(* The service starts with what is installed, if that parses.              *)
LEMMA StartedIs ==
  ASSUME NEW made, EnrolInv(made), NEW h \in Hosts
  PROVE  /\ Of(made, Started(h))
         /\ ~overruled /\ Started(h) # NoFile => Started(h).end = Home[h]
<1>1. Of(made, etc[h]) /\ HostInv(h)
  BY DEF EnrolInv, FilesInv
<1>2. CASE parses(etc[h])
  BY <1>1, <1>2 DEF Started, HostInv, parses
<1>3. CASE ~parses(etc[h])
  BY <1>3 DEF Started, Of
<1> QED BY <1>2, <1>3

(* The service starts, by install_unit or by a restart; and setup ends.    *)
LEMMA ServiceInv ==
  ASSUME NEW made, EnrolInv(made), NEW h \in Hosts, InstallUnit(h) \/ RestartService(h) \/ Quit(h)
  PROVE  EnrolInv(made)'
<1>1. Domains /\ FilesInv(made) /\ \A k \in Hosts : HostInv(k)
  BY DEF EnrolInv
<1>2. UNCHANGED <<dir, etc, minted, overruled, carried>>
  BY DEF InstallUnit, RestartService, Quit
<1>3. run'[h] \in {run[h], Started(h)} /\ run' = [k \in Hosts |-> run'[k]]
  BY <1>1 DEF InstallUnit, RestartService, Quit, Domains
<1>4. \A k \in Hosts : k # h => run'[k] = run[k]
  BY <1>1 DEF InstallUnit, RestartService, Quit, Domains
<1>5. /\ pc'[h] = "idle" \/ (pc'[h] = pc[h] /\ role'[h] = role[h] /\ pair'[h] = pair[h])
      /\ role'[h] \in {role[h], "neither"}
      /\ \A k \in Hosts : k # h => pc'[k] = pc[k] /\ role'[k] = role[k] /\ pair'[k] = pair[k]
      /\ pc' = [k \in Hosts |-> pc'[k]] /\ role' = [k \in Hosts |-> role'[k]]
      /\ pair' = [k \in Hosts |-> pair'[k]]
  BY <1>1 DEF InstallUnit, RestartService, Quit, Domains, Go
<1>6. Of(made, run'[h]) /\ (~overruled /\ run'[h] # NoFile => run'[h].end = Home[h])
  BY <1>1, <1>3, StartedIs DEF FilesInv, HostInv
<1>7. Domains'
  BY <1>1, <1>2, <1>3, <1>5 DEF Domains
<1>8. FilesInv(made)'
  BY <1>1, <1>2, <1>4, <1>5, <1>6 DEF FilesInv
<1>9. HostInv(h)'
  BY <1>1, <1>2, <1>5, <1>6 DEF HostInv
<1>10. ASSUME NEW k \in Hosts, k # h PROVE HostInv(k)'
  BY <1>1, <1>2, <1>4, <1>5, <1>10, HostStays
<1> QED BY <1>7, <1>8, <1>9, <1>10 DEF EnrolInv

(* A file carried over under the wrong name while the other host's setup   *)
(* is under way is the one nobody is warned of.                            *)
LEMMA CarryInv ==
  ASSUME EnrolAssumption, NEW made, EnrolInv(made), NEW h \in Hosts,
         NEW e \in Ends, NEW under \in Ends, Carry(h, e, under)
  PROVE  EnrolInv(made)'
<1>1. Domains /\ FilesInv(made) /\ \A k \in Hosts : HostInv(k)
  BY DEF EnrolInv
<1>2. PICK f : f = dir[h][e]
  OBVIOUS
<1>3. UNCHANGED <<etc, run, pc, role, pair, minted>>
  BY DEF Carry
<1>4. PICK to \in Hosts : /\ dir' = Put(to, under, f)
                          /\ overruled' = (overruled \/ (f.end # under /\ pc[to] # "idle"))
  BY <1>2, Zenon DEF Carry, Put
<1>5. Of(made, f) /\ \A k \in Hosts, d \in Ends : Of(made, dir[k][d])
  BY <1>1, <1>2 DEF FilesInv
<1>6. overruled' \in BOOLEAN /\ (overruled => overruled') /\ (~overruled' /\ pc[to] # "idle" => f.end = under)
  BY <1>4, Zenon
<1>7. /\ dir' = [k \in Hosts |-> [d \in Ends |-> dir'[k][d]]]
      /\ \A k \in Hosts, d \in Ends : Of(made, dir'[k][d])
      /\ dir'[to][under] = f /\ (\A d \in Ends : d # under => dir'[to][d] = dir[to][d])
      /\ \A k \in Hosts : k # to => dir'[k] = dir[k]
  <2>1. dir' = Put(to, under, f) /\ Of(made, f) /\ Domains
    BY <1>1, <1>4, <1>5
  <2>2. \A k \in Hosts, d \in Ends : Of(made, dir[k][d])
    BY <1>5
  <2>3. /\ dir' = [k \in Hosts |-> [d \in Ends |-> dir'[k][d]]]
        /\ \A k \in Hosts, d \in Ends : Of(made, dir'[k][d])
    BY <2>1, <2>2, DirWrites, Zenon
  <2>4. /\ dir'[to][under] = f /\ (\A d \in Ends : d # under => dir'[to][d] = dir[to][d])
        /\ \A k \in Hosts : k # to => dir'[k] = dir[k]
    BY <2>1 DEF Put, Domains
  <2> QED BY <2>3, <2>4
<1>8. Domains'
  BY <1>1, <1>3, <1>6, <1>7 DEF Domains
<1>9. FilesInv(made)'
  BY <1>1, <1>3, <1>7 DEF FilesInv
<1>10. HostInv(to)'
  <2>1. \A d \in Ends : ~overruled' /\ pc[to] # "idle" /\ dir[to][d].end = d => dir'[to][d].end = d
    BY <1>6, <1>7
  <2>2. pc[to] = "service" /\ ~overruled => role[to] \in Ends
    BY <1>1 DEF HostInv, EnrolAssumption
  <2> QED BY <1>1, <1>3, <1>6, <2>1, <2>2 DEF HostInv, Ends
<1>11. ASSUME NEW k \in Hosts, k # to PROVE HostInv(k)'
  BY <1>1, <1>3, <1>6, <1>7, <1>11, HostStays
<1> QED BY <1>8, <1>9, <1>10, <1>11 DEF EnrolInv

(* Every step of the two hosts keeps the invariant.                        *)
LEMMA EnrolStep == ASSUME EnrolAssumption, NEW made, EnrolInv(made), [EnrolNext]_enrolVars PROVE \E more : EnrolInv(more)'
<1>1. CASE UNCHANGED enrolVars
  <2>1. EnrolInv(made)'
    BY <1>1 DEF enrolVars, EnrolInv, Domains, FilesInv, HostInv
  <2> QED BY <2>1
<1>2. ASSUME NEW h \in Hosts,
             interactive(h) \/ WriteClient(h) \/ Install(h) \/ InstallUnit(h) \/ RestartService(h)
               \/ Quit(h) \/ \E e, as \in Ends : Carry(h, e, as)
      PROVE  EnrolInv(made)'
  BY <1>2, InteractiveInv, WriteClientInv, InstallInv, ServiceInv, CarryInv
<1>3. ASSUME NEW h \in Hosts, generate(h) \/ init(h) PROVE \E more : EnrolInv(more)'
  <2>1. PICK plan \in Plans : WriteServer(h, plan)
    BY <1>3 DEF generate, init
  <2>2. role' = role \/ role' = [role EXCEPT ![h] = "neither"]
    BY <1>3 DEF generate, init
  <2> QED BY <2>1, <2>2, WriteServerInv
<1> QED BY <1>1, <1>2, <1>3 DEF EnrolNext

(* Files that whole hosts run fit together.                                *)
LEMMA EnrolMatches == ASSUME EnrolAssumption, NEW made, EnrolInv(made) PROVE EndsMatch
<1> SUFFICES ASSUME ~overruled, NEW a \in Hosts, NEW b \in Hosts, a # b,
                    run[a] # NoFile, run[b] # NoFile, run[a].whole, run[b].whole,
                    ~(minted > 1 /\ run[a].private_key[1] # run[b].private_key[1])
             PROVE  Fits(run[a], run[b])
  BY Zenon DEF EndsMatch
<1>1. Domains /\ FilesInv(made) /\ \A k \in Hosts : HostInv(k)
  BY DEF EnrolInv
<1>2. run[a].end = Home[a] /\ run[b].end = Home[b] /\ Home[a] # Home[b]
  BY <1>1 DEF HostInv, EnrolAssumption
<1>3. Home[a] \in Ends /\ Home[b] \in Ends
  BY DEF EnrolAssumption
<1>4. ASSUME NEW h \in {a, b}
      PROVE  \E n \in 1 .. minted : run[h] = render(n, made[n], Home[h])
  <2>1. run[h].end \in Ends /\ run[h] # NoFile
    BY <1>2, <1>3
  <2>2. run[h] # Junk /\ run[h] # NoFile
    BY <2>1 DEF Junk, Ends
  <2>3. Comes(made, run[h])
    BY <1>1, <2>2 DEF FilesInv, Of
  <2> QED BY <1>1, <1>2, <2>3 DEF Comes, FilesInv
<1>5. PICK n \in 1 .. minted : run[a] = render(n, made[n], Home[a])
  BY <1>4
<1>6. PICK m \in 1 .. minted : run[b] = render(m, made[m], Home[b])
  BY <1>4
<1>7. run[a].private_key[1] = n /\ run[b].private_key[1] = m
  BY <1>5, <1>6, KeyIs
<1>8. minted \in Nat
  BY <1>1 DEF FilesInv
<1>9. n = m
  BY <1>7, <1>8
<1>10. Fits(render(n, made[n], Home[a]), render(n, made[n], Home[b]))
  BY <1>2, <1>3, PairFits
<1> QED BY <1>5, <1>6, <1>9, <1>10

(* Some plans, one for each pair generated, account for every file.        *)
Enrolled == \E made : EnrolInv(made)

(* Two hosts that run whole files run files that fit together, whichever   *)
(* host generated, however often setup ran and wherever it ended, unless   *)
(* an operator overruled a warning or two pairs were generated (setup's    *)
(* render, adopt and is_for): for any plans and any number of runs, writes *)
(* cut short and files carried over.                                       *)
THEOREM HostsFit == ASSUME EnrolAssumption PROVE EnrolSpec => []EndsMatch
<1>1. EnrolInit => Enrolled
  BY EnrolInitial DEF Enrolled
<1>2. Enrolled /\ [EnrolNext]_enrolVars => Enrolled'
  BY EnrolStep DEF Enrolled
<1>3. Enrolled => EndsMatch
  BY EnrolMatches DEF Enrolled
<1> QED BY <1>1, <1>2, <1>3, PTL DEF EnrolSpec

------------------------------------------------------------------------------
(* The SOCKS listener.                                                     *)

Codes == {"none", "accepted", "unacceptable", "rejected", "SUCCESS", "COMMAND_NOT_SUPPORTED",
          "CONNECTION_REFUSED", "HOST_UNREACHABLE", "ADDRESS_NOT_SUPPORTED", "GENERAL_FAILURE"}
Greeting == IF setting.credentials THEN "accepted" ELSE "none"
Greeted == replies # << >> /\ replies[1] = Greeting

(* Past its negotiation a connection has been greeted, and nothing leaves  *)
(* the host before.                                                        *)
GreetInv ==
  /\ replies \in Seq(Codes)
  /\ phase = "negotiate" => replies = << >> /\ left = {}
  /\ phase \notin {"negotiate", "closed"} => Greeted
  /\ left # {} => Greeted

(* Whatever is not a query left by the tunnel, and every datagram that     *)
(* left was sent by the client the association has settled on.             *)
WayInv ==
  /\ \A l \in left : l.what # "query" => l.way = "tunnel"
  /\ \A l \in left : l.what = "datagram" => peer # "nobody" /\ l.by = peer

(* A copying thread never gets ahead of what its end wrote, and unless an  *)
(* end went away it stops only behind an end of stream.                    *)
Pipe == [wrote : Nat, got : Nat, closed : BOOLEAN, eof : BOOLEAN]
PipeInv ==
  /\ pipe \in [Directions -> Pipe]
  /\ \A d \in Directions : pipe[d].got <= pipe[d].wrote
  /\ reset = {} => \A d \in Directions :
       pipe[d].eof => pipe[d].closed /\ pipe[d].got = pipe[d].wrote

SocksInv == GreetInv /\ WayInv /\ PipeInv

(* A fresh connection satisfies it (handle_client's start).                *)
LEMMA SocksInit == Init => SocksInv
BY DEF Init, SocksInv, GreetInv, WayInv, PipeInv, Pipe, Directions

(* Telling the client something more does not unsay the greeting           *)
(* (protocol::write_reply appends).                                        *)
LEMMA GreetingStays ==
  ASSUME replies \in Seq(Codes), Greeted, UNCHANGED setting,
         NEW code \in Codes, replies' = Append(replies, code) \/ UNCHANGED replies
  PROVE  replies' \in Seq(Codes) /\ Greeted'
BY DEF Greeted, Greeting

(* Every error has a code (reply_code_for).                                *)
LEMMA EveryErrorHasACode == \A e : reply_code_for(e) \in Codes
BY DEF reply_code_for, Codes

(* The last reply of a connection (Fails, and the early returns of         *)
(* handle).                                                                *)
LEMMA EndingKeepsGreeting ==
  ASSUME replies \in Seq(Codes), UNCHANGED setting, NEW code \in Codes, EndsWith(code)
  PROVE  replies' \in Seq(Codes) /\ phase' = "closed" /\ (Greeted => Greeted')
BY GreetingStays DEF EndsWith, Says

(* Whatever a request resolved to, it is dialled or told why not           *)
(* (connect_tcp's first lines).                                            *)
LEMMA DialingKeepsGreeting ==
  ASSUME replies \in Seq(Codes), UNCHANGED setting, Greeted, NEW list, Dials(list)
  PROVE  replies' \in Seq(Codes) /\ Greeted' /\ phase' \in {"dial", "closed"}
<1>1. CASE tunnelable(list) # << >>
  BY <1>1 DEF Dials, Greeted, Greeting
<1>2. CASE tunnelable(list) = << >>
  <2>1. PICK e : Fails(e)
    BY <1>2 DEF Dials
  <2> QED BY <2>1, EveryErrorHasACode, EndingKeepsGreeting DEF Fails
<1> QED BY <1>1, <1>2

(* Every step keeps it: only negotiate greets, and every step after it     *)
(* needs a phase that only a greeted connection reaches.                   *)
LEMMA GreetStep == GreetInv /\ [Next]_vars => GreetInv'
<1> SUFFICES ASSUME GreetInv, [Next]_vars PROVE GreetInv'
  OBVIOUS
<1> USE DEF GreetInv
<1>1. CASE negotiate
  <2>0. replies = << >> /\ left' = {} /\ UNCHANGED setting
    BY <1>1 DEF negotiate
  <2>1. CASE phase' = "request" /\ Says(IF setting.credentials THEN "accepted" ELSE "none")
    <3>1. Greeting \in Codes /\ replies' = Append(replies, Greeting)
      BY <2>1 DEF Says, Greeting, Codes
    <3>2. replies' \in Seq(Codes) /\ replies' # << >> /\ replies'[1] = Greeting
      BY <2>0, <3>1
    <3> QED BY <2>0, <2>1, <3>2 DEF Greeted, Greeting
  <2>2. CASE EndsWith("unacceptable") \/ EndsWith("rejected")
    <3>1. phase' = "closed" /\ replies' \in Seq(Codes)
      BY <2>2, EndingKeepsGreeting, <2>0 DEF Codes
    <3> QED BY <2>0, <3>1
  <2> QED BY <1>1, <2>1, <2>2 DEF negotiate
<1>2. CASE handle
  <2> Greeted /\ UNCHANGED <<setting, left>> /\ phase = "request"
    BY <1>2 DEF handle
  <2>1. CASE \E family \in {4, 6} : Dials(<<family>>)
    BY <2>1, DialingKeepsGreeting
  <2>2. CASE EndsWith("COMMAND_NOT_SUPPORTED")
    BY <2>2, EndingKeepsGreeting DEF Codes
  <2>3. CASE phase' \in {"lookup", "associate"} /\ UNCHANGED replies
    BY <2>3 DEF Greeted, Greeting
  <2> QED BY <1>2, <2>1, <2>2, <2>3 DEF handle
<1>3. CASE to_socket_addrs
  <2> Greeted /\ UNCHANGED setting
    BY <1>3 DEF to_socket_addrs
  <2>1. CASE \E list \in Answers : Dials(list)
    BY <2>1, DialingKeepsGreeting
  <2>2. CASE Fails("no answer")
    BY <2>2, EndingKeepsGreeting, EveryErrorHasACode DEF Fails
  <2> QED BY <1>3, <2>1, <2>2 DEF to_socket_addrs
<1>4. ASSUME Answered, Greeted, UNCHANGED setting PROVE GreetInv'
  <2>1. CASE \E n \in 0 .. 2 : Dials([i \in 1 .. n |-> 4])
    BY <1>4, <2>1, DialingKeepsGreeting
  <2>2. CASE Fails("invalid")
    BY <1>4, <2>2, EndingKeepsGreeting, EveryErrorHasACode DEF Fails
  <2> QED BY <1>4, <2>1, <2>2 DEF Answered
<1>5. CASE ask_udp
  <2> Greeted /\ UNCHANGED setting /\ phase = "lookup"
    BY <1>5 DEF ask_udp
  <2>1. CASE phase' \in {"ask_tcp", phase} /\ UNCHANGED replies
    BY <2>1 DEF Greeted, Greeting
  <2>2. CASE Fails("timed out")
    BY <2>2, EndingKeepsGreeting, EveryErrorHasACode DEF Fails
  <2> QED BY <1>4, <1>5, <2>1, <2>2 DEF ask_udp
<1>6. CASE ask_tcp
  <2> Greeted /\ UNCHANGED setting
    BY <1>6 DEF ask_tcp
  <2>1. CASE Fails("timed out")
    BY <2>1, EndingKeepsGreeting, EveryErrorHasACode DEF Fails
  <2> QED BY <1>4, <1>6, <2>1 DEF ask_tcp
<1>7. CASE connect
  <2> Greeted /\ UNCHANGED setting /\ phase = "dial"
    BY <1>7 DEF connect
  <2>1. CASE phase' \in {"relay", "closed"} /\ (Says("SUCCESS") \/ UNCHANGED replies)
    BY <2>1, GreetingStays DEF Says, Codes
  <2>2. CASE \E e \in {"refused", "timed out"} : Fails(e)
    BY <2>2, EndingKeepsGreeting, EveryErrorHasACode DEF Fails
  <2>3. CASE UNCHANGED <<phase, replies>>
    BY <2>3 DEF Greeted, Greeting
  <2> QED BY <1>7, <2>1, <2>2, <2>3 DEF connect
<1>8. CASE udp_associate
  <2> Greeted /\ UNCHANGED <<setting, left>> /\ phase' \in {"udp", "closed"}
    BY <1>8 DEF udp_associate
  <2> QED BY <1>8, GreetingStays DEF udp_associate, Says, Codes
<1>9. ASSUME NEW from \in {"client", "stranger"}, Datagram(from) PROVE GreetInv'
  <2> Greeted /\ UNCHANGED <<setting, phase, replies>> /\ phase = "udp"
    BY <1>9 DEF Datagram
  <2> QED BY DEF Greeted, Greeting
<1>10. CASE UNCHANGED <<setting, replies, left>> /\ (UNCHANGED phase \/ (phase # "negotiate" /\ phase' = "closed"))
  BY <1>10 DEF Greeted, Greeting
<1> QED
  BY <1>1, <1>2, <1>3, <1>5, <1>6, <1>7, <1>8, <1>9, <1>10
  DEF Next, vars, EndWrites, copy_then_shutdown, EndGoes, relay, Dissociate,
      RuleChanges

(* A marked socket leaves by the tunnel whether or not its rule is there,  *)
(* for it is bound to the device (marked_socket).                          *)
LEMMA MarkedWay == Way(marked_socket) = "tunnel"
BY Zenon DEF Way, marked_socket

(* What may be added to the record without harm: queries, and anything     *)
(* else sent from a marked socket, a datagram only by the settled client.  *)
LEMMA MayLeave ==
  ASSUME WayInv, NEW new, left' = left \cup new, UNCHANGED peer \/ peer = "nobody",
         \A l \in new : \/ l.what = "query"
                        \/ l.what = "connection" /\ l.way = "tunnel"
                        \/ l.what = "datagram" /\ l.way = "tunnel" /\ l.by = peer' /\ peer' # "nobody"
  PROVE  WayInv'
BY DEF WayInv

(* Every step keeps it (connect_tcp, ask_udp, ask_tcp, to_socket_addrs,    *)
(* forward_outbound).                                                      *)
LEMMA WayStep == WayInv /\ [Next]_vars => WayInv'
<1> SUFFICES ASSUME WayInv, [Next]_vars PROVE WayInv'
  OBVIOUS
<1>1. CASE to_socket_addrs \/ ask_udp \/ ask_tcp
  <2>1. PICK s : left' = left \cup {Sent("query", s, "client")}
    BY <1>1 DEF to_socket_addrs, ask_udp, ask_tcp
  <2>2. UNCHANGED peer
    BY <1>1 DEF to_socket_addrs, ask_udp, ask_tcp, association
  <2> DEFINE new == {Sent("query", s, "client")}
  <2>3. left' = left \cup new /\ \A l \in new : l.what = "query"
    BY <2>1 DEF Sent
  <2> HIDE DEF new
  <2> QED BY <2>2, <2>3, MayLeave
<1>2. CASE connect
  <2> DEFINE new == {Sent("connection", marked_socket, "client")}
  <2>1. UNCHANGED peer /\ (left' = left \cup new \/ left' = left)
    BY <1>2 DEF connect, association
  <2>2. \A l \in new : l.what = "connection" /\ l.way = "tunnel"
    BY MarkedWay DEF Sent
  <2> HIDE DEF new
  <2>3. CASE left' = left \cup new
    BY <2>1, <2>2, <2>3, MayLeave
  <2> QED BY <2>1, <2>3 DEF WayInv
<1>3. ASSUME NEW from \in {"client", "stranger"}, Datagram(from) PROVE WayInv'
  <2>1. CASE UNCHANGED <<peer, left>>
    BY <2>1 DEF WayInv
  <2>2. CASE peer' = Serves(peer, from) /\ peer' = from /\ forward_outbound(from)
    <3>1. peer' # "nobody" /\ (UNCHANGED peer \/ peer = "nobody")
      BY <2>2 DEF Serves
    <3>2. PICK sockets :
            LET queries == {Sent("query", s, from) : s \in sockets}
            IN left' \in {left \cup queries,
                          left \cup queries \cup {Sent("datagram", marked_socket, from)}}
      BY <2>2 DEF forward_outbound
    <3> DEFINE queries == {Sent("query", s, from) : s \in sockets}
               datagram == Sent("datagram", marked_socket, from)
    <3>3. \A l \in queries : l.what = "query"
      BY DEF Sent
    <3>4. datagram.what = "datagram" /\ datagram.way = "tunnel" /\ datagram.by = peer'
      BY <2>2, MarkedWay DEF Sent
    <3>5. left' = left \cup queries \/ left' = left \cup (queries \cup {datagram})
      BY <3>2
    <3> HIDE DEF queries, datagram
    <3>6. CASE left' = left \cup queries
      BY <3>1, <3>3, <3>6, MayLeave
    <3>7. CASE left' = left \cup (queries \cup {datagram})
      BY <3>1, <3>3, <3>4, <3>7, MayLeave, Zenon
    <3> QED BY <3>5, <3>6, <3>7
  <2>3. CASE peer' = Serves(peer, from) /\ peer' # from /\ UNCHANGED left
    BY <2>3 DEF Serves, WayInv
  <2> QED BY <1>3, <2>1, <2>2, <2>3 DEF Datagram
<1>4. CASE UNCHANGED <<left, peer>>
  BY <1>4, Zenon DEF WayInv
<1> QED
  BY <1>1, <1>2, <1>3, <1>4
  DEF Next, vars, negotiate, handle, EndWrites, copy_then_shutdown, EndGoes,
      relay, udp_associate, Dissociate, RuleChanges, association

(* Every step keeps it: an end that half-closed writes no more, and a      *)
(* thread stops at the end of what was written (copy_then_shutdown).       *)
LEMMA PipeStep == PipeInv /\ [Next]_vars => PipeInv'
<1> SUFFICES ASSUME PipeInv, [Next]_vars PROVE PipeInv'
  OBVIOUS
<1>1. ASSUME NEW d \in Directions, EndWrites(d) PROVE PipeInv'
  <2>0. ~pipe[d].closed /\ UNCHANGED reset
    BY <1>1 DEF EndWrites
  <2>1. CASE pipe' = [pipe EXCEPT ![d].wrote = @ + 1]
    BY <2>0, <2>1 DEF PipeInv, Pipe
  <2>2. CASE pipe' = [pipe EXCEPT ![d].closed = TRUE]
    BY <2>0, <2>2, ZenonT(40) DEF PipeInv, Pipe
  <2> QED BY <1>1, <2>1, <2>2 DEF EndWrites
<1>2. ASSUME NEW d \in Directions, copy_then_shutdown(d) PROVE PipeInv'
  <2>0. ~pipe[d].eof /\ UNCHANGED reset
    BY <1>2 DEF copy_then_shutdown
  <2>1. CASE \E n \in 1 .. pipe[d].wrote - pipe[d].got : pipe' = [pipe EXCEPT ![d].got = @ + n]
    BY <2>0, <2>1 DEF PipeInv, Pipe
  <2>2. CASE /\ (pipe[d].closed /\ pipe[d].got = pipe[d].wrote) \/ reset # {}
             /\ pipe' = [pipe EXCEPT ![d].eof = TRUE]
    BY <2>0, <2>2, Zenon DEF PipeInv, Pipe
  <2> QED BY <1>2, <2>1, <2>2 DEF copy_then_shutdown, Shutdowns
<1>3. ASSUME NEW e \in Sides, EndGoes(e) PROVE PipeInv'
  BY <1>3 DEF EndGoes, PipeInv
<1>4. CASE UNCHANGED <<pipe, reset>>
  BY <1>4 DEF PipeInv
<1> QED
  BY <1>1, <1>2, <1>3, <1>4, Zenon
  DEF Next, vars, negotiate, handle, to_socket_addrs, ask_udp, ask_tcp, connect,
      relay, udp_associate, Datagram, Dissociate, RuleChanges, relays

(* The inductive invariant of the listener holds throughout.               *)
LEMMA SocksInvariance == Spec => []SocksInv
<1>1. SocksInv /\ [Next]_vars => SocksInv'
  BY GreetStep, WayStep, PipeStep DEF SocksInv
<1> QED BY SocksInit, <1>1, PTL DEF Spec

(* What a listener that steers carries leaves by the tunnel or not at all, *)
(* whatever becomes of the policy rule, and nothing leaves for a client    *)
(* that negotiate turned away (marked_socket, handle).                     *)
THEOREM ConnectionsAreCarried == Spec => []CarriedThroughTunnel
<1>1. SocksInv => CarriedThroughTunnel
  BY DEF SocksInv, GreetInv, WayInv, Greeted, Greeting, CarriedThroughTunnel
<1> QED BY SocksInvariance, <1>1, PTL

(* Each direction of a relayed connection ends only behind its last byte   *)
(* while both ends live (copy_then_shutdown), and an association sends for *)
(* one sender only (udp_associate), for any number of bytes and datagrams. *)
THEOREM RelaysAreWhole == Spec => []RelayedWhole
<1>1. SocksInv => RelayedWhole
  BY DEF SocksInv, WayInv, PipeInv, RelayedWhole
<1> QED BY SocksInvariance, <1>1, PTL
==============================================================================
