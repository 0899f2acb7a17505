---------------------------- MODULE SourceRouted ----------------------------
(***************************************************************************)
(* The way of one packet of NDP through a static network.                  *)
(*                                                                         *)
(* The source gives the packet one of the routes to its destination, a     *)
(* list of a queue and a pipe per link with the receiver at the end; every *)
(* element passes the packet on to the next (Packet::sendOn).  A queue     *)
(* that has no room for its header turns it back (Packet::bounce): from    *)
(* there it follows the reverse of its route, to its source, which sends   *)
(* it again by any route.  A queue drops a packet it would turn back for   *)
(* the second time, or that has a route without reverse.                   *)
(***************************************************************************)
EXTENDS ServerNetworks

CONSTANTS
  Trees,     \* the networks, by name
  Endpoints  \* Endpoints[tree]: hosts that packets come from and go to

VARIABLES
  flow,      \* [tree, src, dst]: the network and the endpoints
  route,     \* _route, or NoRoute before the packet is sent
  bounced,   \* _bounced
  nexthop,   \* _nexthop
  holder     \* the element that has the packet

walkVars == <<flow, route, bounced, nexthop, holder>>

\* The links of a network, and the routes between two of its hosts (get_paths
\* of the classes derived from Topology).
Links(tree) ==
  CASE tree = "1to1"           -> Links1to1
    [] tree = "3to1_k12"       -> Links3to1k12
    [] tree = "3to1_k24"       -> Links3to1k24
    [] tree = "6to1"           -> Links6to1
    [] tree = "oversubscribed" -> OvLinks
    [] tree = "multihomed"     -> MhLinks
    [] tree = "vl2"            -> Vl2Links
    [] tree = "star"           -> StarLinks
    [] tree = "bcube"          -> BCubeLinks
    [] tree = "camcube"        -> CamCubeLinks
Routes(tree, src, dst) ==
  CASE tree = "1to1"           -> GetPaths(src, dst)
    [] tree = "3to1_k12"       -> PathsOf(Set3to1k12, src, dst)
    [] tree = "3to1_k24"       -> Paths3to1k24(src, dst)
    [] tree = "6to1"           -> Paths6to1(src, dst)
    [] tree = "oversubscribed" -> OvPaths(src, dst)
    [] tree = "multihomed"     -> MhPaths(src, dst)
    [] tree = "vl2"            -> Vl2Paths(src, dst)
    [] tree = "star"           -> StarPaths(src, dst)
    [] tree = "bcube"          -> BCubePaths(src, dst)
    [] tree = "camcube"        -> CamCubePaths(src, dst)

NoRoute == Route(<<>>, <<>>)
Source  == [kind |-> "source"]
Dropped == [kind |-> "dropped"]

\* The elements of a route over nodes, from 0 on, and their number.
Size(nodes) == 2 * (Len(nodes) - 1) + 1
ElementAt(nodes, n) ==
  LET link == n \div 2 + 1
  IN IF n = Size(nodes) - 1 THEN [kind |-> "receiver", at |-> nodes[Len(nodes)]]
     ELSE [kind |-> IF n % 2 = 0 THEN "queue" ELSE "pipe",
           from |-> nodes[link], to |-> nodes[link + 1]]

WalkInit ==
  /\ \E tree \in Trees : \E src, dst \in Endpoints[tree] :
       /\ src # dst
       /\ flow = [tree |-> tree, src |-> src, dst |-> dst]
  /\ route = NoRoute /\ bounced = FALSE /\ nexthop = 0 /\ holder = Source

\* Packet::sendOn of a packet with route r, from its element n on.
SendOn(r, back, n) ==
  /\ holder' = ElementAt(IF back THEN r.back ELSE r.out, n)
  /\ nexthop' = n + 1

\* NdpSrc: the packet is given a route and sent, for the first time or after
\* it has come back (unbounce).
Send(r) ==
   /\ holder = Source \/ (bounced /\ holder.kind = "receiver")
  /\ r \in Routes(flow.tree, flow.src, flow.dst)
  /\ route' = r /\ bounced' = FALSE
  /\ SendOn(r, FALSE, 0)
  /\ UNCHANGED flow

\* A queue or a pipe has served the packet.
Forward ==
  /\ holder.kind \in {"queue", "pipe"}
  /\ SendOn(route, bounced, nexthop)
  /\ UNCHANGED <<flow, route, bounced>>

\* A packet on its way out can be turned back, by a queue of a switch.
CanBounce ==
  /\ holder.kind = "queue" /\ holder.from # Host(flow.src)
  /\ route.back # <<>> /\ ~bounced

\* Mutant: the place among the elements that have been passed.
BounceWhereItWas ==
  /\ CanBounce
  /\ bounced' = TRUE
  /\ SendOn(route, TRUE, Size(route.out) - nexthop - 1)
  /\ UNCHANGED <<flow, route>>

\* A full queue.
Bounce ==
  /\ CanBounce
  /\ bounced' = TRUE
  /\ SendOn(route, TRUE, Size(route.out) - nexthop)
  /\ UNCHANGED <<flow, route>>

DropBounced ==
  /\ holder.kind = "queue" /\ (bounced \/ route.back = <<>>)
  /\ holder' = Dropped
  /\ UNCHANGED <<flow, route, bounced, nexthop>>

WalkOver ==
  /\ holder = Dropped \/ (~bounced /\ holder.kind = "receiver")
  /\ UNCHANGED <<flow, route, bounced, nexthop, holder>>

WalkNext ==
  \/ \E r \in Routes(flow.tree, flow.src, flow.dst) : Send(r)
  \/ Forward \/ Bounce \/ DropBounced \/ WalkOver

-----------------------------------------------------------------------------
(* Properties *)

Built(a, b) == <<a, b>> \in Links(flow.tree) \/ <<b, a>> \in Links(flow.tree)

\* A step of the packet: over a link that is built, from the node it is at,
\* to its destination, or back where it came from to its source.
GoesOn ==
  CASE holder'.kind = "queue" ->
         /\ Built(holder'.from, holder'.to)
         /\ \E i \in DOMAIN route'.out : holder'.to = route'.out[i]
         /\ holder'.from = CASE holder.kind = "queue" -> holder.from
                             [] holder.kind = "pipe"  -> holder.to
                             [] OTHER                 -> Host(flow.src)
    [] holder'.kind = "pipe" ->
         holder.kind = "queue" /\ holder' = [holder EXCEPT !.kind = "pipe"]
    [] holder'.kind = "receiver" ->
         /\ holder.kind = "pipe" /\ holder'.at = holder.to
         /\ holder'.at = Host(IF bounced THEN flow.src ELSE flow.dst)
    [] OTHER -> holder'.kind = "dropped"

\* The chains of h links up from node n, lowest node first.
Above(n) == {l[1] : l \in {k \in Links(flow.tree) : k[2] = n}}
Ascents(n, h) ==
  LET up[k \in 0..h] ==
        IF k = 0 THEN {<<n>>}
        ELSE UNION {{Append(c, m) : m \in Above(c[k])} : c \in up[k - 1]}
  IN up[h]

\* The ways from a to b over a switch h links above both.
Over(a, b, h) ==
  {c \o [i \in 1..h |-> d[h + 1 - i]] : <<c, d>> \in
     {p \in Ascents(a, h) \X Ascents(b, h) : p[1][h + 1] = p[2][h + 1]}}

\* In a tree, get_paths finds all the shortest ways in the network as built.
AllShortest ==
  LET h == CHOOSE h \in 1..3 :
             /\ Over(Host(flow.src), Host(flow.dst), h) # {}
             /\ \A k \in 1..(h - 1) : Over(Host(flow.src), Host(flow.dst), k) = {}
  IN {r.out : r \in Routes(flow.tree, flow.src, flow.dst)}
       = Over(Host(flow.src), Host(flow.dst), h)

\* The ways of h links that lead to a node n over nodes ever further from it.
Peers(n) == {l[1] : l \in {k \in Links(flow.tree) : k[2] = n}}
              \cup {l[2] : l \in {k \in Links(flow.tree) : k[1] = n}}
Direct(n, h) ==
  LET layer[k \in 0..h] ==
        IF k = 0 THEN [ways |-> {<<n>>}, near |-> {n}]
        ELSE LET last == layer[k - 1]
                 ways == {w \in UNION {{<<m>> \o v : m \in Peers(v[1])} : v \in last.ways} :
                            w[1] \notin last.near}
             IN [ways |-> ways, near |-> last.near \cup {w[1] : w \in ways}]
  IN layer[h].ways

\* In CamCube too, where the ways are not up and down.
AllDirect ==
  LET routes == {r.out : r \in Routes(flow.tree, flow.src, flow.dst)}
      h == Len(CHOOSE r \in routes : TRUE) - 1
  IN routes = {w \in Direct(Host(flow.dst), h) : w[1] = Host(flow.src)}

\* In VL2, which spreads traffic before it goes to where it should, all that a
\* rack has links to and all the intermediate switches are used.
Spread ==
  LET routes == {r.out : r \in Routes(flow.tree, flow.src, flow.dst)}
      at(n)  == {r[n] : r \in routes}
  IN HostToR(flow.src) # HostToR(flow.dst) =>
       /\ at(3) = Above(LS(HostToR(flow.src))) /\ at(5) = Above(LS(HostToR(flow.dst)))
       /\ at(4) = UNION {Above(n) : n \in at(3)}

\* In BCube there is a path by each level of the source, and whichever
\* neighbours are chosen, no two of them share a server or a switch.
Inside(p) == {p[n] : n \in 2..(Len(p) - 1)}
Parallel ==
  \A i, j \in Levels :
    \A p \in PathsOfLevel(flow.src, flow.dst, i), q \in PathsOfLevel(flow.src, flow.dst, j) :
      /\ p[2] = Switch(flow.src, i)
      /\ i # j => Inside(p) \cap Inside(q) = {}

RoutesFit ==
  CASE flow.tree = "bcube"   -> Parallel
    [] flow.tree = "camcube" -> AllDirect
    [] flow.tree = "vl2"     -> Spread
    [] OTHER                 -> AllShortest

=============================================================================
