--------------------------- MODULE ServerNetworks ----------------------------
(***************************************************************************)
(* The networks of the Clos simulator in which servers pass on packets of  *)
(* others: BCube (bcube_topology.cpp), in which a server has one switch    *)
(* per level, and CamCube (camcubetopology.cpp), a cube of servers without *)
(* switches, whose rows and columns are rings.  Routes have no reverse.    *)
(***************************************************************************)
EXTENDS OtherTrees

CONSTANTS
  NumPorts,   \* _NUM_PORTS: ports of a switch
  TopLevel    \* _K: levels are 0..TopLevel

Levels  == 0..TopLevel
Servers == 0..(NumPorts^(TopLevel + 1) - 1)

BCubeParams == NumPorts \in Nat /\ NumPorts >= 2 /\ TopLevel \in Nat

\* The address of a server: a digit per level (address_from_srv).
Digit(srv, level) == (srv \div NumPorts^level) % NumPorts

\* The server whose address differs from that of srv in one digit at most
\* (srv_from_address of the changed address).
WithDigit(srv, level, d) == srv + (d - Digit(srv, level)) * NumPorts^level

\* The switch of a server at a level: its address without that digit.
SwitchFromSrv(srv, level) ==
  (srv \div NumPorts^(level + 1)) * NumPorts^level + (srv % NumPorts^level)
Switch(srv, level) == <<"switch", level, SwitchFromSrv(srv, level)>>

BCubeLinks == {<<Switch(i, k), Host(i)>> : i \in Servers, k \in Levels}

\* The neighbours that get_neighbour chooses from at random.
Neighbours(srv, level) ==
  {WithDigit(srv, level, d) : d \in (0..(NumPorts - 1)) \ {Digit(srv, level)}}

\* bcube_routing: the digits that differ are corrected in the order of levels.
BCubeRouting(src, dst, order) ==
  LET todo == SelectSeq(order, LAMBDA level : Digit(src, level) # Digit(dst, level))
      crt[n \in 0..Len(todo)] ==
        IF n = 0 THEN src ELSE WithDigit(crt[n - 1], todo[n], Digit(dst, todo[n]))
  IN [m \in 1..(2 * Len(todo) + 1) |->
        IF m % 2 = 1 THEN Host(crt[m \div 2])
        ELSE Switch(crt[m \div 2], todo[m \div 2])]

\* Levels i, i-1, ..., around to i+1.
DownFrom(i) == [m \in 1..(TopLevel + 1) |-> (i + TopLevel + 2 - m) % (TopLevel + 1)]

DcRouting(src, dst, i) == BCubeRouting(src, dst, DownFrom(i))

\* By a neighbour, and on to the destination with level i as the last.
AltDcRouting(src, dst, i, c) ==
  BCubeRouting(src, c, DownFrom(TopLevel))
    \o Tail(BCubeRouting(c, dst, DownFrom((i + TopLevel) % (TopLevel + 1))))

\* What get_paths may give as the path for level i.
PathsOfLevel(src, dst, i) ==
  IF Digit(src, i) # Digit(dst, i) THEN {DcRouting(src, dst, i)}
  ELSE {AltDcRouting(src, dst, i, c) : c \in Neighbours(src, i)}

BCubePaths(src, dst) == {OneWay(p) : p \in UNION {PathsOfLevel(src, dst, i) : i \in Levels}}

-----------------------------------------------------------------------------
(* camcubetopology.cpp *)

CubeK   == 5
NumSrv  == 125
Axes    == 0..2

\* Coordinates, and the server a number of places further along an axis.
Address(srv, axis) == (srv \div CubeK^axis) % CubeK
Along(srv, axis, places) ==
  srv + (((Address(srv, axis) + places) % CubeK) - Address(srv, axis)) * CubeK^axis

\* A pair stands for the interface pos of the one and neg of the other.
CamCubeLinks == {<<Host(i), Host(Along(i, l, 1))>> : i \in 0..(NumSrv - 1), l \in Axes}

\* get_distance: how far it is along an axis, and the way that is shorter.
RingDistance(a, b, axis) == (Address(b, axis) + CubeK - Address(a, axis)) % CubeK
GetDistance(src, dst, axis) ==
  LET a == RingDistance(dst, src, axis)
      b == RingDistance(src, dst, axis)
  IN IF a < b THEN [dist |-> a, next |-> Along(src, axis, CubeK - 1)]
     ELSE [dist |-> b, next |-> Along(src, axis, 1)]

\* get_paths_camcube: a hop along any axis on which they differ, and all the
\* paths from there.
CamCubePaths(src, dst) ==
  LET ways[n \in 0..(NumSrv - 1)] ==
        UNION {LET hop == GetDistance(n, dst, axis)
               IN IF hop.dist < 1 THEN {}
                  ELSE IF hop.next = dst THEN {<<Host(n), Host(dst)>>}
                  ELSE {<<Host(n)>> \o w : w \in ways[hop.next]} : axis \in Axes}
  IN {OneWay(w) : w \in ways[src]}

=============================================================================
