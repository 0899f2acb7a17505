--------------------------- MODULE GraphTopology ----------------------------
(***************************************************************************)
(* The static network of ToRs that is read from a file                     *)
(* (datacenter/graph_topology.cpp): what files the reader accepts, and the *)
(* tables it makes of them.  It stands in for the rotor network (Fabric)   *)
(* with a single slice that never ends.                                    *)
(*                                                                         *)
(* A file is a header and lines of numbers: a row of neighbours for every  *)
(* ToR, and then the routes, each with its source, its destination and the *)
(* ToRs that come after the source.                                        *)
(***************************************************************************)
EXTENDS PacketLists, SequencesExt

FileTors(file)     == 0..(file.ntor - 1)
Row(file, tor)     == file.lines[tor + 1]
AfterRows(file)    == SubSeq(file.lines, file.ntor + 1, Len(file.lines))
RouteLines(file)   == Range(AfterRows(file)) \ {<<>>}

HeaderValid(file) == file.ntor > 0 /\ file.ndl > 0

\* The neighbours of a ToR: others, no one twice, and at least one.
RowValid(file, tor) ==
  /\ Row(file, tor) # <<>>
  /\ Range(Row(file, tor)) \subseteq FileTors(file) \ {tor}
  /\ IsInjective(Row(file, tor))
RowsValid(file) ==
  Len(file.lines) >= file.ntor /\ \A tor \in FileTors(file) : RowValid(file, tor)

\* _adj_to_port: uplinks have the ports above the downlinks, in the order of
\* the row.
IsEdge(file, tor, next) == next \in Range(Row(file, tor))
AdjToPort(file, tor, next) ==
  file.ndl + (CHOOSE k \in DOMAIN Row(file, tor) : Row(file, tor)[k] = next) - 1

\* The ToRs a route goes through, its source included.
Visits(line) == <<line[1]>> \o SubSeq(line, 3, Len(line))

RouteValid(file, line) ==
  /\ Len(line) >= 3
  /\ line[1] \in FileTors(file) /\ line[2] \in FileTors(file) /\ line[1] # line[2]
  /\ \A hop \in 1..(Len(line) - 2) : IsEdge(file, Visits(line)[hop], Visits(line)[hop + 1])
  /\ Last(line) = line[2]

\* read_params: all the checks, each of which ends the program.
Reads(file) ==
  /\ HeaderValid(file) /\ RowsValid(file)
  /\ \A line \in RouteLines(file) : RouteValid(file, line)

-----------------------------------------------------------------------------
(* The tables *)

\* The slice is 0 at any time.
SlicesOfGraph == 1

\* _nul: ToRs may have different numbers of neighbours.
NulOf(file) == Max({Len(Row(file, tor)) : tor \in FileTors(file)})

\* init_network builds queues for the ports with a neighbour only; -1 is no
\* entry of _adjacency.
AdjacencyOf(file) ==
  [slice \in 0..(SlicesOfGraph - 1) |-> [tor \in FileTors(file) |->
     [port \in file.ndl..(file.ndl + NulOf(file) - 1) |->
        IF port - file.ndl < Len(Row(file, tor)) THEN Row(file, tor)[port - file.ndl + 1] ELSE -1]]]

\* _lbls, in the order of the file, for the one slice there is.
LblsOf(file) ==
  [src \in FileTors(file) |-> [dst \in FileTors(file) |-> [slice \in 0..(SlicesOfGraph - 1) |->
     LET lines == Kept(AfterRows(file), {line \in RouteLines(file) : line[1] = src /\ line[2] = dst})
     IN [k \in DOMAIN lines |->
           [hop \in 1..(Len(lines[k]) - 2) |->
              AdjToPort(file, Visits(lines[k])[hop], Visits(lines[k])[hop + 1])]]]]]

NetworkOf(file) ==
  [ntor |-> file.ntor, ndl |-> file.ndl, nul |-> NulOf(file), nslice |-> SlicesOfGraph,
   adjacency |-> AdjacencyOf(file), lbls |-> LblsOf(file)]

\* The reader does not ask for a route between every two ToRs; a flow without
\* one would have to choose among none.
HasRoutes(file) ==
  \A src, dst \in FileTors(file) : src # dst => LblsOf(file)[src][dst][0] # <<>>

=============================================================================
