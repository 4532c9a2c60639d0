------------------------------ MODULE MacRelay ------------------------------
(***************************************************************************)
(* The VLAN-aware switching core of the IEC 61850 switches: MACRelayUnit    *)
(* (the relay) with MACAddressTable (the filtering database), which the     *)
(* relay calls synchronously (inet/src/linklayer/ethernet/switch).          *)
(*                                                                          *)
(* The database is one table per VLAN id, a partial function from addresses *)
(* to entries; vlanAddressTable has no table for a VLAN nobody was heard in *)
(* and no table at all after clearTable.  VLAN id 0 (untagged frames) uses  *)
(* the member `addressTable', which is vlanAddressTable[0].  Instants are   *)
(* kept as ages: `age' is simTime() - insertionTime and `sincePurge' is     *)
(* simTime() - lastPurge, each saturated where no comparison can tell any   *)
(* further.                                                                 *)
(*                                                                          *)
(* `lastHeard' and `out' are not in the code: the port each address was     *)
(* last heard on (or configured for), and what the last frame caused.       *)
(***************************************************************************)
EXTENDS Integers, FiniteSets

CONSTANTS
  Ports, Vids, Addrs,     \* port indexes, VLAN ids in use, unicast addresses
  Broadcast,              \* the broadcast address
  Groups,                 \* multicast destinations
  Static,                 \* lines <<vid, address, port>> of addressTableFile
  AgingTimes,             \* values agingTime may take (STP changes it)
  DefaultAging,           \* parameter agingTime
  MaxAge,                 \* no agingTime exceeds it: ages saturate there
  PurgePeriod,            \* the second that removeAgedEntriesIfNeeded waits
  StpCalls,               \* whether a spanning tree protocol uses the table
  NoTable, NoPort, NoOutput

Entries == [vid : Vids, port : Ports, age : 0 .. MaxAge]
Tables  == UNION {[S -> Entries] : S \in SUBSET Addrs}

ASSUME RelayAssumption ==
  /\ Ports \subseteq Nat /\ IsFiniteSet(Addrs)
  /\ 0 \in Vids /\ Vids \subseteq Nat
  /\ MaxAge \in Nat /\ AgingTimes \subseteq 1 .. MaxAge
  /\ DefaultAging \in AgingTimes
  /\ PurgePeriod \in Nat \ {0}
  /\ Static \subseteq Vids \X Addrs \X Ports
  /\ StpCalls \in BOOLEAN
  /\ \A s, t \in Static : s[1] = t[1] /\ s[2] = t[2] => s = t
  /\ Broadcast \notin Addrs /\ NoPort \notin Ports /\ NoTable \notin Tables

VARIABLES
  isOperational,
  tables,         \* vlanAddressTable
  agingTime, sincePurge,
  lastHeard, out

vars == <<isOperational, tables, agingTime, sincePurge, lastHeard, out>>

EmptyTable == [a \in {} |-> 0]

\* readAddressTable, of a file that names an address once per VLAN.
StaticTable(v) ==
  [a \in {s[2] : s \in {t \in Static : t[1] = v}} |->
     [vid |-> v, port |-> (CHOOSE s \in Static : s[1] = v /\ s[2] = a)[3],
      age |-> 0]]

Init ==
  /\ isOperational = TRUE
  /\ tables = [v \in Vids |->
       IF v = 0 \/ \E s \in Static : s[1] = v THEN StaticTable(v) ELSE NoTable]
  /\ agingTime = DefaultAging /\ sincePurge = 0
  /\ lastHeard = [v \in Vids |-> [a \in Addrs |->
       IF a \in DOMAIN StaticTable(v) THEN StaticTable(v)[a].port ELSE NoPort]]
  /\ out = NoOutput

-----------------------------------------------------------------------------
(***************************************************************************)
(* MACAddressTable.                                                         *)
(***************************************************************************)

\* A slip of the ageing test, entries one instant too old being used, and
\* the test itself.
AgedLate(entry) == entry.age > agingTime
Aged(entry) == entry.age >= agingTime
Known(ts, v, a) == ts[v] # NoTable /\ a \in DOMAIN ts[v]
Only(table, S) == [a \in S |-> table[a]]

\* removeAgedEntriesFromAllVlans
WithoutAged(ts) ==
  [v \in Vids |-> IF ts[v] = NoTable THEN NoTable
                  ELSE Only(ts[v], {a \in DOMAIN ts[v] : ~Aged(ts[v][a])})]

\* removeAgedEntriesIfNeeded, as the tables it leaves
Purged(ts) == IF sincePurge >= PurgePeriod THEN WithoutAged(ts) ELSE ts

\* A slip of updateTableWithAddress: the port of a known address is not updated.
RefreshedInPlace(ts, port, a, v) ==
  [ts EXCEPT ![v] = [b \in DOMAIN ts[v] |->
     IF b = a THEN [ts[v][b] EXCEPT !.age = 0] ELSE ts[v][b]]]

\* updateTableWithAddress: refresh the entry of a known address; otherwise
\* purge if it is time to, create the table if need be, and insert.
Inserted(ts, port, a, v) ==
  LET entry == [vid |-> v, port |-> port, age |-> 0]
      old   == IF ts[v] = NoTable THEN EmptyTable ELSE ts[v]
  IN  [ts EXCEPT ![v] = [b \in DOMAIN old \cup {a} |->
                           IF b = a THEN entry ELSE old[b]]]

Refreshed(ts, port, a, v) ==
  [ts EXCEPT ![v] = [b \in DOMAIN ts[v] |->
     IF b = a THEN [ts[v][b] EXCEPT !.port = port, !.age = 0] ELSE ts[v][b]]]

Updated(ts, port, a, v) ==
  IF a = Broadcast THEN ts
  ELSE IF Known(ts, v, a) THEN Refreshed(ts, port, a, v)
  ELSE Inserted(Purged(ts), port, a, v)

\* getPortForAddress: NoPort stands for -1; an aged entry is thrown out.
PortForAddress(ts, a, v) ==
  IF Known(ts, v, a) /\ ~Aged(ts[v][a]) THEN ts[v][a].port ELSE NoPort

AfterLookup(ts, a, v) ==
  IF Known(ts, v, a) /\ Aged(ts[v][a])
  THEN [ts EXCEPT ![v] = Only(ts[v], DOMAIN ts[v] \ {a})]
  ELSE ts

\* getPortForVid as the relay uses it: how many entries of the table of v
\* name port p, and how many entries the table has (*numports).
EntriesOn(ts, p, v) ==
  Cardinality({a \in DOMAIN ts[v] : ts[v][a].vid = v /\ ts[v][a].port = p})
NumPorts(ts, v) == Cardinality(DOMAIN ts[v])

-----------------------------------------------------------------------------
(***************************************************************************)
(* MACRelayUnit.                                                            *)
(***************************************************************************)

None == [p \in Ports |-> 0]

\* A slip of broadcastFrame: the loop over the list stops one short.
FloodCopiesShort(ts, port, v) ==
  [p \in Ports |->
     IF p = port THEN 0
     ELSE IF v # 0 /\ ts[v] # NoTable /\ NumPorts(ts, v) > 1
     THEN LET skipped == CHOOSE a \in DOMAIN ts[v] : TRUE
          IN  Cardinality({a \in DOMAIN ts[v] \ {skipped} : ts[v][a].port = p})
     ELSE 1]

\* broadcastFrame: a copy per entry of the VLAN when more than one is known,
\* else a copy to every port; never to the input port.  Reading *numports
\* when the VLAN has no table is a read of an uninitialized variable.
FloodCopies(ts, port, v) ==
  [p \in Ports |->
     IF p = port THEN 0
     ELSE IF v # 0 /\ ts[v] # NoTable /\ NumPorts(ts, v) > 1
     THEN EntriesOn(ts, p, v)
     ELSE 1]

ReadsUninitialized(ts, v) == v # 0 /\ ts[v] = NoTable

\* What the relay did with a frame: from which port, to which address and
\* in which VLAN it came, the copies sent to each port, and whether an
\* uninitialized variable was read.
Output(kind, port, dest, v, copies, undef) ==
  [kind |-> kind, port |-> port, dest |-> dest, vid |-> v,
   copies |-> copies, undef |-> undef]

Flood(ts, port, dest, v) ==
  out' = Output("flood", port, dest, v, FloodCopies(ts, port, v),
                ReadsUninitialized(ts, v))

\* The database side of handleAndDispatchFrame: learn the source, first.
Learn(port, src, v) ==
  /\ sincePurge' = IF src = Broadcast \/ Known(tables, v, src)
                   THEN sincePurge ELSE 0
  /\ lastHeard' = IF src = Broadcast THEN lastHeard
                  ELSE [lastHeard EXCEPT ![v][src] = port]

\* The rest of handleAndDispatchFrame, from the tables ts that learning left:
\* broadcast, flood, discard or forward.
Route(ts, port, dest, v) ==
  LET target == PortForAddress(ts, dest, v)
      looked == AfterLookup(ts, dest, v)
  IN
  \/ /\ dest = Broadcast
     /\ tables' = ts
     /\ Flood(ts, port, dest, v)
  \/ /\ dest # Broadcast /\ target = NoPort
     /\ tables' = looked
     /\ Flood(looked, port, dest, v)
  \/ /\ dest # Broadcast /\ target = port
     /\ tables' = looked
     /\ out' = Output("discard", port, dest, v, None, FALSE)
  \/ /\ dest # Broadcast /\ target \notin {port, NoPort}
     /\ tables' = looked
     /\ out' = Output("forward", port, dest, v, [None EXCEPT ![target] = 1], FALSE)

\* Slips of handleAndDispatchFrame: the frame is flooded with the tables it
\* found, before its source is learned; the destination is learned.
DispatchFirst(port, src, dest, v) ==
  /\ isOperational /\ PortForAddress(tables, dest, v) = NoPort
  /\ Learn(port, src, v)
  /\ tables' = Updated(AfterLookup(tables, dest, v), port, src, v)
  /\ Flood(tables, port, dest, v)
  /\ UNCHANGED <<isOperational, agingTime>>
DispatchLearnsDest(port, src, dest, v) ==
  /\ isOperational
  /\ Learn(port, src, v)
  /\ Route(Updated(tables, port, dest, v), port, dest, v)
  /\ UNCHANGED <<isOperational, agingTime>>

(***************************************************************************)
(* handleAndDispatchFrame: a frame from src to dest, tagged with VLAN v     *)
(* (0: untagged), arrives on a port.                                        *)
(***************************************************************************)
Dispatch(port, src, dest, v) ==
  /\ isOperational
  /\ Learn(port, src, v)
  /\ Route(Updated(tables, port, src, v), port, dest, v)
  /\ UNCHANGED <<isOperational, agingTime>>

\* A frame that arrives while the relay is down is dropped.
DropWhenDown ==
  /\ ~isOperational
  /\ out' = NoOutput
  /\ UNCHANGED <<isOperational, tables, agingTime, sincePurge, lastHeard>>

\* clearTable, called by start() and by stop().
ClearTable ==
  /\ tables' = [v \in Vids |-> NoTable]
  /\ lastHeard' = [v \in Vids |-> [a \in Addrs |-> NoPort]]
  /\ out' = NoOutput
  /\ UNCHANGED <<agingTime, sincePurge>>

Stop  == isOperational /\ isOperational' = FALSE /\ ClearTable
Start == ~isOperational /\ isOperational' = TRUE /\ ClearTable

-----------------------------------------------------------------------------
(***************************************************************************)
(* Calls of the spanning tree protocols, and time.                          *)
(***************************************************************************)

\* flush(port)
FlushPort(port) ==
  /\ StpCalls
  /\ tables' = [v \in Vids |->
       IF tables[v] = NoTable THEN NoTable
       ELSE Only(tables[v], {a \in DOMAIN tables[v] : tables[v][a].port # port})]
  /\ out' = NoOutput
  /\ UNCHANGED <<isOperational, agingTime, sincePurge, lastHeard>>

\* copyTable(portA, portB): what was reachable through portA now is through
\* portB.
CopyTable(portA, portB) ==
  /\ StpCalls
  /\ tables' = [v \in Vids |->
       IF tables[v] = NoTable THEN NoTable
       ELSE [a \in DOMAIN tables[v] |->
               IF tables[v][a].port = portA
               THEN [tables[v][a] EXCEPT !.port = portB] ELSE tables[v][a]]]
  /\ lastHeard' = [v \in Vids |-> [a \in Addrs |->
       IF lastHeard[v][a] = portA THEN portB ELSE lastHeard[v][a]]]
  /\ out' = NoOutput
  /\ UNCHANGED <<isOperational, agingTime, sincePurge>>

\* setAgingTime and resetDefaultAging
SetAgingTime(t) ==
  /\ StpCalls
  /\ agingTime' = t
  /\ out' = NoOutput
  /\ UNCHANGED <<isOperational, tables, sincePurge, lastHeard>>

Older(n, limit) == IF n < limit THEN n + 1 ELSE n

Tick ==
  /\ tables' = [v \in Vids |->
       IF tables[v] = NoTable THEN NoTable
       ELSE [a \in DOMAIN tables[v] |->
               [tables[v][a] EXCEPT !.age = Older(@, MaxAge)]]]
  /\ sincePurge' = Older(sincePurge, PurgePeriod)
  /\ out' = NoOutput
  /\ UNCHANGED <<isOperational, agingTime, lastHeard>>

Next ==
  \/ \E port \in Ports, src \in Addrs, v \in Vids,
        dest \in Addrs \cup Groups \cup {Broadcast} : Dispatch(port, src, dest, v)
  \/ DropWhenDown \/ Stop \/ Start
  \/ \E port \in Ports : FlushPort(port)
  \/ \E portA, portB \in Ports : CopyTable(portA, portB)
  \/ \E t \in AgingTimes : SetAgingTime(t)
  \/ Tick

Spec == Init /\ [][Next]_vars

-----------------------------------------------------------------------------
(***************************************************************************)
(* Properties.                                                              *)
(***************************************************************************)

TypeOK ==
  /\ isOperational \in BOOLEAN
  /\ tables \in [Vids -> Tables \cup {NoTable}]
  /\ agingTime \in AgingTimes
  /\ sincePurge \in 0 .. PurgePeriod
  /\ lastHeard \in [Vids -> [Addrs -> Ports \cup {NoPort}]]

(***************************************************************************)
(* broadcastFrame reads *numports, and the entries of the array that        *)
(* getPortForVid allocated, although getPortForVid leaves *numports unset   *)
(* when the VLAN has no table.  It never happens, even right after          *)
(* clearTable and after the lookup threw out the last entry, because the    *)
(* source was learned into the same VLAN first.                             *)
(***************************************************************************)
PortListInitialized == out # NoOutput => ~out.undef

(***************************************************************************)
(* getPortForVid allocates one element per entry but fills in only those    *)
(* whose vid is the table's: an entry filed under another VLAN would leave  *)
(* a hole of uninitialized port numbers.                                    *)
(***************************************************************************)
EntriesFiledUnderVid ==
  \A v \in Vids : tables[v] # NoTable =>
    \A a \in DOMAIN tables[v] : tables[v][a].vid = v

(***************************************************************************)
(* The database is truthful: an entry names the port its address was last   *)
(* heard on in that VLAN since the tables were last cleared, through moves, *)
(* ageing, purges, flushes and the port swap of the spanning tree.          *)
(***************************************************************************)
EntriesTruthful ==
  \A v \in Vids : tables[v] # NoTable =>
    \A a \in DOMAIN tables[v] : tables[v][a].port = lastHeard[v][a]

(***************************************************************************)
(* A frame the relay forwards to one port goes where its destination was    *)
(* last heard in the frame's own VLAN, less than agingTime ago; learning    *)
(* the source in the same step never redirects it back.                     *)
(***************************************************************************)
ForwardedToFreshPort ==
  out # NoOutput /\ out.kind = "forward" =>
    /\ Known(tables, out.vid, out.dest)
    /\ tables[out.vid][out.dest].age < agingTime
    /\ {p \in Ports : out.copies[p] > 0} = {lastHeard[out.vid][out.dest]}
    /\ lastHeard[out.vid][out.dest] # out.port

(***************************************************************************)
(* Whatever ageing, purges, flushes and moves did to the tables, a flooded  *)
(* frame reaches the port of every other known member of its VLAN, and      *)
(* never goes back out of the port it came in by.  The source has just been *)
(* filed in the table the list of ports is taken from.                      *)
(***************************************************************************)
FloodReachesMembers ==
  out # NoOutput /\ out.kind = "flood" =>
    /\ out.copies[out.port] = 0
    /\ \A a \in Addrs :
         Known(tables, out.vid, a) /\ tables[out.vid][a].port # out.port
         => out.copies[tables[out.vid][a].port] >= 1

(***************************************************************************)
(* What comments say and the code does not do.                              *)
(***************************************************************************)

\* MACRelayUnit.cc:92: a frame whose destination is not found goes "to all
\* other ports instead".
UnknownGoesEverywhere ==
  out # NoOutput /\ out.kind = "flood" =>
    \A p \in Ports \ {out.port} : out.copies[p] >= 1

=============================================================================
