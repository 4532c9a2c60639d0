--------------------------- MODULE MacRelayProofs ---------------------------
(***************************************************************************)
(* Theorems about the switching core for any number of ports, VLANs and     *)
(* stations, any ageing times, and any calls of a spanning tree protocol.   *)
(***************************************************************************)
EXTENDS MacRelay, FiniteSetTheorems, TLAPS

-----------------------------------------------------------------------------
(***************************************************************************)
(* What the operations of the database keep true of it.  Sound(ts, heard)   *)
(* says that ts is a well-formed database whose entries are filed under     *)
(* their own VLAN and name the ports given by heard.                        *)
(***************************************************************************)
Sound(ts, heard) ==
  /\ ts \in [Vids -> Tables \cup {NoTable}]
  /\ \A v \in Vids : ts[v] # NoTable =>
       \A a \in DOMAIN ts[v] : ts[v][a].vid = v /\ ts[v][a].port = heard[v][a]

\* A function on some of the addresses whose values are entries is a table.
LEMMA IsTable ==
  ASSUME NEW S \in SUBSET Addrs, NEW f \in [S -> Entries]
  PROVE  f \in Tables /\ f # NoTable
BY RelayAssumption DEF Tables, RelayAssumption

\* And a table is such a function.
LEMMA TableIs ==
  ASSUME NEW t \in Tables
  PROVE  DOMAIN t \in SUBSET Addrs /\ t \in [DOMAIN t -> Entries]
BY DEF Tables

\* What makes one table of the database sound.
SoundTable(t, v, heard) ==
  \E S \in SUBSET Addrs :
    /\ t \in [S -> Entries]
    /\ \A a \in S : t[a].vid = v /\ t[a].port = heard[v][a]

\* A database is sound when each of its tables is.
LEMMA SoundByTable ==
  ASSUME NEW ts, NEW heard, ts = [v \in Vids |-> ts[v]],
         \A v \in Vids : ts[v] # NoTable => SoundTable(ts[v], v, heard)
  PROVE  Sound(ts, heard)
<1>1. ASSUME NEW v \in Vids, ts[v] # NoTable
      PROVE  /\ ts[v] \in Tables
             /\ \A a \in DOMAIN ts[v] : ts[v][a].vid = v /\ ts[v][a].port = heard[v][a]
  <2>1. PICK S \in SUBSET Addrs :
            /\ ts[v] \in [S -> Entries]
            /\ \A a \in S : ts[v][a].vid = v /\ ts[v][a].port = heard[v][a]
    BY <1>1 DEF SoundTable
  <2>2. QED BY <2>1, IsTable
<1>2. ts \in [Vids -> Tables \cup {NoTable}]
  BY <1>1
<1>3. QED BY <1>1, <1>2 DEF Sound

\* Only entries have been thrown out of the tables, and no table.
FewerEntries(new, ts) ==
  /\ new = [v \in Vids |-> new[v]]
  /\ \A v \in Vids : \/ new[v] = ts[v]
                     \/ ts[v] # NoTable /\ \E S \in SUBSET DOMAIN ts[v] :
                          new[v] = Only(ts[v], S)

\* Throwing entries out of tables keeps a database sound.
LEMMA SoundSubset ==
  ASSUME NEW ts, NEW new, NEW heard, Sound(ts, heard),
         FewerEntries(new, ts)
  PROVE  Sound(new, heard)
<1> USE DEF FewerEntries
<1>1. ASSUME NEW v \in Vids, new[v] # NoTable
      PROVE  SoundTable(new[v], v, heard)
  <2>1. ts[v] \in Tables /\ ts[v] # NoTable
    BY <1>1 DEF Sound
  <2>2. DOMAIN ts[v] \in SUBSET Addrs /\ ts[v] \in [DOMAIN ts[v] -> Entries]
    BY <2>1, TableIs
  <2>3. CASE new[v] = ts[v]
    BY <2>1, <2>2, <2>3 DEF Sound, SoundTable
  <2>4. ASSUME NEW S \in SUBSET DOMAIN ts[v], new[v] = Only(ts[v], S)
        PROVE  /\ S \in SUBSET Addrs /\ new[v] \in [S -> Entries]
               /\ \A a \in S : new[v][a].vid = v /\ new[v][a].port = heard[v][a]
    BY <2>1, <2>2, <2>4 DEF Only, Sound
  <2>5. QED BY <1>1, <2>1, <2>3, <2>4 DEF SoundTable
<1>2. QED BY <1>1, SoundByTable

\* The purge throws entries out and never a table.
LEMMA PurgeSound ==
  ASSUME NEW ts, NEW heard, Sound(ts, heard)
  PROVE  Sound(Purged(ts), heard)
<1>1. CASE sincePurge >= PurgePeriod
  <2>1. Purged(ts) = WithoutAged(ts)
    BY <1>1 DEF Purged
  <2>2. FewerEntries(WithoutAged(ts), ts)
    BY DEF WithoutAged, FewerEntries
  <2>3. QED BY <2>1, <2>2, SoundSubset
<1>2. CASE ~(sincePurge >= PurgePeriod)
  BY <1>2 DEF Purged
<1>3. QED BY <1>1, <1>2

\* The lookup throws at most the entry it looked up out, and never a table.
LEMMA LookupSound ==
  ASSUME NEW ts, NEW heard, Sound(ts, heard), NEW b, NEW w \in Vids
  PROVE  /\ Sound(AfterLookup(ts, b, w), heard)
         /\ ts[w] # NoTable => AfterLookup(ts, b, w)[w] # NoTable
<1>1. CASE Known(ts, w, b) /\ Aged(ts[w][b])
  <2> DEFINE new == AfterLookup(ts, b, w)
             rest == Only(ts[w], DOMAIN ts[w] \ {b})
  <2>1. ts \in [Vids -> Tables \cup {NoTable}] /\ ts[w] # NoTable
    BY <1>1 DEF Sound, Known
  <2>2. new = [ts EXCEPT ![w] = rest]
    BY <1>1 DEF AfterLookup
  <2>3. new = [v \in Vids |-> new[v]] /\ new[w] = rest
        /\ \A v \in Vids : v # w => new[v] = ts[v]
    BY <2>1, <2>2
  <2>4. Sound(new, heard)
    <3> HIDE DEF new
    <3>1. FewerEntries(new, ts)
      BY <2>1, <2>3 DEF FewerEntries
    <3>2. QED BY <3>1, SoundSubset
  <2>5. rest # NoTable
    <3>1. ts[w] \in Tables
      BY <2>1
    <3>2. DOMAIN ts[w] \in SUBSET Addrs /\ ts[w] \in [DOMAIN ts[w] -> Entries]
      BY <3>1, TableIs
    <3>3. rest \in [DOMAIN ts[w] \ {b} -> Entries] /\ DOMAIN ts[w] \ {b} \in SUBSET Addrs
      BY <3>2 DEF Only
    <3>4. QED BY <3>3, IsTable
  <2>6. QED BY <2>3, <2>4, <2>5
<1>2. CASE ~(Known(ts, w, b) /\ Aged(ts[w][b]))
  BY <1>2 DEF AfterLookup
<1>3. QED BY <1>1, <1>2

\* Learning files the source under its VLAN, with the port it was heard on.
LEMMA UpdateSound ==
  ASSUME NEW ts, NEW heard \in [Vids -> [Addrs -> Ports \cup {NoPort}]],
         Sound(ts, heard), NEW p \in Ports, NEW b \in Addrs, NEW w \in Vids
  PROVE  /\ Sound(Updated(ts, p, b, w), [heard EXCEPT ![w][b] = p])
         /\ Updated(ts, p, b, w)[w] # NoTable
<1> DEFINE new == Updated(ts, p, b, w)
           heard2 == [heard EXCEPT ![w][b] = p]
<1>0. /\ b # Broadcast /\ MaxAge \in Nat
      /\ [vid |-> w, port |-> p, age |-> 0] \in Entries
  BY RelayAssumption DEF RelayAssumption, Entries
<1>1. /\ \A v \in Vids, a \in Addrs : v # w \/ a # b => heard2[v][a] = heard[v][a]
      /\ heard2[w][b] = p
  OBVIOUS
<1> HIDE DEF heard2
<1>2. CASE Known(ts, w, b)
  <2>1. ts \in [Vids -> Tables \cup {NoTable}] /\ ts[w] # NoTable /\ b \in DOMAIN ts[w]
    BY <1>2 DEF Known, Sound
  <2>2. DOMAIN ts[w] \in SUBSET Addrs /\ ts[w] \in [DOMAIN ts[w] -> Entries]
    BY <2>1, TableIs
  <2> DEFINE t == [a \in DOMAIN ts[w] |->
        IF a = b THEN [ts[w][a] EXCEPT !.port = p, !.age = 0] ELSE ts[w][a]]
  <2>3. new = [ts EXCEPT ![w] = t]
    BY <1>0, <1>2 DEF Updated, Refreshed
  <2>4. t \in [DOMAIN ts[w] -> Entries]
    BY <1>0, <2>2 DEF Entries
  <2>5. \A a \in DOMAIN ts[w] : t[a].vid = w /\ t[a].port = heard2[w][a]
    BY <1>1, <2>1, <2>2 DEF Sound, Entries
  <2>6. /\ new = [v \in Vids |-> new[v]] /\ new[w] = t
        /\ \A v \in Vids : v # w => new[v] = ts[v]
    BY <2>1, <2>3
  <2>7. t # NoTable
    BY <2>2, <2>4, IsTable
  <2> HIDE DEF new, t
  <2>8. ASSUME NEW v \in Vids, new[v] # NoTable
        PROVE  SoundTable(new[v], v, heard2)
    <3>1. CASE v = w
      BY <2>2, <2>4, <2>5, <2>6, <3>1 DEF SoundTable
    <3>2. CASE v # w
      <4>1. ts[v] \in Tables /\ new[v] = ts[v]
        BY <2>1, <2>6, <2>8, <3>2
      <4>2. DOMAIN ts[v] \in SUBSET Addrs /\ ts[v] \in [DOMAIN ts[v] -> Entries]
        BY <4>1, TableIs
      <4>3. QED BY <1>1, <2>8, <3>2, <4>1, <4>2 DEF Sound, SoundTable
    <3>3. QED BY <3>1, <3>2
  <2>9. Sound(new, heard2)
    BY <2>6, <2>8, SoundByTable
  <2>10. QED BY <2>6, <2>7, <2>9 DEF new, heard2
<1>3. CASE ~Known(ts, w, b)
  <2> DEFINE old == IF Purged(ts)[w] = NoTable THEN EmptyTable ELSE Purged(ts)[w]
             t == [a \in DOMAIN old \cup {b} |->
                     IF a = b THEN [vid |-> w, port |-> p, age |-> 0] ELSE old[a]]
  <2>1. Sound(Purged(ts), heard)
    BY PurgeSound
  <2>2. /\ DOMAIN old \in SUBSET Addrs /\ old \in [DOMAIN old -> Entries]
        /\ \A a \in DOMAIN old : old[a].vid = w /\ old[a].port = heard[w][a]
    <3>1. CASE Purged(ts)[w] = NoTable
      BY <3>1 DEF EmptyTable
    <3>2. CASE Purged(ts)[w] # NoTable
      <4>1. Purged(ts)[w] \in Tables
        BY <2>1, <3>2 DEF Sound
      <4>2. QED BY <2>1, <3>2, <4>1, TableIs DEF Sound
    <3>3. QED BY <3>1, <3>2
  <2>3. new = [Purged(ts) EXCEPT ![w] = t]
    BY <1>0, <1>3 DEF Updated, Inserted
  <2> HIDE DEF old
  <2>4. DOMAIN old \cup {b} \in SUBSET Addrs /\ t \in [DOMAIN old \cup {b} -> Entries]
    BY <1>0, <2>2
  <2>5. \A a \in DOMAIN old \cup {b} : t[a].vid = w /\ t[a].port = heard2[w][a]
    BY <1>1, <2>2
  <2>6. /\ new = [v \in Vids |-> new[v]] /\ new[w] = t
        /\ \A v \in Vids : v # w => new[v] = Purged(ts)[v]
    BY <2>1, <2>3 DEF Sound
  <2>7. t # NoTable
    BY <2>4, IsTable
  <2> HIDE DEF new, t
  <2>8. ASSUME NEW v \in Vids, new[v] # NoTable
        PROVE  SoundTable(new[v], v, heard2)
    <3>1. CASE v = w
      BY <2>4, <2>5, <2>6, <3>1 DEF SoundTable
    <3>2. CASE v # w
      <4>1. Purged(ts)[v] \in Tables /\ new[v] = Purged(ts)[v]
        BY <2>1, <2>6, <2>8, <3>2 DEF Sound
      <4>2. /\ DOMAIN Purged(ts)[v] \in SUBSET Addrs
            /\ Purged(ts)[v] \in [DOMAIN Purged(ts)[v] -> Entries]
        BY <4>1, TableIs
      <4>3. QED BY <1>1, <2>1, <2>8, <3>2, <4>1, <4>2 DEF Sound, SoundTable
    <3>3. QED BY <3>1, <3>2
  <2>9. Sound(new, heard2)
    BY <2>6, <2>8, SoundByTable
  <2>10. QED BY <2>6, <2>7, <2>9 DEF new, heard2
<1>4. QED BY <1>2, <1>3

-----------------------------------------------------------------------------
(***************************************************************************)
(* The inductive invariant.  What is said of the last output needs the      *)
(* truthfulness of the tables it was taken from, and not conversely.        *)
(***************************************************************************)
DatabaseInv == TypeOK /\ EntriesFiledUnderVid /\ EntriesTruthful
OutputInv   == PortListInitialized /\ ForwardedToFreshPort /\ FloodReachesMembers

\* The database part of the invariant, in terms of Sound.
LEMMA DatabaseSound ==
  DatabaseInv <=> /\ Sound(tables, lastHeard)
                  /\ isOperational \in BOOLEAN /\ agingTime \in AgingTimes
                  /\ sincePurge \in 0 .. PurgePeriod
                  /\ lastHeard \in [Vids -> [Addrs -> Ports \cup {NoPort}]]
BY DEF DatabaseInv, TypeOK, EntriesFiledUnderVid, EntriesTruthful, Sound

\* A flood takes the list of ports from tables in which the source is filed.
LEMMA FloodOutput ==
  ASSUME NEW p \in Ports, NEW d, NEW w \in Vids, NEW heard,
         Sound(tables', heard), tables'[w] # NoTable,
         Flood(tables', p, d, w)
  PROVE  OutputInv'
<1> DEFINE copies == FloodCopies(tables', p, w)
<1>1. /\ out'.kind = "flood" /\ out'.port = p /\ out'.vid = w
      /\ out'.copies = copies /\ out'.undef = FALSE
  BY DEF Flood, Output, ReadsUninitialized
<1>2. copies[p] = 0
  BY DEF FloodCopies
<1>3. ASSUME NEW a \in Addrs, a \in DOMAIN tables'[w], tables'[w][a].port # p
      PROVE  copies[tables'[w][a].port] >= 1
  <2> DEFINE q == tables'[w][a].port
             S == {b \in DOMAIN tables'[w] : tables'[w][b].vid = w /\ tables'[w][b].port = q}
  <2>1. tables'[w] \in Tables
    BY DEF Sound
  <2>2. DOMAIN tables'[w] \in SUBSET Addrs /\ tables'[w][a] \in Entries
    BY <1>3, <2>1, TableIs
  <2>3. q \in Ports /\ a \in S
    BY <1>3, <2>2 DEF Entries, Sound
  <2>4. IsFiniteSet(S)
    BY <2>2, FS_Subset, RelayAssumption DEF RelayAssumption
  <2>5. Cardinality(S) \in Nat /\ Cardinality(S) # 0
    BY <2>3, <2>4, FS_CardinalityType, FS_EmptySet
  <2>6. Cardinality(S) >= 1
    BY <2>5
  <2>7. EntriesOn(tables', q, w) >= 1
    BY <2>6 DEF EntriesOn
  <2>8. copies[q] = EntriesOn(tables', q, w) \/ copies[q] = 1
    BY <1>3, <2>3 DEF FloodCopies
  <2>9. QED BY <2>7, <2>8
<1>4. PortListInitialized' /\ ForwardedToFreshPort'
  BY <1>1 DEF PortListInitialized, ForwardedToFreshPort
<1>5. FloodReachesMembers'
  BY <1>1, <1>2, <1>3 DEF FloodReachesMembers, Known
<1>6. QED BY <1>4, <1>5 DEF OutputInv

\* Handling a frame keeps the database truthful, and sends the frame where
\* the database, with its source just learned, says.
LEMMA DispatchPreserves ==
  ASSUME DatabaseInv, NEW p \in Ports, NEW s \in Addrs, NEW d, NEW w \in Vids,
         Dispatch(p, s, d, w)
  PROVE  DatabaseInv' /\ OutputInv'
<1> DEFINE learned == Updated(tables, p, s, w)
           looked  == AfterLookup(learned, d, w)
           target  == PortForAddress(learned, d, w)
<1>0. /\ s # Broadcast /\ PurgePeriod \in Nat \ {0} /\ NoPort \notin Ports
      /\ MaxAge \in Nat /\ AgingTimes \subseteq 1 .. MaxAge
  BY RelayAssumption DEF RelayAssumption
<1>1. /\ Sound(tables, lastHeard) /\ isOperational \in BOOLEAN
      /\ agingTime \in AgingTimes /\ sincePurge \in 0 .. PurgePeriod
      /\ lastHeard \in [Vids -> [Addrs -> Ports \cup {NoPort}]]
  BY DatabaseSound
<1>2. lastHeard' = [lastHeard EXCEPT ![w][s] = p]
  BY <1>0 DEF Dispatch, Learn
<1>3. Sound(learned, lastHeard') /\ learned[w] # NoTable
  BY <1>1, <1>2, UpdateSound
<1>4. Sound(looked, lastHeard') /\ looked[w] # NoTable
  BY <1>3, LookupSound
<1>5. tables' \in {learned, looked}
  BY DEF Dispatch, Route
<1>6. Sound(tables', lastHeard') /\ tables'[w] # NoTable
  BY <1>3, <1>4, <1>5
<1>7. DatabaseInv'
  <2>1. sincePurge' \in 0 .. PurgePeriod
    BY <1>0, <1>1 DEF Dispatch, Learn
  <2>2. lastHeard' \in [Vids -> [Addrs -> Ports \cup {NoPort}]]
    BY <1>1, <1>2
  <2>3. UNCHANGED <<isOperational, agingTime>>
    BY DEF Dispatch
  <2>4. QED
    BY <1>1, <1>6, <2>1, <2>2, <2>3
       DEF DatabaseInv, TypeOK, EntriesFiledUnderVid, EntriesTruthful, Sound
<1>8. CASE Flood(tables', p, d, w)
  <2> HIDE DEF learned, looked, target
  <2>1. QED BY <1>6, <1>7, <1>8, FloodOutput
<1>9. CASE out' = Output("discard", p, d, w, None, FALSE)
  BY <1>7, <1>9 DEF Output, OutputInv, PortListInitialized, ForwardedToFreshPort,
                    FloodReachesMembers
<1>10. CASE /\ target \notin {p, NoPort} /\ tables' = looked
            /\ out' = Output("forward", p, d, w, [None EXCEPT ![target] = 1], FALSE)
  <2>1. Known(learned, w, d) /\ ~Aged(learned[w][d]) /\ target = learned[w][d].port
    BY <1>10 DEF PortForAddress
  <2>2. tables' = learned /\ d \in DOMAIN learned[w]
    BY <1>10, <2>1 DEF AfterLookup, Known
  <2>3. learned[w] \in Tables
    BY <1>3 DEF Sound
  <2>4. learned[w][d] \in Entries
    BY <2>2, <2>3, TableIs
  <2>5. target \in Ports /\ learned[w][d].age \in Nat
    BY <2>1, <2>4, <1>0 DEF Entries
  <2>6. target = lastHeard'[w][d]
    BY <1>3, <2>1, <2>2 DEF Sound
  <2>7. tables'[w][d].age < agingTime'
    <3>1. agingTime' = agingTime /\ agingTime \in Nat
      BY <1>0, <1>1 DEF Dispatch
    <3>2. QED BY <2>1, <2>2, <2>5, <3>1 DEF Aged
  <2>8. /\ out'.kind = "forward" /\ out'.port = p /\ out'.dest = d /\ out'.vid = w
        /\ out'.undef = FALSE /\ out'.copies = [None EXCEPT ![target] = 1]
    BY <1>10 DEF Output
  <2> HIDE DEF target, looked, learned
  <2>9. {q \in Ports : out'.copies[q] > 0} = {target}
    BY <2>5, <2>8 DEF None
  <2>10. Known(tables', w, d)
    BY <2>1, <2>2
  <2>11. ForwardedToFreshPort'
    BY <1>10, <2>6, <2>7, <2>8, <2>9, <2>10 DEF ForwardedToFreshPort, Known
  <2>12. QED
    BY <1>7, <2>8, <2>11 DEF OutputInv, PortListInitialized, FloodReachesMembers
<1>11. QED BY <1>8, <1>9, <1>10 DEF Dispatch, Route

\* The calls of the spanning tree, the restarts and the passing of time leave
\* the database truthful and output nothing.
LEMMA OthersPreserve ==
  ASSUME DatabaseInv,
         \/ DropWhenDown \/ Stop \/ Start
         \/ \E p \in Ports : FlushPort(p)
         \/ \E p, q \in Ports : CopyTable(p, q)
         \/ \E t \in AgingTimes : SetAgingTime(t)
         \/ Tick
  PROVE  DatabaseInv' /\ out' = NoOutput
<1>0. /\ PurgePeriod \in Nat \ {0} /\ MaxAge \in Nat
  BY RelayAssumption DEF RelayAssumption
<1>1. /\ Sound(tables, lastHeard) /\ isOperational \in BOOLEAN
      /\ agingTime \in AgingTimes /\ sincePurge \in 0 .. PurgePeriod
      /\ lastHeard \in [Vids -> [Addrs -> Ports \cup {NoPort}]]
      /\ tables = [v \in Vids |-> tables[v]]
  BY DatabaseSound DEF Sound
<1>2. ASSUME NEW v \in Vids, tables[v] # NoTable
      PROVE  /\ DOMAIN tables[v] \in SUBSET Addrs
             /\ tables[v] \in [DOMAIN tables[v] -> Entries]
             /\ \A a \in DOMAIN tables[v] :
                  tables[v][a].vid = v /\ tables[v][a].port = lastHeard[v][a]
  BY <1>1, <1>2, TableIs DEF Sound
<1>3. ASSUME Sound(tables', lastHeard'), isOperational' \in BOOLEAN,
             agingTime' \in AgingTimes, sincePurge' \in 0 .. PurgePeriod,
             lastHeard' \in [Vids -> [Addrs -> Ports \cup {NoPort}]]
      PROVE  DatabaseInv'
  BY <1>3 DEF DatabaseInv, TypeOK, EntriesFiledUnderVid, EntriesTruthful, Sound
<1>4. CASE DropWhenDown
  BY <1>1, <1>3, <1>4 DEF DropWhenDown
<1>5. CASE Stop \/ Start
  <2>1. ClearTable /\ isOperational' \in BOOLEAN
    BY <1>5 DEF Stop, Start
  <2>2. Sound(tables', lastHeard')
    BY <2>1 DEF ClearTable, Sound
  <2>3. QED BY <1>1, <1>3, <2>1, <2>2 DEF ClearTable
<1>6. ASSUME NEW p \in Ports, FlushPort(p)
      PROVE  DatabaseInv' /\ out' = NoOutput
  <2>1. FewerEntries(tables', tables)
    BY <1>6 DEF FlushPort, FewerEntries
  <2>3. Sound(tables', lastHeard)
    BY <1>1, <2>1, SoundSubset
  <2>4. QED BY <1>1, <1>3, <1>6, <2>3 DEF FlushPort
<1>7. ASSUME NEW p \in Ports, NEW q \in Ports, CopyTable(p, q)
      PROVE  DatabaseInv' /\ out' = NoOutput
  <2>1. lastHeard' \in [Vids -> [Addrs -> Ports \cup {NoPort}]]
    BY <1>1, <1>7 DEF CopyTable
  <2>2. ASSUME NEW v \in Vids, tables'[v] # NoTable
        PROVE  SoundTable(tables'[v], v, lastHeard')
    <3>1. tables[v] # NoTable
      BY <1>7, <2>2 DEF CopyTable
    <3>2. tables'[v] = [a \in DOMAIN tables[v] |->
                          IF tables[v][a].port = p
                          THEN [tables[v][a] EXCEPT !.port = q] ELSE tables[v][a]]
      BY <1>7, <3>1 DEF CopyTable
    <3>3. tables'[v] \in [DOMAIN tables[v] -> Entries]
      BY <1>2, <3>1, <3>2 DEF Entries
    <3>4. ASSUME NEW a \in DOMAIN tables[v]
          PROVE  tables'[v][a].vid = v /\ tables'[v][a].port = lastHeard'[v][a]
      <4>1. lastHeard'[v][a] = IF lastHeard[v][a] = p THEN q ELSE lastHeard[v][a]
        BY <1>2, <1>7, <3>1 DEF CopyTable
      <4>2. tables[v][a].vid = v /\ tables[v][a].port = lastHeard[v][a]
            /\ tables[v][a] \in Entries
        BY <1>2, <3>1
      <4>3. QED BY <3>2, <4>1, <4>2 DEF Entries
    <3>5. QED BY <1>2, <3>1, <3>3, <3>4 DEF SoundTable
  <2>3. tables' = [v \in Vids |-> tables'[v]]
    BY <1>7 DEF CopyTable
  <2>4. Sound(tables', lastHeard')
    BY <2>2, <2>3, SoundByTable
  <2>5. QED BY <1>1, <1>3, <1>7, <2>1, <2>4 DEF CopyTable
<1>8. ASSUME NEW t \in AgingTimes, SetAgingTime(t)
      PROVE  DatabaseInv' /\ out' = NoOutput
  BY <1>1, <1>3, <1>8 DEF SetAgingTime
<1>9. CASE Tick
  <2>1. ASSUME NEW v \in Vids, tables'[v] # NoTable
        PROVE  SoundTable(tables'[v], v, lastHeard)
    <3>1. tables[v] # NoTable
      BY <1>9, <2>1 DEF Tick
    <3>2. tables'[v] = [a \in DOMAIN tables[v] |->
                          [tables[v][a] EXCEPT !.age = Older(@, MaxAge)]]
      BY <1>9, <3>1 DEF Tick
    <3>3. \A n \in 0 .. MaxAge : Older(n, MaxAge) \in 0 .. MaxAge
      BY <1>0 DEF Older
    <3>4. ASSUME NEW a \in DOMAIN tables[v]
          PROVE  /\ tables'[v][a] \in Entries
                 /\ tables'[v][a].vid = v /\ tables'[v][a].port = lastHeard[v][a]
      <4>1. tables[v][a].vid = v /\ tables[v][a].port = lastHeard[v][a]
            /\ tables[v][a] \in Entries
        BY <1>2, <3>1
      <4>2. tables'[v][a] = [tables[v][a] EXCEPT !.age = Older(tables[v][a].age, MaxAge)]
        BY <3>2
      <4>3. QED BY <3>3, <4>1, <4>2 DEF Entries
    <3>5. QED BY <1>2, <3>1, <3>2, <3>4 DEF SoundTable
  <2>2. tables' = [v \in Vids |-> tables'[v]]
    BY <1>9 DEF Tick
  <2>3. Sound(tables', lastHeard)
    BY <2>1, <2>2, SoundByTable
  <2>4. sincePurge' \in 0 .. PurgePeriod
    BY <1>0, <1>1, <1>9 DEF Tick, Older
  <2>5. QED BY <1>1, <1>3, <1>9, <2>3, <2>4 DEF Tick
<1>10. QED BY <1>4, <1>5, <1>6, <1>7, <1>8, <1>9
             DEF DropWhenDown, Stop, Start, ClearTable, Tick

\* The file of static entries gives a sound database to start from.
LEMMA InitSound == Init => DatabaseInv /\ OutputInv
<1> SUFFICES ASSUME Init PROVE DatabaseInv /\ OutputInv
  OBVIOUS
<1>0. /\ MaxAge \in Nat /\ PurgePeriod \in Nat \ {0} /\ DefaultAging \in AgingTimes
      /\ Static \subseteq Vids \X Addrs \X Ports
  BY RelayAssumption DEF RelayAssumption
<1>1. ASSUME NEW v \in Vids
      PROVE  /\ DOMAIN StaticTable(v) \in SUBSET Addrs
             /\ StaticTable(v) \in [DOMAIN StaticTable(v) -> Entries]
             /\ \A a \in DOMAIN StaticTable(v) : StaticTable(v)[a].vid = v
  <2>1. ASSUME NEW a \in {s[2] : s \in {t \in Static : t[1] = v}}
        PROVE  /\ a \in Addrs
               /\ (CHOOSE s \in Static : s[1] = v /\ s[2] = a)[3] \in Ports
    <3>1. PICK s \in Static : s[1] = v /\ s[2] = a
      BY <2>1
    <3>2. (CHOOSE r \in Static : r[1] = v /\ r[2] = a) \in Static
      BY <3>1
    <3>3. QED BY <1>0, <3>1, <3>2
  <2>2. QED BY <1>0, <2>1 DEF StaticTable, Entries
<1>2. ASSUME NEW v \in Vids, tables[v] # NoTable
      PROVE  tables[v] = StaticTable(v)
  BY <1>2 DEF Init
<1>3. ASSUME NEW v \in Vids, tables[v] # NoTable
      PROVE  SoundTable(tables[v], v, lastHeard)
  <2>1. tables[v] = StaticTable(v)
    BY <1>2, <1>3
  <2>2. \A a \in DOMAIN StaticTable(v) : lastHeard[v][a] = StaticTable(v)[a].port
    BY <1>1 DEF Init
  <2>3. QED BY <1>1, <2>1, <2>2 DEF SoundTable
<1>4. tables = [v \in Vids |-> tables[v]]
  BY DEF Init
<1>5. Sound(tables, lastHeard)
  BY <1>3, <1>4, SoundByTable
<1>6. lastHeard \in [Vids -> [Addrs -> Ports \cup {NoPort}]]
  <2>1. ASSUME NEW v \in Vids, NEW a \in DOMAIN StaticTable(v)
        PROVE  StaticTable(v)[a].port \in Ports
    BY <1>1, <2>1 DEF Entries
  <2>2. QED BY <2>1 DEF Init
<1>7. QED BY <1>0, <1>5, <1>6, DatabaseSound
          DEF Init, OutputInv, PortListInitialized, ForwardedToFreshPort,
              FloodReachesMembers

(***************************************************************************)
(* The database is truthful and every frame leaves by the ports the         *)
(* database names, whatever the topology and the calls.                     *)
(***************************************************************************)
THEOREM RelayInvariant == Spec => [](DatabaseInv /\ OutputInv)
<1>1. ASSUME DatabaseInv /\ OutputInv, [Next]_vars
      PROVE  (DatabaseInv /\ OutputInv)'
  <2>1. ASSUME NEW p \in Ports, NEW s \in Addrs, NEW w \in Vids, NEW d,
               Dispatch(p, s, d, w)
        PROVE  (DatabaseInv /\ OutputInv)'
    BY <1>1, <2>1, DispatchPreserves
  <2>2. CASE \/ DropWhenDown \/ Stop \/ Start
             \/ \E p \in Ports : FlushPort(p)
             \/ \E p, q \in Ports : CopyTable(p, q)
             \/ \E t \in AgingTimes : SetAgingTime(t)
             \/ Tick
    BY <1>1, <2>2, OthersPreserve
       DEF OutputInv, PortListInitialized, ForwardedToFreshPort, FloodReachesMembers
  <2>3. CASE UNCHANGED vars
    BY <1>1, <2>3
       DEF vars, DatabaseInv, TypeOK, EntriesFiledUnderVid, EntriesTruthful,
           OutputInv, PortListInitialized, ForwardedToFreshPort, FloodReachesMembers,
           FloodCopies, Known
  <2>4. QED BY <1>1, <2>1, <2>2, <2>3 DEF Next
<1>2. QED BY <1>1, InitSound, PTL DEF Spec

\* The tables are well-formed and truthful: each entry is filed under its
\* VLAN and names the port its address was last heard on.
THEOREM TablesTruthful == Spec => [](TypeOK /\ EntriesFiledUnderVid /\ EntriesTruthful)
<1>1. DatabaseInv => TypeOK /\ EntriesFiledUnderVid /\ EntriesTruthful
  BY DEF DatabaseInv
<1>2. QED BY <1>1, RelayInvariant, PTL

\* The tables, the frame and the clocks of the database keep their types,
\* through every insertion, purge, flush and copy of MACAddressTable.
THEOREM TypeCorrect == Spec => []TypeOK
<1>1. DatabaseInv => TypeOK
  BY DEF DatabaseInv
<1>2. QED BY <1>1, RelayInvariant, PTL

\* broadcastFrame never reads the number of ports that getPortForVid left
\* unset.
THEOREM PortListAlwaysInitialized == Spec => []PortListInitialized
<1>1. OutputInv => PortListInitialized
  BY DEF OutputInv
<1>2. QED BY <1>1, RelayInvariant, PTL

\* A frame for one port goes where its destination was last heard.
THEOREM ForwardingTruthful == Spec => []ForwardedToFreshPort
<1>1. OutputInv => ForwardedToFreshPort
  BY DEF OutputInv
<1>2. QED BY <1>1, RelayInvariant, PTL

\* A flooded frame reaches every other port with a known member.
THEOREM FloodingReaches == Spec => []FloodReachesMembers
<1>1. OutputInv => FloodReachesMembers
  BY DEF OutputInv
<1>2. QED BY <1>1, RelayInvariant, PTL

=============================================================================
