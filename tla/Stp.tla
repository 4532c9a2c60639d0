-------------------------------- MODULE Stp ---------------------------------
(***************************************************************************)
(* The Spanning Tree Protocol of the Ethernet switches                      *)
(* (inet/src/linklayer/ieee8021d/stp/STP.cc) on a network of bridges joined *)
(* by point-to-point links, with links that are cut and mended and bridges  *)
(* that stop, crash and start.                                              *)
(*                                                                          *)
(* A bridge is told by a number, the order of the bridge identifiers        *)
(* (priority, then address); a port by the bridge at the other end of its   *)
(* link.  With one link between two bridges the port identifiers of a BPDU  *)
(* never decide a comparison, so they are left out.  All links cost one,    *)
(* and all bridges have the same maxAge and forwardDelay.                   *)
(*                                                                          *)
(* Time is the tick of one second that every bridge schedules for itself.   *)
(* BPDUs take microseconds, so the messages a tick causes have all been     *)
(* handled when the next tick comes; between two ticks they are delivered   *)
(* in any order, but one link keeps theirs.  The bridges of a network are   *)
(* initialized together and tick together; a bridge is started at a whole   *)
(* second and ticks a second later.  STP::helloTime is the counter that     *)
(* hides STPBase::helloTime, and currentHelloTime is copied from it when it *)
(* is 0: the root sends its hellos at every tick.                           *)
(*                                                                          *)
(* Two bridges that take each other for the way to the root send a topology *)
(* change notification to and fro until one of them forgets, which takes    *)
(* seconds: after MaxReturns of these the next one is under way when the    *)
(* next tick comes.                                                         *)
(***************************************************************************)
EXTENDS Integers, SequencesExt

CONSTANTS
  Links,        \* the links, each a set of two bridges
  MaxAge,       \* parameter maxAge, in ticks
  ForwardDelay, \* parameter forwardDelay, in ticks
  Faults,       \* the commands of the scenario that happen
  MaxFaults,    \* bound: how many of them
  Skew,         \* bound: how many BPDUs one link may be behind another
  MaxReturns    \* bound: notifications sent back where they came from, per tick

Bridges  == UNION Links
Ports(b) == {n \in Bridges : {b, n} \in Links}
Directions == {d \in Bridges \X Bridges : {d[1], d[2]} \in Links}

ASSUME StpAssumption ==
  /\ IsFiniteSet(Links)
  /\ \A link \in Links : /\ link \subseteq Nat
                          /\ \E a, b \in link : a # b /\ link = {a, b}
  /\ MaxAge \in Nat \ {0} /\ ForwardDelay \in Nat \ {0} /\ MaxFaults \in Nat
  /\ Skew \in Nat /\ MaxReturns \in Nat
  /\ Faults \subseteq {"cut", "mend", "stop", "start"}

VARIABLES
  bridge,       \* the state of each STP module and of its ports' interface data
  chan,         \* BPDUs on their way, in order, for each direction of a link
  cut,          \* the links that are cut
  mended,       \* the links that were cut once and are no longer
  faults,       \* the commands so far
  returns,      \* notifications sent back where they came from since the tick
  late          \* the directions with one more of them, underway at the next tick

vars == <<bridge, chan, cut, mended, faults, returns, late>>

-----------------------------------------------------------------------------
(***************************************************************************)
(* Comparing BPDUs: lower root, then lower cost, then lower sender.         *)
(***************************************************************************)
Better(x, y) ==
  \/ x.root < y.root
  \/ x.root = y.root /\ x.cost < y.cost
  \/ x.root = y.root /\ x.cost = y.cost /\ x.bridge < y.bridge

\* initInterfacedata; fdWhile is left as it is.
InitPort(b, port) ==
  [role |-> "NOTASSIGNED", state |-> "DISCARDING", age |-> 0, fdWhile |-> port.fdWhile,
   info |-> [root |-> b, cost |-> 0, bridge |-> b]]

SetAllDesignated(r) ==
  [r EXCEPT !.port = [p \in DOMAIN @ |-> [@[p] EXCEPT !.role = "DESIGNATED"]]]

CheckRootEligibility(b, r) == \A p \in DOMAIN r.port : r.port[p].info.root >= b

\* selectRootPort: the port with the best information, the first of equals.
SelectRootPort(r) ==
  LET best == CHOOSE p \in DOMAIN r.port : \A q \in DOMAIN r.port :
                ~Better(r.port[q].info, r.port[p].info)
                  /\ (~Better(r.port[p].info, r.port[q].info) => p <= q)
  IN  [r EXCEPT !.notice = @ \/ best # r.rootPort,
                !.rootPort = best,
                !.root = r.port[best].info.root, !.cost = r.port[best].info.cost,
                !.port = [p \in DOMAIN @ |->
                           [@[p] EXCEPT !.role = IF p = best THEN "ROOT" ELSE "NOTASSIGNED"]]]

\* What a bridge makes its neighbours believe: bridgeGlobal of selectDesignatedPorts,
\* and what remains of a BPDU of b once the cost of the link is added to it.
Own(b, r) == [root |-> r.root, cost |-> r.cost + 1, bridge |-> b]

\* selectDesignatedPorts: where this bridge would tell its neighbour more than
\* the port has heard.
SelectDesignatedPorts(b, r) ==
  LET own == Own(b, r)
      Elected(port) == IF port.role = "ROOT" THEN "ROOT"
                    ELSE IF Better(own, port.info) THEN "DESIGNATED"
                    ELSE IF Better(port.info, own) THEN "ALTERNATE" ELSE port.role
  IN  [r EXCEPT !.port = [p \in DOMAIN @ |-> [@[p] EXCEPT !.role = Elected(r.port[p])]]]

TryRoot(b, r) ==
  IF CheckRootEligibility(b, r)
  THEN SetAllDesignated([r EXCEPT !.isRoot = TRUE, !.root = b, !.cost = 0])
  ELSE SelectDesignatedPorts(b, SelectRootPort([r EXCEPT !.isRoot = FALSE]))

\* initialize and start; what was left of the interface data is old.
StartBridge(b, up, old) ==
  SetAllDesignated(
    [up |-> up, isRoot |-> TRUE, rootPort |-> Min(Ports(b)), root |-> b, cost |-> 0,
     notice |-> up = "fresh", aging |-> "default",
     port |-> [p \in Ports(b) |-> InitPort(b, old[p])]])

Init ==
  /\ bridge = [b \in Bridges |->
       StartBridge(b, "up", [p \in Ports(b) |-> [fdWhile |-> 0]])]
  /\ chan = [d \in Directions |-> <<>>]
  /\ cut = {} /\ mended = {} /\ faults = 0 /\ returns = 0 /\ late = {}

-----------------------------------------------------------------------------
(***************************************************************************)
(* The handlers.  Each gives the new state of the bridge and what it sends. *)
(***************************************************************************)
PortsOf(r, role) == {p \in DOMAIN r.port : r.port[p].role = role}

\* generateBPDU
Config(b, r, tcFlag, tcaFlag) ==
  [type |-> "config", info |-> [root |-> r.root, cost |-> r.cost, bridge |-> b],
   tc |-> r.notice /\ (r.isRoot \/ tcFlag),
   tca |-> r.notice /\ ~(r.isRoot \/ tcFlag) /\ tcaFlag]

TCN == [type |-> "tcn"]

\* What a handler has done: the state r, and BPDUs m out of the ports in to.
Done(r, to, m) == [r |-> r, out |-> [p \in DOMAIN r.port |-> IF p \in to THEN <<m>> ELSE <<>>]]

\* A slip of setSuperiorBPDU: information that is repeated is not renewed.
RenewedOnce(r, p, heard) ==
  IF ~Better(heard, r.port[p].info) THEN r
  ELSE [r EXCEPT !.port[p] = [@ EXCEPT !.info = heard, !.age = 0, !.fdWhile = 0,
                                       !.state = "DISCARDING"]]

\* isSuperiorBPDU for a BPDU that is not inferior: better information makes
\* the port wait again, and either kind renews it.
Renewed(r, p, heard) ==
  LET port == r.port[p]
      new  == [port EXCEPT !.info = heard, !.age = 0]
  IN  [r EXCEPT !.port[p] = IF Better(heard, port.info)
                            THEN [new EXCEPT !.fdWhile = 0, !.state = "DISCARDING"]
                            ELSE new]

\* A BPDU is answered, or relayed from the root, with what the bridge knew
\* before it; only then are the roles chosen anew.
HandleBPDU(b, old, p, m) ==
  LET r     == [old EXCEPT !.notice = @ /\ ~m.tca]
      heard == [m.info EXCEPT !.cost = @ + 1]
      new   == Renewed(r, p, heard)
      told  == [new EXCEPT !.aging = IF m.tc THEN "short" ELSE "default"]
  IN  IF Better(r.port[p].info, heard)
      THEN Done(TryRoot(b, r), {p} \cap PortsOf(r, "DESIGNATED"), Config(b, r, FALSE, FALSE))
      ELSE IF r.port[p].role = "ROOT"
      THEN Done(TryRoot(b, told), PortsOf(r, "DESIGNATED"), Config(b, r, m.tc, FALSE))
      ELSE Done(TryRoot(b, new), {}, {})

\* A slip of handleTCN: the notification is not passed on.
HandleTCNHere(b, old, p) ==
  Done([old EXCEPT !.notice = old.isRoot], {p}, Config(b, old, FALSE, TRUE))

\* handleTCN: acknowledge, and pass on towards the root.
HandleTCN(b, old, p) ==
  LET r   == [old EXCEPT !.notice = TRUE]
      ack == Done(r, {p}, Config(b, r, FALSE, TRUE))
  IN  IF r.isRoot THEN ack ELSE [ack EXCEPT !.out[r.rootPort] = Append(@, TCN)]

\* handleTick, the counters.
Aged(port) ==
  [port EXCEPT !.age = IF port.role # "DESIGNATED" THEN @ + 1 ELSE @,
               !.fdWhile = IF port.role \in {"ROOT", "DESIGNATED"} THEN @ + 1 ELSE @]
Counted(r) == [r EXCEPT !.port = [p \in DOMAIN @ |-> Aged(@[p])]]

\* Slips of checkTimers: > for >=, and a lost root that is not replaced.
ExpireLate(b, r, p) ==
  IF r.port[p].age <= MaxAge THEN r
  ELSE TryRoot(b, [r EXCEPT !.port[p] = InitPort(b, @), !.notice = TRUE])
ExpireOnly(b, r, p) ==
  IF r.port[p].age < MaxAge THEN r
  ELSE SelectDesignatedPorts(b, [r EXCEPT !.port[p] = InitPort(b, @), !.notice = TRUE])

\* checkTimers: the information of a port has reached its maximum age.
Expire(b, r, p) ==
  IF r.port[p].age < MaxAge THEN r
  ELSE LET lost == [r EXCEPT !.port[p] = InitPort(b, @), !.notice = TRUE]
       IN  IF r.port[p].role = "ROOT" THEN TryRoot(b, lost) ELSE SelectDesignatedPorts(b, lost)

\* checkTimers: a port that may forward takes the next state when its time has come.
Advance(port) ==
  IF port.role \notin {"ROOT", "DESIGNATED"}
  THEN [port EXCEPT !.fdWhile = 0, !.state = "DISCARDING"]
  ELSE IF port.fdWhile < ForwardDelay THEN port
  ELSE [port EXCEPT !.fdWhile = 0,
                    !.state = IF @ = "DISCARDING" THEN "LEARNING" ELSE "FORWARDING"]

\* checkTimers, the loop over the ports in the order of their numbers.
ExpirePorts(b, r) ==
  LET after[n \in 0..Max(Ports(b))] ==
        LET before == IF n = 0 THEN r ELSE after[n - 1]
        IN  IF n \in Ports(b) THEN Expire(b, before, n) ELSE before
  IN  after[Max(Ports(b))]

HandleTick(b, old) ==
  LET counted == Counted(old)
      expired == ExpirePorts(b, counted)
      r       == [expired EXCEPT !.port = [p \in DOMAIN @ |-> Advance(@[p])]]
  IN  IF old.isRoot THEN Done(r, DOMAIN r.port, Config(b, counted, FALSE, FALSE))
      ELSE IF r.notice /\ r.port[r.rootPort].role = "ROOT"
      THEN Done([r EXCEPT !.notice = FALSE], {r.rootPort}, TCN)
      ELSE Done(r, {}, {})

-----------------------------------------------------------------------------
(***************************************************************************)
(* Actions.                                                                 *)
(***************************************************************************)
Up(b) == bridge[b].up # "down"
Carries(a, b) == {a, b} \in Links \ cut /\ Up(a) /\ Up(b)
Quiet == \A d \in Directions : chan[d] = <<>>

Ready(d) == chan[d] # <<>> /\ \A e \in Directions : Len(chan[e]) <= Len(chan[d]) + Skew

\* What b sends is lost where the link does not carry it.
Sent(b, c, out) == IF Carries(b, c) THEN out[c] ELSE <<>>

\* A BPDU arrives.  A notification may be sent back to the bridge that sent it,
\* again and again: after MaxReturns of them the next is late.
Deliver(a, b) ==
  /\ Ready(<<a, b>>)
  /\ LET m    == Head(chan[<<a, b>>])
         done == IF m = TCN THEN HandleTCN(b, bridge[b], a)
                            ELSE HandleBPDU(b, bridge[b], a, m)
         back == m = TCN /\ Carries(b, a) /\ TCN \in ToSet(done.out[a])
         out  == IF back /\ returns = MaxReturns
                 THEN [done.out EXCEPT ![a] = Front(@)] ELSE done.out
     IN  /\ bridge' = [bridge EXCEPT ![b] = done.r]
         /\ chan' = [d \in Directions |->
              IF d = <<a, b>> THEN Tail(chan[d])
              ELSE IF d[1] = b THEN chan[d] \o Sent(b, d[2], out) ELSE chan[d]]
         /\ returns' = IF back THEN Min({returns + 1, MaxReturns}) ELSE returns
         /\ late' = IF back /\ returns = MaxReturns THEN late \cup {<<b, a>>} ELSE late
  /\ UNCHANGED <<cut, mended, faults>>

\* The ticks of one instant.
Tick ==
  /\ Quiet
  /\ LET done == [b \in Bridges |-> IF bridge[b].up = "up" THEN HandleTick(b, bridge[b])
                                    ELSE Done(bridge[b], {}, {})]
     IN  /\ bridge' = [b \in Bridges |->
              [done[b].r EXCEPT !.up = IF @ = "fresh" THEN "up" ELSE @]]
         /\ chan' = [d \in Directions |->
              (IF d \in late THEN <<TCN>> ELSE <<>>) \o Sent(d[1], d[2], done[d[1]].out)]
  /\ returns' = 0 /\ late' = {}
  /\ UNCHANGED <<cut, mended, faults>>

Fault(f) == Quiet /\ f \in Faults /\ faults < MaxFaults /\ faults' = faults + 1

Cut(link) ==
  /\ Fault("cut") /\ link \notin cut
  /\ cut' = cut \cup {link} /\ mended' = mended \ {link}
  /\ late' = {d \in late : {d[1], d[2]} # link}
  /\ UNCHANGED <<bridge, chan, returns>>

Mend(link) ==
  /\ Fault("mend") /\ link \in cut
  /\ cut' = cut \ {link} /\ mended' = mended \cup {link}
  /\ UNCHANGED <<bridge, chan, returns, late>>

\* Shutdown or crash: the tick is cancelled, what arrives is dropped.
Stop(b) ==
  /\ Fault("stop") /\ Up(b)
  /\ bridge' = [bridge EXCEPT ![b] = [@ EXCEPT !.up = "down", !.isRoot = FALSE, !.notice = TRUE]]
  /\ late' = {d \in late : b \notin {d[1], d[2]}}
  /\ UNCHANGED <<chan, cut, mended, returns>>

\* A slip of start: the ports are not initialized.
StartOld(b) ==
  /\ Fault("start") /\ ~Up(b)
  /\ bridge' = [bridge EXCEPT ![b] = [StartBridge(b, "fresh", @.port) EXCEPT !.port = bridge[b].port]]
  /\ UNCHANGED <<chan, cut, mended, returns, late>>

Start(b) ==
  /\ Fault("start") /\ ~Up(b)
  /\ bridge' = [bridge EXCEPT ![b] = StartBridge(b, "fresh", @.port)]
  /\ UNCHANGED <<chan, cut, mended, returns, late>>

Next ==
  \/ \E d \in Directions : Deliver(d[1], d[2])
  \/ Tick
  \/ \E link \in Links : Cut(link) \/ Mend(link)
  \/ \E b \in Bridges : Stop(b) \/ Start(b)

Spec == Init /\ [][Next]_vars

\* The simulation kernel delivers every message and every tick: weak fairness of
\* Tick and of each Deliver(a, b), with Quiet and Ready for ENABLED.
FairSpec ==
  /\ Spec
  /\ []<>~Quiet \/ []<><<Tick>>_vars
  /\ \A d \in Directions : []<>~Ready(d) \/ []<><<Deliver(d[1], d[2])>>_vars

-----------------------------------------------------------------------------
(***************************************************************************)
(* Properties.                                                              *)
(***************************************************************************)
Role == {"ROOT", "DESIGNATED", "ALTERNATE"}

\* Types; the information of a port is forgotten the instant its age is maxAge.
TypeOK ==
  /\ \A b \in Bridges :
       LET r == bridge[b] IN
       /\ r.up \in {"up", "fresh", "down"} /\ r.rootPort \in Ports(b)
       /\ r.root \in Bridges /\ r.root <= b /\ r.cost \in Nat
       /\ {r.isRoot, r.notice} \subseteq BOOLEAN /\ r.aging \in {"default", "short"}
       /\ \A p \in Ports(b) :
            /\ r.port[p].role \in Role
            /\ r.port[p].state \in {"DISCARDING", "LEARNING", "FORWARDING"}
            /\ r.port[p].age \in 0..MaxAge - 1 /\ r.port[p].fdWhile \in 0..ForwardDelay
            /\ r.port[p].info.root \in Bridges
  /\ \A d \in Directions : \A i \in DOMAIN chan[d] : chan[d][i].type \in {"config", "tcn"}
  /\ cut \subseteq Links /\ mended \subseteq Links /\ late \subseteq Directions
  /\ faults \in 0..MaxFaults /\ returns \in 0..MaxReturns

\* The links frames are relayed over.
Forwarding ==
  {link \in Links \ cut : \A a, b \in link : a # b =>
     Up(a) /\ bridge[a].port[b].state = "FORWARDING"}

NoRing(links) ==
  \A ring \in (SUBSET links) \ {{}} :
    \E b \in Bridges : Cardinality({link \in ring : b \in link}) = 1

\* No frame can go round in a circle, whatever was cut, stopped and started and
\* however the BPDUs came, as long as no link comes back: a port keeps its state
\* when its link is cut, and a mended link may close a ring (STP subscribes to
\* NF_INTERFACE_STATE_CHANGED and does nothing about it).
LoopFree == NoRing(Forwarding \ mended)

\* No worse root, and no longer way to the same one.
NotWorse(old, new) ==
  \/ new.root < old.root
  \/ new.root = old.root /\ new.cost <= old.cost

\* The information a bridge has its root from will be maxAge old at the next tick.
RootIsOld(b) ==
  ~bridge[b].isRoot /\ bridge[b].port[bridge[b].rootPort].age = MaxAge - 1

\* An active bridge turns to a worse root or to a longer way only at a tick, when
\* the information about its root is too old.
OnlyAgeWorsens ==
  \A b \in Bridges : Up(b) /\ ~NotWorse(bridge[b], bridge'[b]) => Tick /\ RootIsOld(b)

\* While nothing has failed, no bridge does: the hellos, relayed from bridge to
\* bridge, come before anything is too old.
OnlyImproves ==
  [][OnlyAgeWorsens /\ (faults' = 0 => \A b \in Bridges : NotWorse(bridge[b], bridge'[b]))]_vars

\* The bridges that b can reach over links: those in every set that no link leaves.
Component(b, links) ==
  {c \in Bridges : \A S \in SUBSET Bridges :
     b \in S /\ (\A link \in links : link \cap S # {} => link \subseteq S) => c \in S}

\* The bridges that can reach each other agree on the lowest as their root, and
\* the forwarding links join them without a ring.
SpanningTree ==
  /\ NoRing(Forwarding)
  /\ \A b \in {c \in Bridges : Up(c)} :
       LET component == Component(b, {link \in Links \ cut : \A c \in link : Up(c)}) IN
       /\ Component(b, Forwarding) = component
       /\ bridge[b].root = Min(component)

\* Nothing is left to be told or to be waited for: a port has heard what the bridge
\* at the other end says, or is the one that speaks, and frames pass where they may.
Settled ==
  \A d \in Directions : LET a == d[1]  b == d[2]  port == bridge[b].port[a] IN
    Up(b) =>
      /\ IF Carries(a, b) /\ bridge[a].port[b].role = "DESIGNATED"
         THEN port.info = Own(a, bridge[a]) ELSE port.role = "DESIGNATED"
      /\ (port.state = "FORWARDING") = (port.role \in {"ROOT", "DESIGNATED"})

\* What a bridge says of itself in its BPDUs.
Claim(b) == [root |-> bridge[b].root, cost |-> bridge[b].cost, bridge |-> b]

\* The hello of this second has come from a to b, is on its way, or is yet to reach a.
HelloComes(a, b) ==
  \/ bridge[b].port[a].age = 0 \/ \E m \in ToSet(chan[<<a, b>>]) : m # TCN
  \/ ~bridge[a].isRoot /\ bridge[a].port[bridge[a].rootPort].age # 0

\* The BPDUs on their way from a to b tell nothing new, and if b must hear a
\* every second it will.
NothingNew(a, b) ==
  LET role == bridge[a].port[b].role IN
  /\ \A m \in ToSet(chan[<<a, b>>]) :
       IF m = TCN THEN role = "ROOT" ELSE role = "DESIGNATED" /\ m.info = Claim(a)
  /\ Carries(a, b) /\ role = "DESIGNATED" => HelloComes(a, b)

\* Settled, and nothing is under way that could change it.
Steady ==
  /\ Settled /\ late = {} /\ \A b \in Bridges : bridge[b].up # "fresh"
  /\ \A d \in Directions : NothingNew(d[1], d[2])

\* After the last failure the tree is built anew and stays, unless notifications
\* go to and fro: these bring information about a root that is gone back again.
Heals == [](returns = 0) => <>[](Steady /\ SpanningTree)

\* A change of the topology is made known to a root, unless something else fails.
Reported ==
  \A b \in Bridges, n \in 0..MaxFaults :
    Up(b) /\ bridge[b].notice /\ faults = n
      ~> faults # n \/ \E c \in Bridges : Up(c) /\ bridge[c].isRoot /\ bridge[c].notice

=============================================================================
