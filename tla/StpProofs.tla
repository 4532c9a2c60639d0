----------------------------- MODULE StpProofs ------------------------------
(***************************************************************************)
(* Theorems about the spanning tree protocol, for every network of bridges, *)
(* every maxAge and forwardDelay, and any number of links cut and mended    *)
(* and of bridges stopped and started, with the BPDUs of a second in any    *)
(* order:                                                                   *)
(*   - the types, and that no port is left without a role;                  *)
(*   - at all times the roles are those the information calls for;          *)
(*   - only age makes a bridge turn to a worse root;                        *)
(*   - where the information is up to date there is a spanning tree;        *)
(*   - what is steady stays so until something fails.                       *)
(***************************************************************************)
EXTENDS Stp, FiniteSetTheorems, SequenceTheorems, WellFoundedInduction, TLAPS

-----------------------------------------------------------------------------
(***************************************************************************)
(* Numbers and the network.  Induction is by least counterexample.          *)
(***************************************************************************)

\* A nonempty set of natural numbers has a least element.
LEMMA LeastNatural ==
  ASSUME NEW T, T \subseteq Nat, T # {}
  PROVE  \E x \in T : \A y \in T : x <= y
<1>1. PICK x \in T : \A y \in T : <<y, x>> \notin OpToRel(<, Nat)
  BY NatLessThanWellFounded, WFMin
<1>2. \A y \in T : ~(y < x)
  BY <1>1 DEF OpToRel
<1>. QED BY <1>2

\* The same of the values of a function on a nonempty set.
LEMMA LeastBy ==
  ASSUME NEW f, NEW S, S # {}, \A x \in S : f[x] \in Nat
  PROVE  \E x \in S : \A y \in S : f[x] <= f[y]
<1> DEFINE T == {f[x] : x \in S}
<1>1. T \subseteq Nat /\ T # {}
  OBVIOUS
<1>2. PICK m \in T : \A n \in T : m <= n
  <2>. HIDE DEF T
  <2>. QED BY <1>1, LeastNatural
<1>. QED BY <1>2

\* A finite nonempty set of natural numbers has a greatest element: a smallest set
\* without one could lose any of its elements and still have none.
LEMMA GreatestNatural ==
  ASSUME NEW T, T \subseteq Nat, T # {}, IsFiniteSet(T)
  PROVE  \E x \in T : \A y \in T : y <= x
<1> DEFINE Topless(S) == IsFiniteSet(S) /\ S # {} /\ \A x \in S : \E y \in S : x < y
           Sizes == {n \in Nat : \E S \in SUBSET Nat : Topless(S) /\ Cardinality(S) = n}
<1>1. SUFFICES ASSUME Topless(T) PROVE FALSE
  OBVIOUS
<1>2. Sizes \subseteq Nat /\ Sizes # {}
  BY <1>1, FS_CardinalityType
<1>3. PICK n \in Sizes : \A m \in Sizes : n <= m
  <2>. HIDE DEF Sizes
  <2>. QED BY <1>2, LeastNatural
<1>4. PICK S \in SUBSET Nat : Topless(S) /\ Cardinality(S) = n
  BY <1>3
<1>5. PICK x \in S : TRUE
  BY <1>4
<1>6. IsFiniteSet(S \ {x}) /\ Cardinality(S \ {x}) = n - 1 /\ n - 1 \in Nat
  <2>1. IsFiniteSet(S) /\ IsFiniteSet(S \ {x}) /\ Cardinality(S \ {x}) = Cardinality(S) - 1
    BY <1>4, <1>5, FS_RemoveElement
  <2>2. Cardinality(S \ {x}) \in Nat
    BY <2>1, FS_CardinalityType
  <2>. QED BY <1>4, <2>1, <2>2
<1>7. ~Topless(S \ {x})
  BY <1>3, <1>6
<1>8. PICK y \in S : x < y
  BY <1>4
<1>9. PICK z \in S \ {x} : \A w \in S \ {x} : ~(z < w)
  BY <1>4, <1>6, <1>7, <1>8
<1>. QED
  <2>1. \A w \in S \ {x} : w <= z
    BY <1>9
  <2>2. x < z
    BY <1>8, <2>1
  <2>. QED BY <1>4, <1>9, <2>2

\* The same of the values of a function on a finite nonempty set.
LEMMA GreatestBy ==
  ASSUME NEW f, NEW S, S # {}, IsFiniteSet(S), \A x \in S : f[x] \in Nat
  PROVE  \E x \in S : \A y \in S : f[y] <= f[x]
<1> DEFINE T == {f[x] : x \in S}
<1>1. T \subseteq Nat /\ T # {}
  OBVIOUS
<1>2. IsFiniteSet(T)
  <2> DEFINE g == [x \in S |-> f[x]]
  <2>1. g \in Surjection(S, T)
    BY DEF Surjection
  <2>. QED BY <2>1, FS_Surjection
<1>3. PICK m \in T : \A n \in T : n <= m
  <2>. HIDE DEF T
  <2>. QED BY <1>1, <1>2, GreatestNatural
<1>. QED BY <1>3

\* Bridges are finitely many numbers, each with a port to another bridge, which has
\* the port at the other end; a direction is a bridge and one of its ports.
LEMMA Network ==
  /\ Bridges \subseteq Nat /\ IsFiniteSet(Bridges)
  /\ \A b \in Bridges :
       /\ Ports(b) \subseteq Bridges /\ Ports(b) # {} /\ b \notin Ports(b)
       /\ \A p \in Ports(b) : b \in Ports(p)
  /\ \A a, b : <<a, b>> \in Directions <=> a \in Bridges /\ b \in Ports(a)
<1>1. Bridges \subseteq Nat
  BY StpAssumption DEF Bridges
<1>2. ASSUME NEW link \in Links PROVE IsFiniteSet(link)
  <2>1. PICK a \in link, b \in link : link = {a, b}
    BY StpAssumption
  <2>2. link = {a} \cup {b}
    BY <2>1
  <2>. QED BY <2>2, FS_Singleton, FS_AddElement
<1>3. IsFiniteSet(Bridges)
  BY <1>2, StpAssumption, FS_UNION DEF Bridges
<1>4. ASSUME NEW b \in Bridges
      PROVE  /\ Ports(b) \subseteq Bridges /\ Ports(b) # {} /\ b \notin Ports(b)
             /\ \A p \in Ports(b) : b \in Ports(p)
  <2>1. PICK link \in Links : b \in link
    BY DEF Bridges
  <2>2. \E c \in Bridges : link = {b, c}
    BY <2>1, StpAssumption DEF Bridges
  <2>3. {b, b} \notin Links
    BY StpAssumption
  <2>4. \A p : {p, b} = {b, p}
    OBVIOUS
  <2>. QED BY <2>2, <2>3, <2>4 DEF Ports
<1>5. \A a, b : <<a, b>> \in Directions <=> a \in Bridges /\ b \in Ports(a)
  BY DEF Directions, Ports
<1>. QED BY <1>1, <1>3, <1>4, <1>5

-----------------------------------------------------------------------------
(***************************************************************************)
(* What the functions that choose the roles do.  A port knows what its own  *)
(* bridge claims or what came over its link; that, kept by every handler,   *)
(* is why selectDesignatedPorts always decides.                             *)
(***************************************************************************)

\* The interface data of a port, and the data of a bridge, also between two loops of
\* a handler.
PortData ==
  [role : Role \cup {"NOTASSIGNED"}, state : {"DISCARDING", "LEARNING", "FORWARDING"},
   age : Nat, fdWhile : Nat, info : [root : Bridges, cost : Nat, bridge : Bridges]]

BridgeData(b) ==
  [up : {"up", "fresh", "down"}, isRoot : BOOLEAN, rootPort : Ports(b), root : Bridges,
   cost : Nat, notice : BOOLEAN, aging : {"default", "short"}, port : [Ports(b) -> PortData]]

\* What a port knows is its own bridge's claim, or came over its link.
Heard(b, p, info) ==
  \/ info = [root |-> b, cost |-> 0, bridge |-> b]
  \/ info.cost > 0 /\ info.bridge = p

\* The data have their types and come from where they can come from.
Valid(b, r) == r \in BridgeData(b) /\ \A p \in Ports(b) : Heard(b, p, r.port[p].info)

\* The roles of the ports are those their information calls for.
RolesOf(b, r) ==
  IF r.isRoot
  THEN /\ r.root = b /\ r.cost = 0
       /\ \A p \in Ports(b) : r.port[p].info.root >= b /\ r.port[p].role = "DESIGNATED"
  ELSE LET heard == r.port[r.rootPort].info IN
       /\ r.root < b /\ r.root = heard.root /\ r.cost = heard.cost
       /\ \A p \in Ports(b) :
            /\ ~Better(r.port[p].info, heard)
            /\ r.port[p].role = IF p = r.rootPort THEN "ROOT"
                  ELSE IF Better(Own(b, r), r.port[p].info) THEN "DESIGNATED" ELSE "ALTERNATE"

\* Two states of a bridge with the same port data but for the roles.
SamePorts(b, r, t) ==
  /\ t.up = r.up /\ t.aging = r.aging
  /\ \A p \in Ports(b) : /\ t.port[p].age = r.port[p].age /\ t.port[p].info = r.port[p].info
                         /\ t.port[p].state = r.port[p].state
                         /\ t.port[p].fdWhile = r.port[p].fdWhile

\* One port has the best information and the lowest number among equals: the search
\* of selectRootPort has a result.
LEMMA BestPort ==
  ASSUME NEW b \in Bridges, NEW r \in BridgeData(b)
  PROVE  \E p \in Ports(b) : \A q \in Ports(b) :
           /\ ~Better(r.port[q].info, r.port[p].info)
           /\ ~Better(r.port[p].info, r.port[q].info) => p <= q
<1> DEFINE info(p) == r.port[p].info
<1>1. \A p \in Ports(b) : info(p) \in [root : Nat, cost : Nat, bridge : Nat]
  BY Network DEF BridgeData, PortData
<1>2. PICK x \in Ports(b) : \A q \in Ports(b) : info(x).root <= info(q).root
  <2> DEFINE f == [p \in Ports(b) |-> info(p).root]
  <2>1. PICK x \in Ports(b) : \A q \in Ports(b) : f[x] <= f[q]
    BY <1>1, Network, LeastBy
  <2>. QED BY <2>1
<1> DEFINE Lowest == {p \in Ports(b) : info(p).root = info(x).root}
<1>3. PICK y \in Lowest : \A q \in Lowest : info(y).cost <= info(q).cost
  <2> DEFINE f == [p \in Ports(b) |-> info(p).cost]
  <2>1. x \in Lowest /\ \A p \in Lowest : f[p] \in Nat
    BY <1>1
  <2>2. PICK y \in Lowest : \A q \in Lowest : f[y] <= f[q]
    BY <2>1, LeastBy
  <2>. QED BY <2>2
<1> DEFINE Nearest == {p \in Lowest : info(p).cost = info(y).cost}
<1>4. PICK z \in Nearest : \A q \in Nearest : info(z).bridge <= info(q).bridge
  <2> DEFINE f == [p \in Ports(b) |-> info(p).bridge]
  <2>1. y \in Nearest /\ \A p \in Nearest : f[p] \in Nat
    BY <1>1
  <2>2. PICK z \in Nearest : \A q \in Nearest : f[z] <= f[q]
    BY <2>1, LeastBy
  <2>. QED BY <2>2
<1> DEFINE Equal == {p \in Nearest : info(p).bridge = info(z).bridge}
<1>5. PICK p \in Equal : \A q \in Equal : p <= q
  <2>1. z \in Equal /\ Equal \subseteq Nat
    BY Network
  <2>. QED
    <3>. HIDE DEF Equal
    <3>. QED BY <2>1, LeastNatural
<1>6. ASSUME NEW q \in Ports(b)
      PROVE  /\ ~Better(info(q), info(p))
             /\ ~Better(info(p), info(q)) => p <= q
  <2>1. /\ info(p).root = info(x).root /\ info(p).cost = info(y).cost
        /\ info(p).bridge = info(z).bridge /\ p \in Ports(b)
    BY <1>5
  <2>2. info(p).root <= info(q).root
    BY <1>2, <2>1
  <2>3. info(q).root = info(p).root => q \in Lowest /\ info(p).cost <= info(q).cost
    BY <1>3, <2>1
  <2>4. info(q).root = info(p).root /\ info(q).cost = info(p).cost
          => q \in Nearest /\ info(p).bridge <= info(q).bridge
    BY <1>4, <2>1, <2>3
  <2>5. info(q).root = info(p).root /\ info(q).cost = info(p).cost
          /\ info(q).bridge = info(p).bridge => p <= q
    BY <1>5, <2>1, <2>4
  <2>6. /\ info(p) \in [root : Nat, cost : Nat, bridge : Nat]
        /\ info(q) \in [root : Nat, cost : Nat, bridge : Nat]
    BY <1>1, <2>1
  <2>. HIDE DEF info
  <2>. QED BY <2>2, <2>3, <2>4, <2>5, <2>6 DEF Better
<1>. QED BY <1>6

\* selectRootPort makes the port that has heard the best the root port, takes the root
\* and the cost from it and changes nothing else of the ports than their roles.
LEMMA SelectRootPortChooses ==
  ASSUME NEW b \in Bridges, NEW r, Valid(b, r)
  PROVE  LET t == SelectRootPort(r) IN
         /\ Valid(b, t) /\ SamePorts(b, r, t) /\ t.isRoot = r.isRoot
         /\ t.root = t.port[t.rootPort].info.root /\ t.cost = t.port[t.rootPort].info.cost
         /\ \A p \in Ports(b) :
              /\ ~Better(t.port[p].info, t.port[t.rootPort].info)
              /\ t.port[p].role = IF p = t.rootPort THEN "ROOT" ELSE "NOTASSIGNED"
<1> DEFINE best == CHOOSE p \in Ports(b) : \A q \in Ports(b) :
                     ~Better(r.port[q].info, r.port[p].info)
                       /\ (~Better(r.port[p].info, r.port[q].info) => p <= q)
           t == SelectRootPort(r)
<1>1. r \in BridgeData(b) /\ DOMAIN r.port = Ports(b)
  BY DEF Valid, BridgeData
<1>2. best \in Ports(b) /\ \A q \in Ports(b) : ~Better(r.port[q].info, r.port[best].info)
  <2>. HIDE DEF best
  <2>. QED BY <1>1, BestPort DEF best
<1>3. t = [r EXCEPT !.notice = @ \/ best # r.rootPort, !.rootPort = best,
                    !.root = r.port[best].info.root, !.cost = r.port[best].info.cost,
                    !.port = [p \in Ports(b) |->
                      [r.port[p] EXCEPT !.role = IF p = best THEN "ROOT" ELSE "NOTASSIGNED"]]]
  BY <1>1 DEF SelectRootPort
<1>. HIDE DEF best, t
<1>4. t \in BridgeData(b)
  <2>1. [p \in Ports(b) |-> [r.port[p] EXCEPT !.role = IF p = best THEN "ROOT" ELSE "NOTASSIGNED"]]
        \in [Ports(b) -> PortData]
    BY <1>1 DEF BridgeData, PortData, Role
  <2>2. r.port[best].info.root \in Bridges /\ r.port[best].info.cost \in Nat
    BY <1>1, <1>2 DEF BridgeData, PortData
  <2>3. (r.notice \/ best # r.rootPort) \in BOOLEAN
    OBVIOUS
  <2>. QED BY <1>1, <1>2, <1>3, <2>1, <2>2, <2>3 DEF BridgeData
<1>5. SamePorts(b, r, t) /\ t.isRoot = r.isRoot /\ t.rootPort = best
      /\ t.root = r.port[best].info.root /\ t.cost = r.port[best].info.cost
      /\ \A p \in Ports(b) : t.port[p].role = IF p = best THEN "ROOT" ELSE "NOTASSIGNED"
  BY <1>1, <1>2, <1>3 DEF BridgeData, PortData, SamePorts
<1>. QED BY <1>2, <1>4, <1>5 DEF Valid, SamePorts, t

\* selectDesignatedPorts decides every port that is not the root port: the information
\* a port has is its own or came over its link, so it never equals what this bridge
\* would say, and no port is left NOTASSIGNED.
LEMMA SelectDesignatedPortsChooses ==
  ASSUME NEW b \in Bridges, NEW r, Valid(b, r)
  PROVE  LET t == SelectDesignatedPorts(b, r) IN
         /\ Valid(b, t) /\ SamePorts(b, r, t)
         /\ t.isRoot = r.isRoot /\ t.rootPort = r.rootPort /\ t.root = r.root /\ t.cost = r.cost
         /\ t.notice = r.notice
         /\ \A p \in Ports(b) :
              t.port[p].role = IF r.port[p].role = "ROOT" THEN "ROOT"
                     ELSE IF Better(Own(b, r), r.port[p].info) THEN "DESIGNATED" ELSE "ALTERNATE"
<1> DEFINE Elected(port) ==
             IF port.role = "ROOT" THEN "ROOT"
             ELSE IF Better(Own(b, r), port.info) THEN "DESIGNATED"
             ELSE IF Better(port.info, Own(b, r)) THEN "ALTERNATE" ELSE port.role
           t == SelectDesignatedPorts(b, r)
<1>1. r \in BridgeData(b) /\ DOMAIN r.port = Ports(b)
  BY DEF Valid, BridgeData
<1>2. t = [r EXCEPT !.port = [p \in Ports(b) |-> [r.port[p] EXCEPT !.role = Elected(r.port[p])]]]
  BY <1>1 DEF SelectDesignatedPorts
<1>3. ASSUME NEW p \in Ports(b)
      PROVE  Better(Own(b, r), r.port[p].info) \/ Better(r.port[p].info, Own(b, r))
  <2>1. /\ r.port[p].info \in [root : Nat, cost : Nat, bridge : Nat]
        /\ r.root \in Nat /\ r.cost \in Nat /\ b \in Nat /\ p # b
    BY <1>1, Network DEF BridgeData, PortData
  <2>2. Heard(b, p, r.port[p].info)
    BY DEF Valid
  <2>. QED BY <2>1, <2>2 DEF Heard, Better, Own
<1>4. \A p \in Ports(b) : Elected(r.port[p]) =
        IF r.port[p].role = "ROOT" THEN "ROOT"
        ELSE IF Better(Own(b, r), r.port[p].info) THEN "DESIGNATED" ELSE "ALTERNATE"
  BY <1>3
<1>. HIDE DEF Elected, t
<1>5. t \in BridgeData(b)
  <2>1. \A p \in Ports(b) : Elected(r.port[p]) \in Role
    BY <1>4 DEF Role
  <2>2. [p \in Ports(b) |-> [r.port[p] EXCEPT !.role = Elected(r.port[p])]] \in [Ports(b) -> PortData]
    BY <1>1, <2>1 DEF BridgeData, PortData
  <2>. QED BY <1>1, <1>2, <2>2 DEF BridgeData
<1>6. /\ SamePorts(b, r, t)
      /\ t.isRoot = r.isRoot /\ t.rootPort = r.rootPort /\ t.root = r.root /\ t.cost = r.cost
      /\ t.notice = r.notice
      /\ \A p \in Ports(b) : t.port[p].role = Elected(r.port[p])
  BY <1>1, <1>2 DEF BridgeData, PortData, SamePorts
<1>. QED BY <1>4, <1>5, <1>6 DEF Valid, SamePorts, t

\* tryRoot leaves the bridge with the roles its information calls for.
LEMMA TryRootChooses ==
  ASSUME NEW b \in Bridges, NEW r, Valid(b, r)
  PROVE  LET t == TryRoot(b, r) IN
         Valid(b, t) /\ SamePorts(b, r, t) /\ RolesOf(b, t)
<1> DEFINE t == TryRoot(b, r)
<1>1. r \in BridgeData(b) /\ DOMAIN r.port = Ports(b)
  BY DEF Valid, BridgeData
<1>2. CASE CheckRootEligibility(b, r)
  <2>1. t = [r EXCEPT !.isRoot = TRUE, !.root = b, !.cost = 0,
               !.port = [p \in Ports(b) |-> [r.port[p] EXCEPT !.role = "DESIGNATED"]]]
    BY <1>1, <1>2 DEF TryRoot, SetAllDesignated, BridgeData
  <2>2. [p \in Ports(b) |-> [r.port[p] EXCEPT !.role = "DESIGNATED"]] \in [Ports(b) -> PortData]
    BY <1>1 DEF BridgeData, PortData, Role
  <2>. HIDE DEF t
  <2>3. t \in BridgeData(b)
    <3> DEFINE ports == [p \in Ports(b) |-> [r.port[p] EXCEPT !.role = "DESIGNATED"]]
    <3>. HIDE DEF ports
    <3>1. t = [r EXCEPT !.isRoot = TRUE, !.root = b, !.cost = 0, !.port = ports]
      BY <2>1 DEF ports
    <3>2. ports \in [Ports(b) -> PortData]
      BY <2>2 DEF ports
    <3>. QED BY <1>1, <3>1, <3>2, b \in Bridges, 0 \in Nat, TRUE \in BOOLEAN DEF BridgeData
  <2>4. /\ SamePorts(b, r, t) /\ t.isRoot /\ t.root = b /\ t.cost = 0
        /\ \A p \in Ports(b) : t.port[p].role = "DESIGNATED"
    BY <1>1, <2>1 DEF BridgeData, PortData, SamePorts
  <2>5. \A p \in Ports(b) : t.port[p].info.root >= b
    BY <1>1, <1>2, <2>4 DEF CheckRootEligibility, SamePorts
  <2>6. Valid(b, t)
    BY <2>3, <2>4 DEF Valid, SamePorts
  <2>. QED BY <2>4, <2>5, <2>6 DEF RolesOf, t
<1>3. CASE ~CheckRootEligibility(b, r)
  <2> DEFINE s == [r EXCEPT !.isRoot = FALSE]
             u == SelectRootPort(s)
  <2>1. t = SelectDesignatedPorts(b, u)
    BY <1>3 DEF TryRoot
  <2>2. Valid(b, s) /\ SamePorts(b, r, s) /\ ~s.isRoot
    BY <1>1 DEF Valid, BridgeData, SamePorts
  <2>. HIDE DEF s
  <2>3. /\ Valid(b, u) /\ SamePorts(b, s, u) /\ u.isRoot = s.isRoot
        /\ u.root = u.port[u.rootPort].info.root /\ u.cost = u.port[u.rootPort].info.cost
        /\ \A p \in Ports(b) :
              /\ ~Better(u.port[p].info, u.port[u.rootPort].info)
              /\ u.port[p].role = IF p = u.rootPort THEN "ROOT" ELSE "NOTASSIGNED"
    BY <2>2, SelectRootPortChooses
  <2>. HIDE DEF u, t
  <2>4. /\ Valid(b, t) /\ SamePorts(b, u, t)
        /\ t.isRoot = u.isRoot /\ t.rootPort = u.rootPort /\ t.root = u.root /\ t.cost = u.cost
        /\ \A p \in Ports(b) :
              t.port[p].role = IF u.port[p].role = "ROOT" THEN "ROOT"
                     ELSE IF Better(Own(b, u), u.port[p].info) THEN "DESIGNATED" ELSE "ALTERNATE"
    BY <2>1, <2>3, SelectDesignatedPortsChooses
  <2>5. u.root < b
    <3>1. PICK p \in Ports(b) : ~(r.port[p].info.root >= b)
      BY <1>1, <1>3 DEF CheckRootEligibility
    <3>2. u.port[p].info.root < b
      BY <1>1, <2>2, <2>3, <3>1, Network DEF SamePorts, BridgeData, PortData
    <3>3. u.rootPort \in Ports(b) /\ \A q \in Ports(b) : u.port[q].info.root \in Nat
      BY <2>3, Network DEF Valid, BridgeData, PortData
    <3>. QED BY <2>3, <3>2, <3>3, Network DEF Better
  <2>6. SamePorts(b, r, t)
    BY <2>2, <2>3, <2>4 DEF SamePorts
  <2>7. RolesOf(b, t)
    <3>1. u.rootPort \in Ports(b)
      BY <2>3 DEF Valid, BridgeData
    <3>2. \A p \in Ports(b) : t.port[p].info = u.port[p].info
      BY <2>4 DEF SamePorts
    <3>3. Own(b, t) = Own(b, u)
      BY <2>4 DEF Own
    <3>. QED BY <2>2, <2>3, <2>4, <2>5, <3>1, <3>2, <3>3 DEF RolesOf
  <2>. QED BY <2>4, <2>6, <2>7 DEF t
<1>. QED BY <1>2, <1>3

-----------------------------------------------------------------------------
(***************************************************************************)
(* The handlers of the BPDUs.                                               *)
(***************************************************************************)

\* The BPDUs of a bridge.
Bpdus(a) ==
  {TCN} \cup [type : {"config"}, info : [root : Bridges, cost : Nat, bridge : {a}],
              tc : BOOLEAN, tca : BOOLEAN]

\* The bounds of a port's counters between the handlers.
InTime(b, r) == \A p \in Ports(b) : r.port[p].age < MaxAge /\ r.port[p].fdWhile < ForwardDelay

\* What a handler sends.
Sends(b, done) == done.out \in [Ports(b) -> Seq(Bpdus(b))]

\* A bridge whose ports know nothing worse than before chooses no worse root.
LEMMA BetterInfo ==
  ASSUME NEW b \in Bridges, NEW r, NEW t, Valid(b, r), Valid(b, t), RolesOf(b, r), RolesOf(b, t),
         \A p \in Ports(b) : ~Better(r.port[p].info, t.port[p].info)
  PROVE  NotWorse(r, t)
<1>1. /\ b \in Nat /\ r.root \in Nat /\ r.cost \in Nat /\ t.root \in Nat /\ t.cost \in Nat
      /\ r.rootPort \in Ports(b) /\ t.rootPort \in Ports(b)
      /\ \A p \in Ports(b) : /\ r.port[p].info \in [root : Nat, cost : Nat, bridge : Nat]
                             /\ t.port[p].info \in [root : Nat, cost : Nat, bridge : Nat]
  BY Network DEF Valid, BridgeData, PortData
<1>2. t.root < b \/ (t.root = b /\ t.cost = 0)
  BY <1>1 DEF RolesOf
<1>3. CASE r.isRoot
  <2>1. r.root = b /\ r.cost = 0
    BY <1>3 DEF RolesOf
  <2>. QED BY <1>1, <1>2, <2>1 DEF NotWorse
<1>4. CASE ~r.isRoot
  <2> DEFINE x == r.port[r.rootPort].info
             y == t.port[r.rootPort].info
             z == t.port[t.rootPort].info
  <2>1. r.root < b /\ r.root = x.root /\ r.cost = x.cost
    BY <1>4 DEF RolesOf
  <2>2. ~Better(x, y)
    BY <1>1
  <2>3. y.root < b
    BY <1>1, <2>1, <2>2 DEF Better
  <2>4. ~t.isRoot
    BY <1>1, <2>3 DEF RolesOf
  <2>5. t.root = z.root /\ t.cost = z.cost /\ ~Better(y, z)
    BY <1>1, <2>4 DEF RolesOf
  <2>6. {x, y, z} \subseteq [root : Nat, cost : Nat, bridge : Nat]
    BY <1>1
  <2>. HIDE DEF x, y, z
  <2>. QED BY <2>1, <2>2, <2>5, <2>6 DEF Better, NotWorse
<1>. QED BY <1>3, <1>4

\* isSuperiorBPDU, for a BPDU that is not inferior, worsens nothing a port knows and
\* keeps the counters in their bounds.
LEMMA RenewedInfo ==
  ASSUME NEW b \in Bridges, NEW r, Valid(b, r), NEW p \in Ports(b),
         NEW heard \in [root : Bridges, cost : Nat, bridge : {p}], heard.cost > 0,
         ~Better(r.port[p].info, heard)
  PROVE  LET t == Renewed(r, p, heard) IN
         /\ Valid(b, t) /\ t.up = r.up
         /\ InTime(b, r) => InTime(b, t)
         /\ \A q \in Ports(b) : ~Better(r.port[q].info, t.port[q].info)
<1> DEFINE new  == [r.port[p] EXCEPT !.info = heard, !.age = 0]
           port == IF Better(heard, r.port[p].info)
                   THEN [new EXCEPT !.fdWhile = 0, !.state = "DISCARDING"] ELSE new
           t == Renewed(r, p, heard)
<1>1. r \in BridgeData(b) /\ r.port[p] \in PortData /\ heard \in [root : Bridges, cost : Nat, bridge : Bridges]
  BY Network DEF Valid, BridgeData
<1>2. t = [r EXCEPT !.port[p] = port]
  BY DEF Renewed
<1>3. /\ port \in PortData /\ port.info = heard /\ port.age = 0
      /\ port.fdWhile \in {0, r.port[p].fdWhile}
  <2>1. new \in PortData /\ new.info = heard /\ new.age = 0 /\ new.fdWhile = r.port[p].fdWhile
    BY <1>1 DEF PortData
  <2>. HIDE DEF new
  <2>. QED BY <2>1 DEF PortData
<1>. HIDE DEF port, t
<1>4. /\ t \in BridgeData(b) /\ t.up = r.up /\ t.port[p] = port
      /\ \A q \in Ports(b) \ {p} : t.port[q] = r.port[q]
  BY <1>1, <1>2, <1>3 DEF BridgeData
<1>5. Heard(b, p, port.info)
  BY <1>3 DEF Heard
<1>6. Valid(b, t)
  BY <1>4, <1>5 DEF Valid
<1>7. InTime(b, r) => InTime(b, t)
  BY <1>3, <1>4, StpAssumption DEF InTime
<1>8. ASSUME NEW q \in Ports(b) PROVE ~Better(r.port[q].info, t.port[q].info)
  <2>1. r.port[q].info \in [root : Nat, cost : Nat, bridge : Nat]
    BY <1>1, Network DEF BridgeData, PortData
  <2>. QED BY <1>3, <1>4, <2>1 DEF Better
<1>. QED BY <1>4, <1>6, <1>7, <1>8 DEF t

\* generateBPDU makes a BPDU of the bridge that sends it.
LEMMA ConfigBpdu ==
  ASSUME NEW b \in Bridges, NEW r, r \in BridgeData(b), NEW tcFlag, NEW tcaFlag
  PROVE  Config(b, r, tcFlag, tcaFlag) \in Bpdus(b)
<1>1. r.root \in Bridges /\ r.cost \in Nat
  BY DEF BridgeData
<1>2. /\ (r.notice /\ (r.isRoot \/ tcFlag)) \in BOOLEAN
      /\ (r.notice /\ ~(r.isRoot \/ tcFlag) /\ tcaFlag) \in BOOLEAN
  OBVIOUS
<1>. QED BY <1>1, <1>2 DEF Bpdus, Config

\* handleBPDU keeps an active bridge right, sends BPDUs of its own and never turns it
\* to a worse root.
LEMMA HandleBPDUSound ==
  ASSUME NEW b \in Bridges, NEW r, Valid(b, r), RolesOf(b, r), InTime(b, r),
         NEW p \in Ports(b), NEW m \in Bpdus(p), m # TCN
  PROVE  LET done == HandleBPDU(b, r, p, m) IN
         /\ Valid(b, done.r) /\ RolesOf(b, done.r) /\ InTime(b, done.r)
         /\ done.r.up = r.up /\ NotWorse(r, done.r) /\ Sends(b, done)
<1> DEFINE s     == [r EXCEPT !.notice = @ /\ ~m.tca]
           heard == [m.info EXCEPT !.cost = @ + 1]
           new   == Renewed(s, p, heard)
           told  == [new EXCEPT !.aging = IF m.tc THEN "short" ELSE "default"]
           done  == HandleBPDU(b, r, p, m)
<1>1. /\ m.info \in [root : Bridges, cost : Nat, bridge : {p}]
      /\ heard \in [root : Bridges, cost : Nat, bridge : {p}] /\ heard.cost > 0
  BY DEF Bpdus
<1>2. /\ Valid(b, s) /\ InTime(b, s) /\ s.up = r.up /\ RolesOf(b, s)
      /\ s.port = r.port /\ s.root = r.root /\ s.cost = r.cost
  <2>1. /\ s \in BridgeData(b) /\ s.port = r.port /\ s.up = r.up /\ s.root = r.root /\ s.cost = r.cost
        /\ s.isRoot = r.isRoot /\ s.rootPort = r.rootPort
    BY DEF Valid, BridgeData
  <2>. HIDE DEF s
  <2>2. Own(b, s) = Own(b, r)
    BY <2>1 DEF Own
  <2>. QED BY <2>1, <2>2 DEF Valid, InTime, RolesOf
<1>3. ASSUME NEW u, Valid(b, u), InTime(b, u), u.up = r.up,
             \A q \in Ports(b) : ~Better(s.port[q].info, u.port[q].info),
             NEW to, NEW c, c \in Bpdus(b) \/ to = {}, done = Done(TryRoot(b, u), to, c)
      PROVE  /\ Valid(b, done.r) /\ RolesOf(b, done.r) /\ InTime(b, done.r)
             /\ done.r.up = r.up /\ NotWorse(r, done.r) /\ Sends(b, done)
  <2> DEFINE t == TryRoot(b, u)
  <2>1. Valid(b, t) /\ SamePorts(b, u, t) /\ RolesOf(b, t)
    BY <1>3, TryRootChooses
  <2>. HIDE DEF s, t
  <2>2. NotWorse(s, t)
    BY <1>2, <1>3, <2>1, BetterInfo DEF SamePorts
  <2>3. InTime(b, t) /\ t.up = r.up /\ NotWorse(r, t)
    BY <1>2, <1>3, <2>1, <2>2 DEF SamePorts, InTime, NotWorse
  <2>4. done.r = t /\ done.out = [q \in Ports(b) |-> IF q \in to THEN <<c>> ELSE <<>>]
    BY <1>3, <2>1 DEF Done, t, Valid, BridgeData
  <2>5. Sends(b, done)
    BY <1>3, <2>4 DEF Sends
  <2>. QED BY <2>1, <2>3, <2>4, <2>5
<1>4. \A tc, tca : Config(b, s, tc, tca) \in Bpdus(b)
  BY <1>2, ConfigBpdu DEF Valid
<1>5. CASE Better(s.port[p].info, heard)
  <2>1. done = Done(TryRoot(b, s), {p} \cap PortsOf(s, "DESIGNATED"), Config(b, s, FALSE, FALSE))
    BY <1>5 DEF HandleBPDU
  <2>2. \A q \in Ports(b) : ~Better(s.port[q].info, s.port[q].info)
    <3>1. \A q \in Ports(b) : s.port[q].info \in [root : Nat, cost : Nat, bridge : Nat]
      BY <1>2, Network DEF Valid, BridgeData, PortData
    <3>. HIDE DEF s
    <3>. QED BY <3>1 DEF Better
  <2>. HIDE DEF s, done
  <2>. QED BY <1>2, <1>3, <1>4, <2>1, <2>2 DEF done
<1>6. CASE ~Better(s.port[p].info, heard)
  <2>1. /\ Valid(b, new) /\ new.up = r.up /\ InTime(b, new)
        /\ \A q \in Ports(b) : ~Better(s.port[q].info, new.port[q].info)
    <3>. HIDE DEF s, heard
    <3>. QED BY <1>1, <1>2, <1>6, RenewedInfo
  <2>2. /\ Valid(b, told) /\ told.up = r.up /\ InTime(b, told)
        /\ \A q \in Ports(b) : ~Better(s.port[q].info, told.port[q].info)
    <3>. HIDE DEF s, new
    <3>1. told \in BridgeData(b) /\ told.port = new.port /\ told.up = new.up
      BY <2>1 DEF Valid, BridgeData
    <3>. HIDE DEF told
    <3>. QED BY <2>1, <3>1 DEF Valid, InTime
  <2>3. \/ done = Done(TryRoot(b, told), PortsOf(s, "DESIGNATED"), Config(b, s, m.tc, FALSE))
        \/ done = Done(TryRoot(b, new), {}, {})
    BY <1>6 DEF HandleBPDU
  <2>. HIDE DEF s, new, told, done
  <2>. QED BY <1>3, <1>4, <2>1, <2>2, <2>3 DEF done
<1>. QED BY <1>5, <1>6


\* The same of handleTCN, which changes no more than topologyChangeNotification.
LEMMA HandleTCNSound ==
  ASSUME NEW b \in Bridges, NEW r, Valid(b, r), RolesOf(b, r), InTime(b, r), NEW p \in Ports(b)
  PROVE  LET done == HandleTCN(b, r, p) IN
         /\ Valid(b, done.r) /\ RolesOf(b, done.r) /\ InTime(b, done.r)
         /\ done.r.up = r.up /\ NotWorse(r, done.r) /\ Sends(b, done)
<1> DEFINE s    == [r EXCEPT !.notice = TRUE]
           c    == Config(b, s, FALSE, TRUE)
           sent == [q \in Ports(b) |-> IF q = p THEN <<c>> ELSE <<>>]
           done == HandleTCN(b, r, p)
<1>1. /\ s \in BridgeData(b) /\ s.port = r.port /\ s.up = r.up /\ s.root = r.root /\ s.cost = r.cost
      /\ s.isRoot = r.isRoot /\ s.rootPort = r.rootPort
  BY DEF Valid, BridgeData
<1>2. c \in Bpdus(b)
  <2>. HIDE DEF s
  <2>. QED BY <1>1, ConfigBpdu
<1>3. Done(s, {p}, c) = [r |-> s, out |-> sent]
  BY <1>1 DEF Done, BridgeData
<1> DEFINE ack == [r |-> s, out |-> sent]
<1>4. done = ack \/ done = [ack EXCEPT !.out[s.rootPort] = Append(@, TCN)]
  BY <1>3, Zenon DEF HandleTCN
<1>. HIDE DEF s, c, done
<1>5. /\ done.r = s
      /\ done.out = sent \/ done.out = [sent EXCEPT ![s.rootPort] = Append(@, TCN)]
  <2>. HIDE DEF sent
  <2>. QED BY <1>4
<1>6. sent \in [Ports(b) -> Seq(Bpdus(b))]
  <2>1. <<c>> \in Seq(Bpdus(b)) /\ <<>> \in Seq(Bpdus(b))
    BY <1>2
  <2>. QED BY <2>1
<1>7. TCN \in Bpdus(b) /\ s.rootPort \in Ports(b)
  BY <1>1 DEF Bpdus, BridgeData
<1>8. Sends(b, done)
  <2>. HIDE DEF sent
  <2>1. Append(sent[s.rootPort], TCN) \in Seq(Bpdus(b))
    BY <1>6, <1>7, AppendProperties
  <2>. QED BY <1>5, <1>6, <1>7, <2>1 DEF Sends
<1>9. Valid(b, s) /\ InTime(b, s) /\ RolesOf(b, s)
  <2>1. Own(b, s) = Own(b, r)
    BY <1>1 DEF Own
  <2>. QED BY <1>1, <2>1 DEF Valid, InTime, RolesOf
<1>10. NotWorse(r, s)
  <2>1. r.root \in Nat /\ r.cost \in Nat
    BY Network DEF Valid, BridgeData
  <2>. QED BY <1>1, <2>1 DEF NotWorse
<1>. QED BY <1>1, <1>5, <1>8, <1>9, <1>10 DEF done

-----------------------------------------------------------------------------
(***************************************************************************)
(* The tick.  Between its two loops the roles stay right because only a     *)
(* port that has heard of a root lower than its bridge can be too old.      *)
(***************************************************************************)

\* A bridge in the middle of a tick: the counters have gone on, and only a port
\* that has heard of a better root than the bridge itself can be too old.
Aging(b, r) ==
  /\ Valid(b, r) /\ RolesOf(b, r)
  /\ \A p \in Ports(b) : /\ r.port[p].age <= MaxAge /\ r.port[p].fdWhile <= ForwardDelay
                         /\ r.port[p].age >= MaxAge => r.port[p].info.root < b

\* The same root, at the same distance, by the same port.
SameRoot(r, t) ==
  t.isRoot = r.isRoot /\ t.rootPort = r.rootPort /\ t.root = r.root /\ t.cost = r.cost

\* The counters of handleTick: only a port that has heard of a root lower than its
\* bridge can reach maxAge, for a designated port does not age.
LEMMA CountedAging ==
  ASSUME NEW b \in Bridges, NEW r, Valid(b, r), RolesOf(b, r), InTime(b, r)
  PROVE  LET t == Counted(r) IN
         /\ Aging(b, t) /\ t.up = r.up /\ SameRoot(r, t)
         /\ \A p \in Ports(b) :
              /\ t.port[p].role = r.port[p].role /\ t.port[p].info = r.port[p].info
              /\ t.port[p].state = r.port[p].state
              /\ t.port[p].age = IF r.port[p].role # "DESIGNATED" THEN r.port[p].age + 1 ELSE r.port[p].age
              /\ t.port[p].age <= r.port[p].age + 1
<1> DEFINE t == Counted(r)
           ports == [p \in DOMAIN r.port |-> Aged(r.port[p])]
<1>1. r \in BridgeData(b) /\ DOMAIN r.port = Ports(b)
  BY DEF Valid, BridgeData
<1>2. t = [r EXCEPT !.port = ports]
  BY DEF Counted
<1>3. /\ ports \in [Ports(b) -> PortData]
      /\ \A p \in Ports(b) :
           /\ ports[p].role = r.port[p].role /\ ports[p].info = r.port[p].info
           /\ ports[p].state = r.port[p].state
           /\ ports[p].age = IF r.port[p].role # "DESIGNATED" THEN r.port[p].age + 1 ELSE r.port[p].age
           /\ ports[p].fdWhile \in {r.port[p].fdWhile, r.port[p].fdWhile + 1}
  <2>1. ASSUME NEW port \in PortData
        PROVE  /\ Aged(port) \in PortData /\ Aged(port).role = port.role /\ Aged(port).info = port.info
               /\ Aged(port).state = port.state
               /\ Aged(port).age = IF port.role # "DESIGNATED" THEN port.age + 1 ELSE port.age
               /\ Aged(port).fdWhile \in {port.fdWhile, port.fdWhile + 1}
    <3> DEFINE age == IF port.role # "DESIGNATED" THEN port.age + 1 ELSE port.age
               fdWhile == IF port.role \in {"ROOT", "DESIGNATED"} THEN port.fdWhile + 1 ELSE port.fdWhile
    <3>1. age \in Nat /\ fdWhile \in Nat /\ fdWhile \in {port.fdWhile, port.fdWhile + 1}
      BY DEF PortData
    <3>2. Aged(port) = [port EXCEPT !.age = age, !.fdWhile = fdWhile]
      BY DEF Aged
    <3>. HIDE DEF fdWhile
    <3>3. Aged(port).age = age
      BY <3>2 DEF PortData
    <3>. HIDE DEF age
    <3>4. /\ Aged(port) \in PortData /\ Aged(port).role = port.role /\ Aged(port).info = port.info
          /\ Aged(port).fdWhile = fdWhile /\ Aged(port).state = port.state
      BY <3>1, <3>2 DEF PortData
    <3>. QED BY <3>1, <3>3, <3>4 DEF age
  <2>2. \A p \in Ports(b) : r.port[p] \in PortData
    BY <1>1 DEF BridgeData
  <2>. QED BY <1>1, <2>1, <2>2
<1>. HIDE DEF t, ports
<1>4. t \in BridgeData(b) /\ t.port = ports /\ t.up = r.up /\ SameRoot(r, t)
  BY <1>1, <1>2, <1>3 DEF BridgeData, SameRoot
<1>5. Valid(b, t)
  BY <1>3, <1>4 DEF Valid
<1>6. RolesOf(b, t)
  <2>1. Own(b, t) = Own(b, r) /\ r.rootPort \in Ports(b)
    BY <1>1, <1>4 DEF Own, SameRoot, BridgeData
  <2>. QED BY <1>3, <1>4, <2>1 DEF RolesOf, SameRoot
<1>7. ASSUME NEW p \in Ports(b)
      PROVE  /\ t.port[p].age <= MaxAge /\ t.port[p].fdWhile <= ForwardDelay
             /\ t.port[p].age <= r.port[p].age + 1
             /\ t.port[p].age >= MaxAge => t.port[p].info.root < b
  <2>1. r.port[p].age \in Nat /\ r.port[p].age < MaxAge
        /\ r.port[p].fdWhile \in Nat /\ r.port[p].fdWhile < ForwardDelay
    BY <1>1 DEF InTime, BridgeData, PortData
  <2>2. /\ t.port[p].age <= MaxAge /\ t.port[p].fdWhile <= ForwardDelay
        /\ t.port[p].age <= r.port[p].age + 1
    BY <1>3, <1>4, <2>1, StpAssumption
  <2>3. ASSUME t.port[p].age >= MaxAge PROVE r.port[p].role # "DESIGNATED"
    BY <1>3, <1>4, <2>1, <2>3, StpAssumption
  <2>4. ASSUME r.port[p].role # "DESIGNATED" PROVE r.port[p].info.root < b
    <3>1. /\ r.port[p].info \in [root : Nat, cost : Nat, bridge : Nat] /\ r.rootPort \in Ports(b)
          /\ r.port[r.rootPort].info \in [root : Nat, cost : Nat, bridge : Nat]
          /\ r.root \in Nat /\ r.cost \in Nat /\ b \in Nat
      BY <1>1, Network DEF BridgeData, PortData
    <3>2. /\ ~r.isRoot /\ r.root < b
          /\ p = r.rootPort \/ ~Better(Own(b, r), r.port[p].info)
          /\ r.root = r.port[r.rootPort].info.root
      BY <2>4 DEF RolesOf
    <3>. QED BY <3>1, <3>2 DEF Better, Own
  <2>. QED BY <1>3, <1>4, <2>2, <2>3, <2>4
<1>. QED BY <1>3, <1>4, <1>5, <1>6, <1>7 DEF Aging, t

\* One turn of the loop of checkTimers: whatever is forgotten, the roles are again those
\* the information calls for, and the root stays unless the root port is too old.
\* That needs Aging: selectDesignatedPorts after a loss would leave a bridge that is its
\* own root with blocked ports, and such a bridge has no port that ages.
LEMMA ExpireSound ==
  ASSUME NEW b \in Bridges, NEW r, Aging(b, r), NEW p \in Ports(b)
  PROVE  LET t == Expire(b, r, p) IN
         /\ Aging(b, t) /\ t.up = r.up /\ t.port[p].age < MaxAge
         /\ \A q \in Ports(b) : t.port[q].age <= r.port[q].age
         /\ (r.isRoot \/ r.port[r.rootPort].age < MaxAge) => SameRoot(r, t)
<1> DEFINE lost == [r EXCEPT !.port[p] = InitPort(b, @), !.notice = TRUE]
           t    == Expire(b, r, p)
<1>1. /\ r \in BridgeData(b) /\ r.rootPort \in Ports(b) /\ b \in Nat /\ r.root \in Nat /\ r.cost \in Nat
      /\ \A q \in Ports(b) : /\ r.port[q].age \in Nat /\ r.port[q].fdWhile \in Nat
                             /\ r.port[q].info \in [root : Nat, cost : Nat, bridge : Nat]
  BY Network DEF Aging, Valid, BridgeData, PortData
<1>2. CASE r.port[p].age < MaxAge
  <2>1. t = r
    BY <1>2 DEF Expire
  <2>. QED BY <1>1, <1>2, <2>1 DEF SameRoot
<1>3. CASE ~(r.port[p].age < MaxAge)
  <2>1. r.port[p].info.root < b
    BY <1>1, <1>3, StpAssumption DEF Aging
  <2>2. ~r.isRoot
    BY <1>1, <2>1 DEF Aging, RolesOf
  <2>3. /\ InitPort(b, r.port[p]) \in PortData
        /\ InitPort(b, r.port[p]).info = [root |-> b, cost |-> 0, bridge |-> b]
        /\ InitPort(b, r.port[p]).age = 0 /\ InitPort(b, r.port[p]).fdWhile = r.port[p].fdWhile
        /\ InitPort(b, r.port[p]).role = "NOTASSIGNED"
    <3>1. r.port[p].fdWhile \in Nat
      BY <1>1
    <3>. QED BY <3>1 DEF InitPort, PortData
  <2>4. /\ lost \in BridgeData(b) /\ lost.up = r.up /\ SameRoot(r, lost)
        /\ lost.port[p] = InitPort(b, r.port[p])
        /\ \A q \in Ports(b) \ {p} : lost.port[q] = r.port[q]
    <3>1. [r.port EXCEPT ![p] = InitPort(b, @)] \in [Ports(b) -> PortData]
      BY <1>1, <2>3 DEF BridgeData
    <3>. QED BY <1>1, <2>3, <3>1 DEF BridgeData, SameRoot
  <2>5. t = IF r.port[p].role = "ROOT" THEN TryRoot(b, lost) ELSE SelectDesignatedPorts(b, lost)
    BY <1>3 DEF Expire
  <2>. HIDE DEF lost, t
  <2>6. Valid(b, lost)
    BY <2>3, <2>4 DEF Valid, Heard, Aging
  <2>7. ASSUME NEW u, Valid(b, u), SamePorts(b, lost, u), RolesOf(b, u)
        PROVE  /\ Aging(b, u) /\ u.up = r.up /\ u.port[p].age < MaxAge
               /\ \A q \in Ports(b) : u.port[q].age <= r.port[q].age
    <3>1. ASSUME NEW q \in Ports(b)
          PROVE  /\ u.port[q].age <= r.port[q].age /\ u.port[q].fdWhile <= ForwardDelay
                 /\ u.port[q].age <= MaxAge
                 /\ u.port[q].age >= MaxAge => u.port[q].info.root < b
                 /\ q = p => u.port[q].age < MaxAge
      <4>1. CASE q = p
        BY <1>1, <2>3, <2>4, <2>7, <4>1, StpAssumption DEF SamePorts, Aging
      <4>2. CASE q # p
        BY <1>1, <2>4, <2>7, <4>2 DEF SamePorts, Aging
      <4>. QED BY <4>1, <4>2
    <3>. QED BY <2>4, <2>7, <3>1 DEF Aging, SamePorts
  <2>8. CASE p = r.rootPort
    <3>1. t = TryRoot(b, lost)
      BY <2>2, <2>5, <2>8 DEF Aging, RolesOf
    <3>2. Valid(b, t) /\ SamePorts(b, lost, t) /\ RolesOf(b, t)
      BY <2>6, <3>1, TryRootChooses
    <3>. QED BY <1>3, <2>2, <2>7, <2>8, <3>2 DEF t
  <2>9. CASE p # r.rootPort
    <3>1. t = SelectDesignatedPorts(b, lost)
      BY <2>2, <2>5, <2>9 DEF Aging, RolesOf
    <3>2. /\ Valid(b, t) /\ SamePorts(b, lost, t) /\ SameRoot(lost, t)
          /\ \A q \in Ports(b) :
               t.port[q].role = IF lost.port[q].role = "ROOT" THEN "ROOT"
                     ELSE IF Better(Own(b, lost), lost.port[q].info) THEN "DESIGNATED" ELSE "ALTERNATE"
      BY <2>6, <3>1, SelectDesignatedPortsChooses DEF SameRoot
    <3>3. SameRoot(r, t) /\ Own(b, t) = Own(b, lost)
      BY <2>4, <3>2 DEF SameRoot, Own
    <3>4. \A q \in Ports(b) : (lost.port[q].role = "ROOT") = (q = t.rootPort)
      BY <2>2, <2>3, <2>4, <2>9, <3>3 DEF SameRoot, Aging, RolesOf
    <3>5. t.port[t.rootPort].info = r.port[r.rootPort].info
      BY <1>1, <2>4, <2>9, <3>2, <3>3 DEF SamePorts, SameRoot
    <3>6. ASSUME NEW q \in Ports(b) PROVE ~Better(t.port[q].info, t.port[t.rootPort].info)
      <4>1. CASE q = p
        <5>1. t.port[q].info = [root |-> b, cost |-> 0, bridge |-> b]
          BY <2>3, <2>4, <3>2, <4>1 DEF SamePorts
        <5>2. r.port[r.rootPort].info.root < b
          BY <2>2 DEF Aging, RolesOf
        <5>. QED BY <1>1, <3>5, <5>1, <5>2 DEF Better
      <4>2. CASE q # p
        BY <2>2, <2>4, <3>2, <3>5, <4>2 DEF SamePorts, Aging, RolesOf
      <4>. QED BY <4>1, <4>2
    <3>7. RolesOf(b, t)
      <4>1. ~t.isRoot /\ t.root < b /\ t.root = t.port[t.rootPort].info.root
            /\ t.cost = t.port[t.rootPort].info.cost
        BY <2>2, <3>3, <3>5 DEF SameRoot, Aging, RolesOf
      <4>2. \A q \in Ports(b) :
              t.port[q].role = IF q = t.rootPort THEN "ROOT"
                    ELSE IF Better(Own(b, t), t.port[q].info) THEN "DESIGNATED" ELSE "ALTERNATE"
        BY <3>2, <3>3, <3>4 DEF SamePorts
      <4>. QED BY <3>6, <4>1, <4>2 DEF RolesOf
    <3>. QED BY <2>7, <3>2, <3>3, <3>7 DEF t
  <2>. QED BY <2>8, <2>9
<1>. QED BY <1>2, <1>3

\* One turn of the loop over the ports.
Turn(b, before, n) == IF n \in Ports(b) THEN Expire(b, before, n) ELSE before

IsLoop(b, r, last, f) == f = [n \in 0..last |-> Turn(b, IF n = 0 THEN r ELSE f[n - 1], n)]

\* The loop over the ports has a result: by least counterexample, the turns up to k are
\* those up to k - 1 and one more.
LEMMA LoopEnds ==
  ASSUME NEW b, NEW r, NEW last \in Nat
  PROVE  \E f : IsLoop(b, r, last, f)
<1> DEFINE Stuck == {k \in Nat : ~\E f : IsLoop(b, r, k, f)}
<1>1. SUFFICES ASSUME Stuck # {} PROVE FALSE
  OBVIOUS
<1>2. PICK k \in Stuck : \A j \in Stuck : k <= j
  <2>1. Stuck \subseteq Nat
    OBVIOUS
  <2>. HIDE DEF Stuck
  <2>. QED BY <1>1, <2>1, LeastNatural
<1>3. CASE k = 0
  <2> DEFINE f == [n \in 0..0 |-> Turn(b, r, 0)]
  <2>1. IsLoop(b, r, 0, f)
    BY DEF IsLoop
  <2>. QED BY <1>2, <1>3, <2>1
<1>4. CASE k > 0
  <2>1. k - 1 \in Nat /\ k - 1 \notin Stuck
    BY <1>2, <1>4
  <2>2. PICK g : IsLoop(b, r, k - 1, g)
    BY <2>1
  <2> DEFINE f == [n \in 0..k |-> IF n = k THEN Turn(b, g[k - 1], k) ELSE g[n]]
  <2>3. \A n \in 0..(k - 1) : g[n] = Turn(b, IF n = 0 THEN r ELSE g[n - 1], n)
    BY <2>2 DEF IsLoop
  <2>4. \A n \in 0..k : f[n] = Turn(b, IF n = 0 THEN r ELSE f[n - 1], n)
    BY <1>4, <2>1, <2>3
  <2>5. IsLoop(b, r, k, f)
    BY <2>4 DEF IsLoop
  <2>. QED BY <1>2, <2>5
<1>. QED BY <1>2, <1>3, <1>4

\* The whole loop of checkTimers: no port is too old after it.
LEMMA ExpirePortsSound ==
  ASSUME NEW b \in Bridges, NEW r, Aging(b, r)
  PROVE  LET t == ExpirePorts(b, r) IN
         /\ Aging(b, t) /\ t.up = r.up
         /\ \A p \in Ports(b) : t.port[p].age < MaxAge
         /\ (r.isRoot \/ r.port[r.rootPort].age < MaxAge) => SameRoot(r, t)
<1> DEFINE last == Max(Ports(b))
           loop == CHOOSE f : IsLoop(b, r, last, f)
           Kept(n, t) == /\ Aging(b, t) /\ t.up = r.up
                         /\ \A p \in Ports(b) : /\ t.port[p].age <= r.port[p].age
                                                /\ p <= n => t.port[p].age < MaxAge
                         /\ (r.isRoot \/ r.port[r.rootPort].age < MaxAge) => SameRoot(r, t)
<1>1. /\ last \in Ports(b) /\ last \in Nat /\ \A p \in Ports(b) : p \in Nat /\ p <= last
      /\ r.rootPort \in Ports(b) /\ \A p \in Ports(b) : r.port[p].age \in Nat
  <2>1. Ports(b) \subseteq Nat /\ Ports(b) # {} /\ IsFiniteSet(Ports(b))
    BY Network, FS_Subset
  <2>2. PICK x \in Ports(b) : \A y \in Ports(b) : y <= x
    BY <2>1, GreatestNatural
  <2>3. \E z \in Ports(b) : \A y \in Ports(b) : z >= y
    BY <2>1, <2>2
  <2>4. last \in Ports(b) /\ \A y \in Ports(b) : last >= y
    BY <2>3 DEF Max
  <2>5. r.rootPort \in Ports(b) /\ \A p \in Ports(b) : r.port[p].age \in Nat
    BY DEF Aging, Valid, BridgeData, PortData
  <2>. QED BY <2>1, <2>4, <2>5
<1>2. ExpirePorts(b, r) = loop[last]
  BY DEF ExpirePorts, Turn, IsLoop
<1>. HIDE DEF last
<1>3. IsLoop(b, r, last, loop)
  BY <1>1, LoopEnds
<1>. HIDE DEF loop
<1>4. \A n \in 0..last : loop[n] = Turn(b, IF n = 0 THEN r ELSE loop[n - 1], n)
  BY <1>3 DEF IsLoop
<1>5. ASSUME NEW n \in 0..last, NEW s, Aging(b, s), s.up = r.up,
             \A p \in Ports(b) : /\ s.port[p].age <= r.port[p].age
                                 /\ p < n => s.port[p].age < MaxAge,
             (r.isRoot \/ r.port[r.rootPort].age < MaxAge) => SameRoot(r, s)
      PROVE  Kept(n, Turn(b, s, n))
  <2>1. \A p \in Ports(b) : s.port[p].age \in Nat
    BY <1>5 DEF Aging, Valid, BridgeData, PortData
  <2>2. CASE n \in Ports(b)
    <3> DEFINE t == Expire(b, s, n)
    <3>1. /\ Aging(b, t) /\ t.up = s.up /\ t.port[n].age < MaxAge
          /\ \A q \in Ports(b) : t.port[q].age <= s.port[q].age
          /\ (s.isRoot \/ s.port[s.rootPort].age < MaxAge) => SameRoot(s, t)
      BY <1>5, <2>2, ExpireSound
    <3>2. Turn(b, s, n) = t
      BY <2>2 DEF Turn
    <3>. HIDE DEF t
    <3>3. \A q \in Ports(b) : t.port[q].age \in Nat
      BY <3>1 DEF Aging, Valid, BridgeData, PortData
    <3>4. ASSUME NEW q \in Ports(b)
          PROVE  t.port[q].age <= r.port[q].age /\ (q <= n => t.port[q].age < MaxAge)
      <4>1. /\ t.port[q].age \in Nat /\ s.port[q].age \in Nat /\ r.port[q].age \in Nat
            /\ MaxAge \in Nat /\ q \in Nat /\ n \in Nat
        <5>1. r.port[q].age \in Nat /\ q \in Nat
          BY <1>1
        <5>2. MaxAge \in Nat /\ n \in Nat
          BY StpAssumption
        <5>. QED BY <2>1, <3>3, <5>1, <5>2
      <4>2. t.port[q].age <= s.port[q].age /\ s.port[q].age <= r.port[q].age
        BY <1>5, <3>1
      <4>3. CASE q < n
        BY <1>5, <4>1, <4>2, <4>3
      <4>4. CASE q = n
        BY <3>1, <4>1, <4>2, <4>4
      <4>5. CASE q > n
        BY <4>1, <4>2, <4>5
      <4>. QED BY <4>1, <4>3, <4>4, <4>5
    <3>5. ASSUME r.isRoot \/ r.port[r.rootPort].age < MaxAge PROVE SameRoot(r, t)
      <4>1. SameRoot(r, s) /\ s.port[r.rootPort].age <= r.port[r.rootPort].age
        BY <1>1, <1>5, <3>5
      <4>2. s.isRoot \/ s.port[s.rootPort].age < MaxAge
        <5>1. s.port[r.rootPort].age \in Nat /\ r.port[r.rootPort].age \in Nat /\ MaxAge \in Nat
          BY <1>1, <2>1, StpAssumption
        <5>2. r.port[r.rootPort].age < MaxAge => s.port[r.rootPort].age < MaxAge
          BY <4>1, <5>1
        <5>. QED BY <3>5, <4>1, <5>2 DEF SameRoot
      <4>. QED BY <3>1, <4>1, <4>2 DEF SameRoot
    <3>. QED BY <1>5, <3>1, <3>2, <3>4, <3>5
  <2>3. CASE n \notin Ports(b)
    <3>1. Turn(b, s, n) = s
      BY <2>3 DEF Turn
    <3>2. \A p \in Ports(b) : p <= n => p < n
      BY <1>1, <2>3
    <3>. QED BY <1>5, <3>1, <3>2
  <2>. QED BY <2>2, <2>3
<1>6. ASSUME NEW n \in 0..last, n # 0 => Kept(n - 1, loop[n - 1]) PROVE Kept(n, loop[n])
  <2>1. CASE n = 0
    <3>1. /\ \A p \in Ports(b) : r.port[p].age <= r.port[p].age /\ ~(p < 0)
          /\ SameRoot(r, r)
      BY <1>1 DEF SameRoot
    <3>2. Kept(0, Turn(b, r, 0))
      BY <1>5, <2>1, <3>1
    <3>. QED BY <1>4, <2>1, <3>2
  <2>2. CASE n # 0
    <3>1. \A p \in Ports(b) : p < n => p <= n - 1
      BY <1>1
    <3>2. Kept(n, Turn(b, loop[n - 1], n))
      BY <1>5, <1>6, <2>2, <3>1
    <3>. QED BY <1>4, <2>2, <3>2
  <2>. QED BY <2>1, <2>2
<1> DEFINE Lost == {n \in 0..last : ~Kept(n, loop[n])}
<1>. HIDE DEF Kept
<1>7. Lost = {}
  <2>1. SUFFICES ASSUME Lost # {} PROVE FALSE
    OBVIOUS
  <2>2. Lost \subseteq Nat
    BY <1>1
  <2>3. PICK n \in Lost : \A m \in Lost : n <= m
    <3>. HIDE DEF Lost
    <3>. QED BY <2>1, <2>2, LeastNatural
  <2>4. n # 0 => n - 1 \in 0..last /\ n - 1 \notin Lost
    BY <1>1, <2>3
  <2>. QED BY <1>6, <2>3, <2>4
<1>8. Kept(last, ExpirePorts(b, r))
  BY <1>1, <1>2, <1>7
<1>. QED BY <1>1, <1>8 DEF Kept

\* The states of checkTimers: a port below forwardDelay after it, its role and its
\* information as they were.
LEMMA AdvancedPort ==
  ASSUME NEW port \in PortData, port.fdWhile <= ForwardDelay
  PROVE  /\ Advance(port) \in PortData /\ Advance(port).role = port.role
         /\ Advance(port).info = port.info /\ Advance(port).age = port.age
         /\ Advance(port).fdWhile < ForwardDelay
<1>1. port.fdWhile \in Nat /\ ForwardDelay \in Nat /\ 0 < ForwardDelay
  BY StpAssumption DEF PortData
<1>2. CASE port.role \notin {"ROOT", "DESIGNATED"}
  BY <1>1, <1>2 DEF Advance, PortData
<1>3. CASE port.role \in {"ROOT", "DESIGNATED"} /\ port.fdWhile < ForwardDelay
  BY <1>3 DEF Advance
<1>4. CASE port.role \in {"ROOT", "DESIGNATED"} /\ ~(port.fdWhile < ForwardDelay)
  <2> DEFINE state == IF port.state = "DISCARDING" THEN "LEARNING" ELSE "FORWARDING"
             new   == [port EXCEPT !.fdWhile = 0, !.state = state]
  <2>1. Advance(port) = new
    BY <1>4 DEF Advance
  <2>2. state \in {"DISCARDING", "LEARNING", "FORWARDING"} /\ 0 \in Nat
    OBVIOUS
  <2>. HIDE DEF state
  <2>3. new \in PortData
    BY <2>2 DEF PortData
  <2>4. /\ new.role = port.role /\ new.info = port.info
        /\ new.age = port.age /\ new.fdWhile = 0
    BY DEF PortData
  <2>. QED BY <1>1, <2>1, <2>3, <2>4
<1>. QED BY <1>2, <1>3, <1>4

\* handleTick keeps an active bridge right, sends BPDUs of its own, and changes the root
\* only if the information of the root port was one tick from maxAge.
LEMMA HandleTickSound ==
  ASSUME NEW b \in Bridges, NEW r, Valid(b, r), RolesOf(b, r), InTime(b, r)
  PROVE  LET done == HandleTick(b, r) IN
         /\ Valid(b, done.r) /\ RolesOf(b, done.r) /\ InTime(b, done.r)
         /\ done.r.up = r.up /\ Sends(b, done)
         /\ r.isRoot \/ r.port[r.rootPort].age + 1 < MaxAge => SameRoot(r, done.r)
<1> DEFINE counted == Counted(r)
           expired == ExpirePorts(b, counted)
           ports   == [p \in DOMAIN expired.port |-> Advance(expired.port[p])]
           s       == [expired EXCEPT !.port = ports]
           told    == [s EXCEPT !.notice = FALSE]
           done    == HandleTick(b, r)
<1>1. /\ Aging(b, counted) /\ counted.up = r.up /\ SameRoot(r, counted)
      /\ \A p \in Ports(b) : counted.port[p].age <= r.port[p].age + 1
  BY CountedAging
<1>2. \/ done = Done(s, DOMAIN s.port, Config(b, counted, FALSE, FALSE))
      \/ done = Done(told, {s.rootPort}, TCN)
      \/ done = Done(s, {}, {})
  BY DEF HandleTick
<1>. HIDE DEF counted, done
<1>3. /\ Aging(b, expired) /\ expired.up = counted.up
      /\ \A p \in Ports(b) : expired.port[p].age < MaxAge
      /\ (counted.isRoot \/ counted.port[counted.rootPort].age < MaxAge) => SameRoot(counted, expired)
  BY <1>1, ExpirePortsSound
<1>. HIDE DEF expired
<1>4. /\ expired \in BridgeData(b) /\ DOMAIN expired.port = Ports(b)
      /\ \A p \in Ports(b) : expired.port[p] \in PortData /\ expired.port[p].fdWhile <= ForwardDelay
  BY <1>3 DEF Aging, Valid, BridgeData
<1>5. \A p \in Ports(b) :
        /\ ports[p] \in PortData /\ ports[p].role = expired.port[p].role
        /\ ports[p].info = expired.port[p].info /\ ports[p].age = expired.port[p].age
        /\ ports[p].fdWhile < ForwardDelay
  BY <1>4, AdvancedPort
<1>6. ports \in [Ports(b) -> PortData]
  BY <1>4, <1>5
<1>. HIDE DEF ports
<1>7. /\ s \in BridgeData(b) /\ s.port = ports /\ s.up = expired.up /\ SameRoot(expired, s)
      /\ told \in BridgeData(b) /\ told.port = ports /\ told.up = expired.up /\ SameRoot(expired, told)
  BY <1>4, <1>6 DEF BridgeData, SameRoot
<1>. HIDE DEF s, told
<1>8. ASSUME NEW t \in {s, told}
      PROVE  /\ Valid(b, t) /\ RolesOf(b, t) /\ InTime(b, t) /\ t.up = r.up
             /\ r.isRoot \/ r.port[r.rootPort].age + 1 < MaxAge => SameRoot(r, t)
  <2>1. t \in BridgeData(b) /\ t.port = ports /\ t.up = r.up /\ SameRoot(expired, t)
    BY <1>1, <1>3, <1>7
  <2>2. Valid(b, t)
    BY <1>3, <1>5, <2>1 DEF Valid, Aging
  <2>3. InTime(b, t)
    BY <1>3, <1>5, <2>1 DEF InTime
  <2>4. RolesOf(b, t)
    <3>1. Own(b, t) = Own(b, expired) /\ t.rootPort \in Ports(b)
      BY <2>1 DEF SameRoot, Own, BridgeData
    <3>. QED BY <1>3, <1>5, <2>1, <3>1 DEF RolesOf, SameRoot, Aging
  <2>5. ASSUME r.isRoot \/ r.port[r.rootPort].age + 1 < MaxAge PROVE SameRoot(r, t)
    <3>1. /\ r.rootPort \in Ports(b) /\ r.port[r.rootPort].age \in Nat /\ MaxAge \in Nat
          /\ counted.port[r.rootPort].age \in Nat
          /\ counted.port[r.rootPort].age <= r.port[r.rootPort].age + 1
      BY <1>1, StpAssumption DEF Aging, Valid, BridgeData, PortData
    <3>2. r.port[r.rootPort].age + 1 < MaxAge => counted.port[r.rootPort].age < MaxAge
      BY <3>1
    <3>3. SameRoot(counted, expired)
      BY <1>1, <1>3, <2>5, <3>2 DEF SameRoot
    <3>. QED BY <1>1, <2>1, <3>3 DEF SameRoot
  <2>. QED BY <2>1, <2>2, <2>3, <2>4, <2>5
<1>9. Config(b, counted, FALSE, FALSE) \in Bpdus(b) /\ TCN \in Bpdus(b)
  BY <1>1, ConfigBpdu DEF Aging, Valid, Bpdus
<1>10. ASSUME NEW t \in {s, told}, NEW to, NEW c, c \in Bpdus(b) \/ to = {}, done = Done(t, to, c)
       PROVE  done.r = t /\ Sends(b, done)
  <2>1. done.r = t /\ done.out = [p \in Ports(b) |-> IF p \in to THEN <<c>> ELSE <<>>]
    BY <1>7, <1>10 DEF Done, BridgeData
  <2>2. c \in Bpdus(b) => <<c>> \in Seq(Bpdus(b))
    OBVIOUS
  <2>. QED BY <1>10, <2>1, <2>2 DEF Sends
<1>11. done.r \in {s, told} /\ Sends(b, done)
  BY <1>2, <1>9, <1>10
<1>. QED BY <1>8, <1>11 DEF done

-----------------------------------------------------------------------------
(***************************************************************************)
(* The inductive invariant: every bridge is as its handlers leave it, and   *)
(* what is underway was sent by the bridge it comes from to one that is     *)
(* active.  A bridge that is down keeps its data, and its counters must be  *)
(* in their bounds for the start that leaves fdWhile as it is.              *)
(***************************************************************************)

BridgesRight ==
  /\ DOMAIN bridge = Bridges
  /\ \A b \in Bridges :
       /\ Valid(b, bridge[b]) /\ InTime(b, bridge[b])
       /\ bridge[b].root <= b /\ \A p \in Ports(b) : bridge[b].port[p].role \in Role
       /\ Up(b) => RolesOf(b, bridge[b])

LinksRight ==
  /\ DOMAIN chan = Directions
  /\ \A d \in Directions : /\ chan[d] \in Seq(Bpdus(d[1]))
                           /\ chan[d] # <<>> \/ d \in late => Carries(d[1], d[2])
  /\ cut \subseteq Links /\ mended \subseteq Links /\ late \subseteq Directions
  /\ faults \in 0..MaxFaults /\ returns \in 0..MaxReturns

\* The inductive invariant.
Invariant == BridgesRight /\ LinksRight

\* initialize and start leave the bridge right, as its own root.
LEMMA StartBridgeSound ==
  ASSUME NEW b \in Bridges, NEW up \in {"up", "fresh"}, NEW old,
         \A p \in Ports(b) : old[p].fdWhile \in Nat /\ old[p].fdWhile < ForwardDelay
  PROVE  LET t == StartBridge(b, up, old) IN
         Valid(b, t) /\ RolesOf(b, t) /\ InTime(b, t) /\ t.up = up
<1> DEFINE ports == [p \in Ports(b) |-> InitPort(b, old[p])]
           s == [up |-> up, isRoot |-> TRUE, rootPort |-> Min(Ports(b)), root |-> b, cost |-> 0,
                 notice |-> up = "fresh", aging |-> "default", port |-> ports]
           roles == [p \in DOMAIN ports |-> [ports[p] EXCEPT !.role = "DESIGNATED"]]
           t == StartBridge(b, up, old)
<1>1. Min(Ports(b)) \in Ports(b)
  <2>1. \E x \in Ports(b) : \A y \in Ports(b) : x <= y
    BY Network, LeastNatural
  <2>. QED BY <2>1 DEF Min
<1>2. \A p \in Ports(b) :
        /\ ports[p].info = [root |-> b, cost |-> 0, bridge |-> b] /\ ports[p].age = 0
        /\ ports[p].state = "DISCARDING" /\ ports[p].role = "NOTASSIGNED"
        /\ ports[p].fdWhile = old[p].fdWhile /\ ports[p] \in PortData
  BY DEF InitPort, PortData
<1>3. t = [s EXCEPT !.port = roles] /\ DOMAIN ports = Ports(b)
  BY DEF StartBridge, SetAllDesignated
<1>. HIDE DEF ports
<1>4. /\ roles \in [Ports(b) -> PortData]
      /\ \A p \in Ports(b) :
           /\ roles[p].info = ports[p].info /\ roles[p].age = ports[p].age
           /\ roles[p].fdWhile = ports[p].fdWhile /\ roles[p].role = "DESIGNATED"
  BY <1>2, <1>3 DEF PortData, Role
<1>. HIDE DEF roles
<1>5. t = [up |-> up, isRoot |-> TRUE, rootPort |-> Min(Ports(b)), root |-> b, cost |-> 0,
           notice |-> up = "fresh", aging |-> "default", port |-> roles]
  BY <1>3
<1>. HIDE DEF t
<1>6. t \in BridgeData(b)
  BY <1>1, <1>4, <1>5 DEF BridgeData
<1>7. /\ t.isRoot /\ t.root = b /\ t.cost = 0 /\ t.up = up
      /\ \A p \in Ports(b) : /\ t.port[p].info = [root |-> b, cost |-> 0, bridge |-> b]
                             /\ t.port[p].role = "DESIGNATED" /\ t.port[p].age < MaxAge
                             /\ t.port[p].fdWhile < ForwardDelay
  BY <1>2, <1>4, <1>5, StpAssumption
<1>8. Valid(b, t) /\ InTime(b, t)
  BY <1>6, <1>7 DEF Valid, Heard, InTime
<1>9. RolesOf(b, t)
  BY <1>7, Network DEF RolesOf
<1>. QED BY <1>7, <1>8, <1>9 DEF t

\* What a handler may make of an active bridge.
Sound(b, r) == Valid(b, r) /\ RolesOf(b, r) /\ InTime(b, r)

\* The root of an active bridge is not above it, and every port has a role.
LEMMA SoundBridge ==
  ASSUME NEW b \in Bridges, NEW r, Sound(b, r)
  PROVE  r.root <= b /\ \A p \in Ports(b) : r.port[p].role \in Role
<1>1. r.root \in Nat /\ b \in Nat
  BY Network DEF Sound, Valid, BridgeData
<1>. QED BY <1>1 DEF Sound, RolesOf, Role

\* The network starts in the invariant.
LEMMA InitRight == Init => Invariant
<1> SUFFICES ASSUME Init PROVE Invariant
  OBVIOUS
<1> DEFINE old(b) == [p \in Ports(b) |-> [fdWhile |-> 0]]
<1>1. ASSUME NEW b \in Bridges
      PROVE  bridge[b] = StartBridge(b, "up", old(b)) /\ Sound(b, bridge[b])
  <2>1. bridge[b] = StartBridge(b, "up", old(b))
    BY DEF Init
  <2>2. \A p \in Ports(b) : old(b)[p].fdWhile \in Nat /\ old(b)[p].fdWhile < ForwardDelay
    BY StpAssumption
  <2>. HIDE DEF old
  <2>. QED BY <2>1, <2>2, StartBridgeSound DEF Sound
<1>2. BridgesRight
  <2>1. DOMAIN bridge = Bridges
    BY DEF Init
  <2>. QED BY <1>1, <2>1, SoundBridge DEF BridgesRight, Sound
<1>3. LinksRight
  BY StpAssumption DEF Init, LinksRight
<1>. QED BY <1>2, <1>3 DEF Invariant

\* A BPDU that arrives is one of its sender's, and the receiver is active.
LEMMA Arrives ==
  ASSUME Invariant, NEW a, NEW b, <<a, b>> \in Directions, chan[<<a, b>>] # <<>>
  PROVE  /\ a \in Bridges /\ b \in Bridges /\ a \in Ports(b) /\ b \in Ports(a)
         /\ chan[<<a, b>>] \in Seq(Bpdus(a)) /\ Head(chan[<<a, b>>]) \in Bpdus(a)
         /\ Up(b) /\ Carries(a, b) /\ Sound(b, bridge[b])
<1>1. a \in Bridges /\ b \in Bridges /\ a \in Ports(b) /\ b \in Ports(a)
  BY Network
<1>2. chan[<<a, b>>] \in Seq(Bpdus(a)) /\ Carries(a, b)
  BY DEF Invariant, LinksRight
<1>3. Head(chan[<<a, b>>]) \in Bpdus(a)
  BY <1>2, HeadTailProperties
<1>4. Up(b)
  BY <1>2 DEF Carries
<1>. QED BY <1>1, <1>2, <1>3, <1>4 DEF Invariant, BridgesRight, Sound

\* The answer to a BPDU.
Answer(a, b) ==
  IF Head(chan[<<a, b>>]) = TCN THEN HandleTCN(b, bridge[b], a)
                            ELSE HandleBPDU(b, bridge[b], a, Head(chan[<<a, b>>]))

\* What the handler of a BPDU makes of the bridge it arrives at.
LEMMA AnswerSound ==
  ASSUME Invariant, NEW a, NEW b, <<a, b>> \in Directions, chan[<<a, b>>] # <<>>
  PROVE  LET done == Answer(a, b) IN
         /\ Sound(b, done.r) /\ done.r.up = bridge[b].up
         /\ NotWorse(bridge[b], done.r) /\ Sends(b, done)
<1>1. /\ a \in Ports(b) /\ b \in Bridges /\ Head(chan[<<a, b>>]) \in Bpdus(a) /\ Sound(b, bridge[b])
  BY Arrives
<1>2. CASE Head(chan[<<a, b>>]) = TCN
  <2>1. Answer(a, b) = HandleTCN(b, bridge[b], a)
    BY <1>2 DEF Answer
  <2>. QED BY <1>1, <2>1, HandleTCNSound DEF Sound
<1>3. CASE Head(chan[<<a, b>>]) # TCN
  <2>1. Answer(a, b) = HandleBPDU(b, bridge[b], a, Head(chan[<<a, b>>]))
    BY <1>3 DEF Answer
  <2>. QED BY <1>1, <1>3, <2>1, HandleBPDUSound DEF Sound
<1>. QED BY <1>2, <1>3

-----------------------------------------------------------------------------
(***************************************************************************)
(* Every step keeps the invariant.                                          *)
(***************************************************************************)

\* The bridges stay right if each is as it was or as a handler leaves it.
LEMMA BridgesStayRight ==
  ASSUME Invariant, DOMAIN bridge' = Bridges,
         \A b \in Bridges : \/ bridge'[b] = bridge[b]
                            \/ Sound(b, bridge'[b])
  PROVE  BridgesRight'
<1> SUFFICES ASSUME NEW b \in Bridges
             PROVE  /\ Valid(b, bridge'[b]) /\ InTime(b, bridge'[b]) /\ bridge'[b].root <= b
                    /\ \A p \in Ports(b) : bridge'[b].port[p].role \in Role
                    /\ bridge'[b].up # "down" => RolesOf(b, bridge'[b])
  BY DEF BridgesRight, Up
<1>1. CASE Sound(b, bridge'[b])
  BY <1>1, SoundBridge DEF Sound
<1>2. CASE bridge'[b] = bridge[b]
  BY <1>2 DEF Invariant, BridgesRight, Up
<1>. QED BY <1>1, <1>2

\* The arrival of a BPDU keeps the invariant and worsens the root of no bridge.
LEMMA DeliverRight ==
  ASSUME Invariant, NEW a, NEW b, <<a, b>> \in Directions, Deliver(a, b)
  PROVE  Invariant' /\ \A c \in Bridges : NotWorse(bridge[c], bridge'[c])
<1> DEFINE done == Answer(a, b)
           back == /\ Head(chan[<<a, b>>]) = TCN /\ Carries(b, a) /\ TCN \in ToSet(done.out[a])
           cropped == [done.out EXCEPT ![a] = Front(@)]
           out  == IF back /\ returns = MaxReturns THEN cropped ELSE done.out
<1>1. chan[<<a, b>>] # <<>>
  BY DEF Deliver, Ready
<1>2. /\ bridge' = [bridge EXCEPT ![b] = done.r]
      /\ chan' = [d \in Directions |->
              IF d = <<a, b>> THEN Tail(chan[d])
              ELSE IF d[1] = b THEN chan[d] \o Sent(b, d[2], out) ELSE chan[d]]
      /\ returns' = IF back THEN Min({returns + 1, MaxReturns}) ELSE returns
      /\ late' = IF back /\ returns = MaxReturns THEN late \cup {<<b, a>>} ELSE late
      /\ UNCHANGED <<cut, mended, faults>>
  BY DEF Deliver, Answer
<1>3. /\ a \in Bridges /\ b \in Bridges /\ a \in Ports(b) /\ b \in Ports(a)
      /\ chan[<<a, b>>] \in Seq(Bpdus(a)) /\ Up(b) /\ Carries(a, b) /\ Sound(b, bridge[b])
  BY <1>1, Arrives
<1>4. /\ Sound(b, done.r) /\ done.r.up = bridge[b].up
      /\ NotWorse(bridge[b], done.r) /\ Sends(b, done)
  BY <1>1, AnswerSound
<1>. HIDE DEF done
<1>5. /\ DOMAIN bridge' = Bridges /\ bridge'[b] = done.r
      /\ \A c \in Bridges \ {b} : bridge'[c] = bridge[c]
  BY <1>2, <1>3 DEF Invariant, BridgesRight
<1>6. BridgesRight'
  BY <1>4, <1>5, BridgesStayRight
<1>7. \A c \in Bridges : NotWorse(bridge[c], bridge'[c])
  <2>1. \A c \in Bridges : bridge[c].root \in Nat /\ bridge[c].cost \in Nat
    BY Network DEF Invariant, BridgesRight, Valid, BridgeData
  <2>. QED BY <1>4, <1>5, <2>1 DEF NotWorse
<1>8. ASSUME NEW x, NEW y, <<x, y>> \in Directions PROVE Carries(x, y)' = Carries(x, y)
  <2>1. x \in Bridges /\ y \in Bridges
    BY <1>8, Network
  <2>2. \A c \in Bridges : bridge'[c].up = bridge[c].up
    BY <1>4, <1>5
  <2>. QED BY <1>2, <2>1, <2>2 DEF Carries, Up
<1>9. \A c \in Ports(b) : out[c] \in Seq(Bpdus(b))
  <2>1. \A c \in Ports(b) : done.out[c] \in Seq(Bpdus(b))
    BY <1>4 DEF Sends
  <2>2. back => Front(done.out[a]) \in Seq(Bpdus(b))
    <3>1. done.out[a] \in Seq(Bpdus(b))
      BY <1>3, <2>1
    <3>2. \A i \in 1..Len(done.out[a]) - 1 : done.out[a][i] \in Bpdus(b)
      BY <3>1
    <3>3. Len(done.out[a]) - 1 \in Int
      BY <3>1
    <3>. QED BY <3>2, <3>3, SubSeqProperties DEF Front
  <2>3. CASE out = done.out
    BY <2>1, <2>3
  <2>4. CASE back /\ out = cropped
    <3>1. \A c \in Ports(b) : cropped[c] = IF c = a THEN Front(done.out[a]) ELSE done.out[c]
      BY <1>4 DEF Sends
    <3>. QED BY <2>1, <2>2, <2>4, <3>1
  <2>. QED BY <2>3, <2>4
<1>. HIDE DEF out, back
<1>10. ASSUME NEW x, NEW y, <<x, y>> \in Directions
       PROVE  /\ chan'[<<x, y>>] \in Seq(Bpdus(x))
              /\ chan'[<<x, y>>] # <<>> \/ <<x, y>> \in late' => Carries(x, y)
  <2>1. chan[<<x, y>>] \in Seq(Bpdus(x)) /\ (chan[<<x, y>>] # <<>> \/ <<x, y>> \in late => Carries(x, y))
    BY <1>10 DEF Invariant, LinksRight
  <2>2. <<x, y>> \in late' => Carries(x, y)
    BY <1>2, <2>1 DEF back
  <2>3. CASE <<x, y>> = <<a, b>>
    <3>1. chan'[<<x, y>>] = Tail(chan[<<x, y>>])
      BY <1>2, <1>10, <2>3
    <3>. QED BY <1>1, <1>3, <2>2, <2>3, <3>1, HeadTailProperties
  <2>4. CASE <<x, y>> # <<a, b>> /\ x = b
    <3>1. chan'[<<x, y>>] = chan[<<x, y>>] \o Sent(b, y, out)
      BY <1>2, <1>10, <2>4
    <3>2. Sent(b, y, out) \in Seq(Bpdus(b)) /\ (Sent(b, y, out) # <<>> => Carries(b, y))
      BY <1>9, <1>10, <2>4, Network DEF Sent
    <3>3. chan'[<<x, y>>] = <<>> => chan[<<x, y>>] = <<>> /\ Sent(b, y, out) = <<>>
      <4>1. chan[<<x, y>>] \in Seq(Bpdus(b))
        BY <2>1, <2>4
      <4>. HIDE DEF Sent
      <4>2. chan[<<x, y>>] \o Sent(b, y, out) = <<>> <=> chan[<<x, y>>] = <<>> /\ Sent(b, y, out) = <<>>
        BY <3>2, <4>1, ConcatEqualIffEmpty
      <4>. QED BY <3>1, <4>2
    <3>. QED BY <2>1, <2>2, <2>4, <3>1, <3>2, <3>3, ConcatProperties
  <2>5. CASE <<x, y>> # <<a, b>> /\ x # b
    <3>1. chan'[<<x, y>>] = chan[<<x, y>>]
      BY <1>2, <1>10, <2>5
    <3>. QED BY <2>1, <2>2, <3>1
  <2>. QED BY <2>3, <2>4, <2>5
<1>11. DOMAIN chan' = Directions /\ late' \subseteq Directions /\ returns' \in 0..MaxReturns
  <2>1. <<b, a>> \in Directions
    BY <1>3, Network
  <2>2. returns + 1 \in Nat /\ MaxReturns \in Nat /\ returns \in 0..MaxReturns
    BY StpAssumption DEF Invariant, LinksRight
  <2>3. Min({returns + 1, MaxReturns}) \in 0..MaxReturns
    <3>1. PICK z \in {returns + 1, MaxReturns} : \A w \in {returns + 1, MaxReturns} : z <= w
      BY <2>2
    <3>2. Min({returns + 1, MaxReturns}) = z
      BY <2>2, <3>1 DEF Min
    <3>. QED BY <2>2, <3>1, <3>2
  <2>. QED BY <1>2, <2>1, <2>2, <2>3 DEF Invariant, LinksRight
<1>12. LinksRight'
  <2>1. \A d \in Directions : d = <<d[1], d[2]>>
    BY DEF Directions
  <2>2. \A d \in Directions : /\ chan'[d] \in Seq(Bpdus(d[1]))
                              /\ chan'[d] # <<>> \/ d \in late' => Carries(d[1], d[2])'
    BY <1>8, <1>10, <2>1
  <2>. QED BY <1>2, <1>11, <2>2 DEF Invariant, LinksRight
<1>. QED BY <1>6, <1>7, <1>12 DEF Invariant

\* What the tick of an instant makes of a bridge.
Ticked(b) == IF bridge[b].up = "up" THEN HandleTick(b, bridge[b]) ELSE Done(bridge[b], {}, {})

\* What a tick makes of a bridge, active or not.
LEMMA TickedSound ==
  ASSUME Invariant, NEW b \in Bridges
  PROVE  /\ Ticked(b).r.up = bridge[b].up /\ Sends(b, Ticked(b))
         /\ Ticked(b).r = bridge[b] \/ Sound(b, Ticked(b).r)
         /\ \/ NotWorse(bridge[b], Ticked(b).r)
            \/ /\ Up(b) /\ ~bridge[b].isRoot
               /\ bridge[b].port[bridge[b].rootPort].age = MaxAge - 1
<1>1. /\ Valid(b, bridge[b]) /\ InTime(b, bridge[b]) /\ (Up(b) => RolesOf(b, bridge[b]))
      /\ bridge[b].root \in Nat /\ bridge[b].cost \in Nat /\ DOMAIN bridge[b].port = Ports(b)
      /\ bridge[b].rootPort \in Ports(b)
      /\ \A p \in Ports(b) : bridge[b].port[p].age \in Nat
  <2>1. Valid(b, bridge[b]) /\ InTime(b, bridge[b]) /\ (Up(b) => RolesOf(b, bridge[b]))
    BY DEF Invariant, BridgesRight
  <2>. QED BY <2>1, Network DEF Valid, BridgeData, PortData
<1>2. CASE bridge[b].up = "up"
  <2> DEFINE done == HandleTick(b, bridge[b])
  <2>1. Up(b) /\ Ticked(b) = done
    BY <1>2 DEF Up, Ticked
  <2>2. /\ Valid(b, done.r) /\ RolesOf(b, done.r) /\ InTime(b, done.r)
        /\ done.r.up = bridge[b].up /\ Sends(b, done)
        /\ bridge[b].isRoot \/ bridge[b].port[bridge[b].rootPort].age + 1 < MaxAge
             => SameRoot(bridge[b], done.r)
    BY <1>1, <2>1, HandleTickSound
  <2>. HIDE DEF done
  <2>3. SameRoot(bridge[b], done.r) => NotWorse(bridge[b], done.r)
    BY <1>1 DEF SameRoot, NotWorse
  <2>4. \/ bridge[b].port[bridge[b].rootPort].age + 1 < MaxAge
        \/ bridge[b].port[bridge[b].rootPort].age = MaxAge - 1
    BY <1>1, StpAssumption DEF InTime
  <2>. QED BY <2>1, <2>2, <2>3, <2>4 DEF Sound
<1>3. CASE bridge[b].up # "up"
  <2>1. Ticked(b).r = bridge[b] /\ Ticked(b).out = [p \in Ports(b) |-> <<>>]
    BY <1>1, <1>3 DEF Ticked, Done
  <2>. QED BY <1>1, <2>1 DEF Sends, NotWorse
<1>. QED BY <1>2, <1>3

\* A tick keeps the invariant, and worsens the root of a bridge only when the
\* information of its root port reaches maxAge.
LEMMA TickRight ==
  ASSUME Invariant, Tick
  PROVE  /\ Invariant'
         /\ \A b \in Bridges :
              \/ NotWorse(bridge[b], bridge'[b])
              \/ /\ Up(b) /\ ~bridge[b].isRoot
                 /\ bridge[b].port[bridge[b].rootPort].age = MaxAge - 1
<1> DEFINE Woken(r) == [r EXCEPT !.up = IF @ = "fresh" THEN "up" ELSE @]
<1>1. /\ bridge' = [b \in Bridges |-> Woken(Ticked(b).r)]
      /\ chan' = [d \in Directions |->
              (IF d \in late THEN <<TCN>> ELSE <<>>) \o Sent(d[1], d[2], Ticked(d[1]).out)]
      /\ returns' = 0 /\ late' = {} /\ UNCHANGED <<cut, mended, faults>>
  <2>1. \A d \in Directions : d[1] \in Bridges
    BY DEF Directions
  <2>. QED BY <2>1 DEF Tick, Ticked
<1>2. ASSUME NEW b \in Bridges, NEW r, Valid(b, r)
      PROVE  /\ Valid(b, Woken(r))
             /\ InTime(b, r) => InTime(b, Woken(r))
             /\ RolesOf(b, r) => RolesOf(b, Woken(r))
             /\ Woken(r).up = "down" <=> r.up = "down"
             /\ Woken(r).root = r.root /\ Woken(r).cost = r.cost /\ Woken(r).port = r.port
  <2>1. /\ Woken(r) \in BridgeData(b) /\ Woken(r).port = r.port /\ SameRoot(r, Woken(r))
        /\ Woken(r).up = "down" <=> r.up = "down"
    BY <1>2 DEF Valid, BridgeData, SameRoot
  <2>. HIDE DEF Woken
  <2>2. Own(b, Woken(r)) = Own(b, r)
    BY <2>1 DEF Own, SameRoot
  <2>. QED BY <1>2, <2>1, <2>2 DEF Valid, InTime, RolesOf, SameRoot
<1>. HIDE DEF Woken
<1>3. ASSUME NEW b \in Bridges
      PROVE  /\ Valid(b, bridge'[b]) /\ InTime(b, bridge'[b])
             /\ bridge'[b].root <= b /\ \A p \in Ports(b) : bridge'[b].port[p].role \in Role
             /\ Up(b)' = Up(b)
             /\ Up(b) => RolesOf(b, bridge'[b])
             /\ \/ NotWorse(bridge[b], bridge'[b])
                \/ /\ Up(b) /\ ~bridge[b].isRoot
                   /\ bridge[b].port[bridge[b].rootPort].age = MaxAge - 1
  <2> DEFINE r == Ticked(b).r
  <2>1. /\ r.up = bridge[b].up
        /\ r = bridge[b] \/ Sound(b, r)
        /\ \/ NotWorse(bridge[b], r)
           \/ /\ Up(b) /\ ~bridge[b].isRoot
              /\ bridge[b].port[bridge[b].rootPort].age = MaxAge - 1
    BY TickedSound
  <2>2. bridge'[b] = Woken(r)
    BY <1>1
  <2>. HIDE DEF r
  <2>3. /\ Valid(b, r) /\ InTime(b, r)
        /\ Up(b) => RolesOf(b, r)
        /\ r.root <= b /\ \A p \in Ports(b) : r.port[p].role \in Role
    BY <2>1, SoundBridge DEF Sound, Invariant, BridgesRight
  <2>4. Up(b)' = Up(b)
    BY <1>2, <2>1, <2>2, <2>3 DEF Up
  <2>. QED BY <1>2, <2>1, <2>2, <2>3, <2>4 DEF NotWorse
<1>4. BridgesRight'
  <2>1. DOMAIN bridge' = Bridges
    BY <1>1
  <2>2. \A b \in Bridges : Up(b)' => RolesOf(b, bridge'[b])
    BY <1>3
  <2>. QED BY <1>3, <2>1, <2>2 DEF BridgesRight
<1>5. ASSUME NEW x, NEW y, <<x, y>> \in Directions
      PROVE  /\ chan'[<<x, y>>] \in Seq(Bpdus(x))
             /\ chan'[<<x, y>>] # <<>> => Carries(x, y)'
  <2> DEFINE first == IF <<x, y>> \in late THEN <<TCN>> ELSE <<>>
             rest  == Sent(x, y, Ticked(x).out)
  <2>1. x \in Bridges /\ y \in Bridges /\ y \in Ports(x)
    BY <1>5, Network
  <2>2. Carries(x, y)' = Carries(x, y)
    BY <1>1, <1>3, <2>1 DEF Carries
  <2>3. first \in Seq(Bpdus(x)) /\ (first # <<>> => Carries(x, y))
    <3>1. TCN \in Bpdus(x)
      BY DEF Bpdus
    <3>. QED BY <1>5, <3>1 DEF Invariant, LinksRight
  <2>4. rest \in Seq(Bpdus(x)) /\ (rest # <<>> => Carries(x, y))
    <3>1. Sends(x, Ticked(x))
      BY <2>1, TickedSound
    <3>. QED BY <2>1, <3>1 DEF Sent, Sends
  <2>5. chan'[<<x, y>>] = first \o rest
    BY <1>1, <1>5
  <2>. HIDE DEF first, rest
  <2>6. first \o rest \in Seq(Bpdus(x)) /\ (first \o rest = <<>> <=> first = <<>> /\ rest = <<>>)
    BY <2>3, <2>4, ConcatProperties, ConcatEqualIffEmpty
  <2>. QED BY <2>2, <2>3, <2>4, <2>5, <2>6
<1>6. LinksRight'
  <2>1. \A d \in Directions : d = <<d[1], d[2]>>
    BY DEF Directions
  <2>2. \A d \in Directions : /\ chan'[d] \in Seq(Bpdus(d[1]))
                              /\ chan'[d] # <<>> => Carries(d[1], d[2])'
    BY <1>5, <2>1
  <2>3. DOMAIN chan' = Directions /\ returns' \in 0..MaxReturns
    BY <1>1, StpAssumption
  <2>. QED BY <1>1, <2>2, <2>3 DEF Invariant, LinksRight
<1>. QED BY <1>3, <1>4, <1>6 DEF Invariant

\* A command finds the links quiet and leaves them so.
LEMMA FaultRight ==
  ASSUME Invariant, NEW f, Fault(f), chan' = chan, returns' = returns,
         cut' \subseteq Links, mended' \subseteq Links, late' \subseteq late,
         \A d \in late' : Carries(d[1], d[2])'
  PROVE  LinksRight'
<1>1. \A d \in Directions : chan'[d] = <<>>
  BY DEF Fault, Quiet
<1>2. faults' \in 0..MaxFaults
  BY StpAssumption DEF Fault, Invariant, LinksRight
<1>. QED BY <1>1, <1>2 DEF Invariant, LinksRight

\* Cutting a link keeps the invariant.
LEMMA CutRight ==
  ASSUME Invariant, NEW link \in Links, Cut(link)
  PROVE  Invariant'
<1>1. /\ Fault("cut") /\ cut' \subseteq Links /\ mended' \subseteq Links
      /\ cut' = cut \cup {link} /\ UNCHANGED <<bridge, chan, returns>>
      /\ late' = {d \in late : {d[1], d[2]} # link}
  BY DEF Cut, Invariant, LinksRight
<1>2. \A d \in late' : Carries(d[1], d[2])'
  BY <1>1 DEF Invariant, LinksRight, Carries, Up
<1>3. BridgesRight'
  BY <1>1 DEF Invariant, BridgesRight, Up
<1>. QED BY <1>1, <1>2, <1>3, FaultRight DEF Invariant

\* Mending a link keeps the invariant.
LEMMA MendRight ==
  ASSUME Invariant, NEW link \in Links, Mend(link)
  PROVE  Invariant'
<1>1. /\ Fault("mend") /\ cut' \subseteq Links /\ mended' \subseteq Links
      /\ cut' = cut \ {link} /\ UNCHANGED <<bridge, chan, returns, late>>
  BY DEF Mend, Invariant, LinksRight
<1>2. \A d \in late' : Carries(d[1], d[2])'
  BY <1>1 DEF Invariant, LinksRight, Carries, Up
<1>3. BridgesRight'
  BY <1>1 DEF Invariant, BridgesRight, Up
<1>. QED BY <1>1, <1>2, <1>3, FaultRight DEF Invariant

\* Stopping a bridge keeps the invariant: it keeps its data, and no BPDU is underway to it.
LEMMA StopRight ==
  ASSUME Invariant, NEW b \in Bridges, Stop(b)
  PROVE  Invariant' /\ \A c \in Bridges : NotWorse(bridge[c], bridge'[c])
<1> DEFINE s == [bridge[b] EXCEPT !.up = "down", !.isRoot = FALSE, !.notice = TRUE]
<1>1. /\ Fault("stop") /\ UNCHANGED <<chan, cut, mended, returns>>
      /\ bridge' = [bridge EXCEPT ![b] = s]
      /\ late' = {d \in late : b \notin {d[1], d[2]}}
  BY DEF Stop
<1>2. /\ Valid(b, bridge[b]) /\ InTime(b, bridge[b]) /\ DOMAIN bridge = Bridges
      /\ bridge[b].root <= b /\ \A p \in Ports(b) : bridge[b].port[p].role \in Role
  BY DEF Invariant, BridgesRight
<1>3. /\ s \in BridgeData(b) /\ s.port = bridge[b].port /\ s.up = "down"
      /\ s.root = bridge[b].root /\ s.cost = bridge[b].cost
  BY <1>2 DEF Valid, BridgeData
<1>4. Valid(b, s) /\ InTime(b, s)
  <2>. HIDE DEF s
  <2>. QED BY <1>2, <1>3 DEF Valid, InTime
<1>. HIDE DEF s
<1>5. bridge'[b] = s /\ (\A c \in Bridges \ {b} : bridge'[c] = bridge[c]) /\ DOMAIN bridge' = Bridges
  BY <1>1, <1>2
<1>6. BridgesRight'
  <2>1. ASSUME NEW c \in Bridges
        PROVE  /\ Valid(c, bridge'[c]) /\ InTime(c, bridge'[c]) /\ bridge'[c].root <= c
               /\ \A p \in Ports(c) : bridge'[c].port[p].role \in Role
               /\ bridge'[c].up # "down" => RolesOf(c, bridge'[c])
    <3>1. CASE c = b
      BY <1>2, <1>3, <1>4, <1>5, <3>1
    <3>2. CASE c # b
      BY <1>5, <3>2 DEF Invariant, BridgesRight, Up
    <3>. QED BY <3>1, <3>2
  <2>. QED BY <1>5, <2>1 DEF BridgesRight, Up
<1>7. \A d \in late' : Carries(d[1], d[2])'
  <2>1. ASSUME NEW d \in late' PROVE Carries(d[1], d[2])'
    <3>1. Carries(d[1], d[2]) /\ d[1] # b /\ d[2] # b /\ d[1] \in Bridges /\ d[2] \in Bridges
      BY <1>1 DEF Invariant, LinksRight, Directions
    <3>. QED BY <1>1, <1>5, <3>1 DEF Carries, Up
  <2>. QED BY <2>1
<1>8. \A c \in Bridges : NotWorse(bridge[c], bridge'[c])
  <2>1. \A c \in Bridges : bridge[c].root \in Nat /\ bridge[c].cost \in Nat
    BY Network DEF Invariant, BridgesRight, Valid, BridgeData
  <2>. QED BY <1>3, <1>5, <2>1 DEF NotWorse
<1>9. LinksRight'
  BY <1>1, <1>7, FaultRight DEF Invariant, LinksRight
<1>. QED BY <1>6, <1>8, <1>9 DEF Invariant

\* Starting a bridge keeps the invariant.
LEMMA StartRight ==
  ASSUME Invariant, NEW b \in Bridges, Start(b)
  PROVE  Invariant' /\ \A c \in Bridges \ {b} : bridge'[c] = bridge[c]
<1> DEFINE s == StartBridge(b, "fresh", bridge[b].port)
<1>1. /\ Fault("start") /\ ~Up(b) /\ UNCHANGED <<chan, cut, mended, returns, late>>
      /\ bridge' = [bridge EXCEPT ![b] = s]
  BY DEF Start
<1>2. /\ Valid(b, bridge[b]) /\ InTime(b, bridge[b]) /\ DOMAIN bridge = Bridges
  BY DEF Invariant, BridgesRight
<1>3. Sound(b, s) /\ s.up = "fresh"
  <2>1. \A p \in Ports(b) : bridge[b].port[p].fdWhile \in Nat /\ bridge[b].port[p].fdWhile < ForwardDelay
    BY <1>2 DEF Valid, BridgeData, PortData, InTime
  <2>. QED BY <2>1, StartBridgeSound DEF Sound
<1>. HIDE DEF s
<1>4. bridge'[b] = s /\ (\A c \in Bridges \ {b} : bridge'[c] = bridge[c]) /\ DOMAIN bridge' = Bridges
  BY <1>1, <1>2
<1>5. BridgesRight'
  BY <1>3, <1>4, BridgesStayRight
<1>6. \A d \in late' : Carries(d[1], d[2])'
  <2>1. ASSUME NEW d \in late' PROVE Carries(d[1], d[2])'
    <3>1. Carries(d[1], d[2]) /\ d[1] \in Bridges /\ d[2] \in Bridges
      BY <1>1 DEF Invariant, LinksRight, Directions
    <3>. QED BY <1>1, <1>3, <1>4, <3>1 DEF Carries, Up
  <2>. QED BY <2>1
<1>7. LinksRight'
  BY <1>1, <1>6, FaultRight DEF Invariant, LinksRight
<1>. QED BY <1>4, <1>5, <1>7 DEF Invariant

\* Every step keeps the invariant.
LEMMA StepRight == Invariant /\ [Next]_vars => Invariant'
<1> SUFFICES ASSUME Invariant, [Next]_vars PROVE Invariant'
  OBVIOUS
<1>1. ASSUME NEW d \in Directions, Deliver(d[1], d[2]) PROVE Invariant'
  <2>1. d = <<d[1], d[2]>>
    BY DEF Directions
  <2>. QED BY <1>1, <2>1, DeliverRight
<1>2. CASE Tick
  BY <1>2, TickRight
<1>3. ASSUME NEW link \in Links, Cut(link) PROVE Invariant'
  BY <1>3, CutRight
<1>4. ASSUME NEW link \in Links, Mend(link) PROVE Invariant'
  BY <1>4, MendRight
<1>5. ASSUME NEW b \in Bridges, Stop(b) PROVE Invariant'
  BY <1>5, StopRight
<1>6. ASSUME NEW b \in Bridges, Start(b) PROVE Invariant'
  BY <1>6, StartRight
<1>7. CASE UNCHANGED vars
  BY <1>7 DEF vars, Invariant, BridgesRight, LinksRight, Carries, Up
<1>. QED BY <1>1, <1>2, <1>3, <1>4, <1>5, <1>6, <1>7 DEF Next

\* The invariant of the spanning tree protocol, on every network, with every maxAge and
\* forwardDelay, whatever is cut, mended, stopped and started.
THEOREM Inductive == Spec => []Invariant
BY InitRight, StepRight, PTL DEF Spec

\* The invariant implies the types.
LEMMA InvariantTypes == Invariant => TypeOK
<1> SUFFICES ASSUME Invariant PROVE TypeOK
  OBVIOUS
<1>1. ASSUME NEW b \in Bridges
      PROVE  /\ bridge[b].up \in {"up", "fresh", "down"} /\ bridge[b].rootPort \in Ports(b)
             /\ bridge[b].root \in Bridges /\ bridge[b].root <= b /\ bridge[b].cost \in Nat
             /\ {bridge[b].isRoot, bridge[b].notice} \subseteq BOOLEAN
             /\ bridge[b].aging \in {"default", "short"}
  BY DEF Invariant, BridgesRight, Valid, BridgeData
<1>2. ASSUME NEW b \in Bridges, NEW p \in Ports(b)
      PROVE  /\ bridge[b].port[p].role \in Role
             /\ bridge[b].port[p].state \in {"DISCARDING", "LEARNING", "FORWARDING"}
             /\ bridge[b].port[p].age \in 0..MaxAge - 1
             /\ bridge[b].port[p].fdWhile \in 0..ForwardDelay
             /\ bridge[b].port[p].info.root \in Bridges
  <2>1. /\ bridge[b].port[p] \in PortData /\ bridge[b].port[p].role \in Role
        /\ bridge[b].port[p].age < MaxAge /\ bridge[b].port[p].fdWhile < ForwardDelay
    BY DEF Invariant, BridgesRight, Valid, BridgeData, InTime
  <2>. QED BY <2>1, StpAssumption DEF PortData
<1>3. ASSUME NEW d \in Directions, NEW i \in DOMAIN chan[d]
      PROVE  chan[d][i].type \in {"config", "tcn"}
  <2>1. chan[d][i] \in Bpdus(d[1])
    BY DEF Invariant, LinksRight
  <2>. QED BY <2>1 DEF Bpdus, TCN
<1>. QED BY <1>1, <1>2, <1>3 DEF TypeOK, Invariant, LinksRight

\* TypeOK: every port has one of the three roles when a handler of STP.cc is done, its
\* counters are within maxAge and forwardDelay, and the root is a bridge not above it.
THEOREM TypeCorrect == Spec => []TypeOK
BY Inductive, InvariantTypes, PTL

-----------------------------------------------------------------------------
\* An active bridge turns to a worse root, or to a longer way to the same, only in
\* handleTick and only if the information of its root port is maxAge old: no BPDU, in
\* whatever order they come, and no notification does it (STP.cc handleBPDU, handleTCN,
\* checkTimers).  It is the part of OnlyImproves that does not depend on the timing.
THEOREM WorseByAge == Spec => [][OnlyAgeWorsens]_vars
<1>1. ASSUME Invariant, [Next]_vars PROVE [OnlyAgeWorsens]_vars
  <2>. SUFFICES ASSUME Next PROVE OnlyAgeWorsens
    BY <1>1
  <2>. USE <1>1
  <2>1. \A b \in Bridges : NotWorse(bridge[b], bridge[b])
    <3>1. \A b \in Bridges : bridge[b].root \in Nat /\ bridge[b].cost \in Nat
      BY Network DEF Invariant, BridgesRight, Valid, BridgeData
    <3>. QED BY <3>1 DEF NotWorse
  <2>2. ASSUME NEW d \in Directions, Deliver(d[1], d[2]) PROVE OnlyAgeWorsens
    <3>1. d = <<d[1], d[2]>>
      BY DEF Directions
    <3>. QED BY <2>2, <3>1, DeliverRight DEF OnlyAgeWorsens
  <2>3. CASE Tick
    BY <2>3, TickRight DEF OnlyAgeWorsens, RootIsOld
  <2>4. ASSUME NEW link \in Links, Cut(link) \/ Mend(link) PROVE OnlyAgeWorsens
    BY <2>1, <2>4 DEF OnlyAgeWorsens, Cut, Mend
  <2>5. ASSUME NEW b \in Bridges, Stop(b) PROVE OnlyAgeWorsens
    BY <2>5, StopRight DEF OnlyAgeWorsens
  <2>6. ASSUME NEW b \in Bridges, Start(b) PROVE OnlyAgeWorsens
    BY <2>1, <2>6, StartRight DEF OnlyAgeWorsens, Start
  <2>. QED BY <2>2, <2>3, <2>4, <2>5, <2>6 DEF Next
<1>. QED BY <1>1, Inductive, PTL DEF Spec

\* An active bridge is its own root if no port has heard of a lower one; otherwise its
\* root and cost are the best it has heard, the port that heard it is the root port, and
\* the others are designated exactly where the bridge has more to tell than they heard.
RolesChosen == \A b \in Bridges : Up(b) => RolesOf(b, bridge[b])

\* The roles that isSuperiorBPDU, checkTimers, tryRoot and start leave, though they are
\* chosen anew only here and there, are at all times those the information calls for.
THEOREM RolesFollowInformation == Spec => []RolesChosen
<1>1. Invariant => RolesChosen
  BY DEF Invariant, BridgesRight, RolesChosen
<1>. QED BY <1>1, Inductive, PTL

-----------------------------------------------------------------------------
(***************************************************************************)
(* Where all is settled there is a spanning tree.                           *)
(***************************************************************************)

\* What the invariant says of an active bridge.
LEMMA ActiveBridge ==
  ASSUME Invariant, NEW b \in Bridges, Up(b)
  PROVE  /\ RolesOf(b, bridge[b]) /\ bridge[b].rootPort \in Ports(b)
         /\ b \in Nat /\ bridge[b].root \in Nat /\ bridge[b].cost \in Nat
         /\ \A p \in Ports(b) : /\ bridge[b].port[p].info \in [root : Nat, cost : Nat, bridge : Nat]
                                /\ bridge[b].port[p].role \in Role
<1>1. Valid(b, bridge[b]) /\ RolesOf(b, bridge[b])
      /\ \A p \in Ports(b) : bridge[b].port[p].role \in Role
  BY DEF Invariant, BridgesRight
<1>. QED BY <1>1, Network DEF Valid, BridgeData, PortData

\* On a settled link exactly one of the two ports is designated, and the other has heard
\* what that bridge says.
LEMMA OneSpeaks ==
  ASSUME Invariant, Settled, NEW a, NEW b, <<a, b>> \in Directions, Carries(a, b)
  PROVE  /\ bridge[a].port[b].role = "DESIGNATED" <=> bridge[b].port[a].role # "DESIGNATED"
         /\ bridge[a].port[b].role = "DESIGNATED" => bridge[b].port[a].info = Own(a, bridge[a])
<1>1. /\ a \in Bridges /\ b \in Bridges /\ a \in Ports(b) /\ b \in Ports(a) /\ a # b
      /\ <<b, a>> \in Directions
  BY Network
<1>2. {a, b} = {b, a} /\ Carries(b, a) /\ Up(a) /\ Up(b)
  <2>1. {a, b} = {b, a}
    OBVIOUS
  <2>. QED BY <2>1 DEF Carries
<1>3. /\ IF bridge[a].port[b].role = "DESIGNATED"
         THEN bridge[b].port[a].info = Own(a, bridge[a]) ELSE bridge[b].port[a].role = "DESIGNATED"
      /\ IF bridge[b].port[a].role = "DESIGNATED"
         THEN bridge[a].port[b].info = Own(b, bridge[b]) ELSE bridge[a].port[b].role = "DESIGNATED"
  BY <1>1, <1>2 DEF Settled
<1>4. ASSUME bridge[a].port[b].role = "DESIGNATED", bridge[b].port[a].role = "DESIGNATED" PROVE FALSE
  <2>1. /\ bridge[b].port[a].info = [root |-> bridge[a].root, cost |-> bridge[a].cost + 1, bridge |-> a]
        /\ bridge[a].port[b].info = [root |-> bridge[b].root, cost |-> bridge[b].cost + 1, bridge |-> b]
    BY <1>3, <1>4 DEF Own
  <2>2. ASSUME NEW x \in Bridges, NEW y \in Ports(x), Up(x), bridge[x].port[y].role = "DESIGNATED"
        PROVE  \/ bridge[x].root = x /\ bridge[x].cost = 0 /\ bridge[x].port[y].info.root >= x
               \/ bridge[x].root < x /\ Better(Own(x, bridge[x]), bridge[x].port[y].info)
    BY <2>2, ActiveBridge DEF RolesOf
  <2>3. /\ a \in Nat /\ bridge[a].root \in Nat /\ bridge[a].cost \in Nat
        /\ b \in Nat /\ bridge[b].root \in Nat /\ bridge[b].cost \in Nat
    BY <1>1, <1>2, ActiveBridge
  <2>4. \/ bridge[a].root = a /\ bridge[a].cost = 0 /\ bridge[b].root >= a
        \/ bridge[a].root < a /\ Better(Own(a, bridge[a]), Own(b, bridge[b]))
    BY <1>1, <1>2, <1>4, <2>1, <2>2 DEF Own
  <2>5. \/ bridge[b].root = b /\ bridge[b].cost = 0 /\ bridge[a].root >= b
        \/ bridge[b].root < b /\ Better(Own(b, bridge[b]), Own(a, bridge[a]))
    BY <1>1, <1>2, <1>4, <2>1, <2>2 DEF Own
  <2>. QED BY <1>1, <2>3, <2>4, <2>5 DEF Better, Own
<1>. QED BY <1>3, <1>4

\* In a settled network the root port leads to an active bridge with the same root, one
\* link nearer to it.
LEMMA RootPortLeads ==
  ASSUME Invariant, Settled, NEW b \in Bridges, Up(b), NEW p \in Ports(b),
         bridge[b].port[p].role = "ROOT"
  PROVE  /\ p \in Bridges /\ Up(p) /\ Carries(p, b) /\ p = bridge[b].rootPort
         /\ ~bridge[b].isRoot /\ bridge[p].port[b].role = "DESIGNATED"
         /\ bridge[b].root = bridge[p].root /\ bridge[b].cost = bridge[p].cost + 1
<1>1. p \in Bridges /\ b \in Ports(p) /\ <<p, b>> \in Directions
  BY Network
<1>2. Carries(p, b) /\ bridge[p].port[b].role = "DESIGNATED" /\ bridge[b].port[p].info = Own(p, bridge[p])
  BY <1>1 DEF Settled
<1>3. ~bridge[b].isRoot /\ p = bridge[b].rootPort /\ Up(p)
  BY <1>2, ActiveBridge DEF RolesOf, Carries
<1>4. bridge[b].root = bridge[b].port[p].info.root /\ bridge[b].cost = bridge[b].port[p].info.cost
  BY <1>3, ActiveBridge DEF RolesOf
<1>. QED BY <1>1, <1>2, <1>3, <1>4 DEF Own

\* Bridges joined by a link agree on the root when all is settled.
LEMMA NeighboursAgree ==
  ASSUME Invariant, Settled, NEW a, NEW b, <<a, b>> \in Directions, Carries(a, b)
  PROVE  bridge[a].root = bridge[b].root
<1>1. ASSUME NEW x, NEW y, <<x, y>> \in Directions, Carries(x, y), bridge[x].port[y].role = "DESIGNATED"
      PROVE  bridge[x].root = bridge[y].root
  <2>1. x \in Bridges /\ y \in Bridges /\ x \in Ports(y) /\ Up(x) /\ Up(y)
    BY <1>1, Network DEF Carries
  <2>2. bridge[y].port[x].role # "DESIGNATED" /\ bridge[y].port[x].info = Own(x, bridge[x])
    BY <1>1, OneSpeaks
  <2>3. CASE bridge[y].port[x].role = "ROOT"
    BY <2>1, <2>3, RootPortLeads
  <2>4. CASE bridge[y].port[x].role # "ROOT"
    <3> DEFINE heard == bridge[y].port[bridge[y].rootPort].info
    <3>1. /\ ~bridge[y].isRoot /\ ~Better(Own(y, bridge[y]), Own(x, bridge[x]))
          /\ ~Better(Own(x, bridge[x]), heard) /\ bridge[y].root = heard.root
      BY <2>1, <2>2, <2>4, ActiveBridge DEF RolesOf
    <3>2. bridge[x].root \in Nat /\ bridge[y].root \in Nat
      BY <2>1, ActiveBridge
    <3>. QED BY <3>1, <3>2 DEF Better, Own
  <2>. QED BY <2>3, <2>4
<1>2. <<b, a>> \in Directions /\ Carries(b, a)
  <2>1. {a, b} = {b, a}
    OBVIOUS
  <2>. QED BY <2>1, Network DEF Carries
<1>. QED BY <1>1, <1>2, OneSpeaks

\* Over a forwarding link one bridge is the way to the root for the other.
LEMMA ForwardingLink ==
  ASSUME Invariant, Settled, NEW link \in Forwarding, NEW b \in link
  PROVE  \E c \in Ports(b) :
           /\ b \in Bridges /\ c \in Bridges /\ link = {b, c} /\ Up(b) /\ Up(c)
           /\ \/ b = bridge[c].rootPort /\ bridge[c].cost = bridge[b].cost + 1
              \/ c = bridge[b].rootPort /\ bridge[b].cost = bridge[c].cost + 1
<1>1. link \in Links /\ link \notin cut
  BY DEF Forwarding
<1>2. PICK c \in link : c # b /\ link = {b, c}
  BY <1>1, StpAssumption
<1>3. /\ Up(b) /\ Up(c)
      /\ bridge[b].port[c].state = "FORWARDING" /\ bridge[c].port[b].state = "FORWARDING"
  BY <1>2 DEF Forwarding
<1>4. b \in Bridges /\ c \in Bridges /\ c \in Ports(b)
  BY <1>1, <1>2 DEF Bridges, Ports
<1>5. b \in Ports(c) /\ <<b, c>> \in Directions /\ <<c, b>> \in Directions
  BY <1>4, Network
<1>6. Carries(b, c)
  BY <1>1, <1>2, <1>3 DEF Carries
<1>7. bridge[b].port[c].role \in {"ROOT", "DESIGNATED"} /\ bridge[c].port[b].role \in {"ROOT", "DESIGNATED"}
  BY <1>3, <1>5 DEF Settled
<1>8. bridge[b].port[c].role = "ROOT" \/ bridge[c].port[b].role = "ROOT"
  BY <1>5, <1>6, <1>7, OneSpeaks
<1>. QED BY <1>2, <1>3, <1>4, <1>5, <1>8, RootPortLeads

\* No ring of forwarding links when all is settled: the bridge of a ring that is
\* farthest from the root has only its root port in it.
LEMMA SettledNoRing ==
  ASSUME Invariant, Settled
  PROVE  NoRing(Forwarding)
<1> SUFFICES ASSUME NEW ring, ring \subseteq Forwarding, ring # {}
             PROVE  \E b \in Bridges : Cardinality({link \in ring : b \in link}) = 1
  BY DEF NoRing
<1> DEFINE members == UNION ring
           cost    == [b \in Bridges |-> bridge[b].cost]
<1>1. members \subseteq Bridges /\ members # {}
  <2>1. \A link \in ring : link \in Links
    BY DEF Forwarding
  <2>2. \A link \in Links : link # {}
    BY StpAssumption
  <2>. QED BY <2>1, <2>2 DEF Bridges
<1>2. IsFiniteSet(members) /\ \A b \in members : cost[b] \in Nat
  BY <1>1, Network, FS_Subset DEF Invariant, BridgesRight, Valid, BridgeData
<1>3. PICK b \in members : \A c \in members : cost[c] <= cost[b]
  <2>. HIDE DEF members, cost
  <2>. QED BY <1>1, <1>2, GreatestBy
<1>4. ASSUME NEW link \in ring, b \in link PROVE link = {b, bridge[b].rootPort}
  <2>1. PICK c \in Ports(b) :
           /\ b \in Bridges /\ c \in Bridges /\ link = {b, c} /\ Up(b) /\ Up(c)
           /\ \/ b = bridge[c].rootPort /\ bridge[c].cost = bridge[b].cost + 1
              \/ c = bridge[b].rootPort /\ bridge[b].cost = bridge[c].cost + 1
    BY <1>4, ForwardingLink
  <2>2. c \in members
    BY <2>1
  <2>3. bridge[c].cost <= bridge[b].cost /\ bridge[c].cost \in Nat /\ bridge[b].cost \in Nat
    BY <1>1, <1>2, <1>3, <2>1, <2>2
  <2>. QED BY <2>1, <2>3
<1>5. {link \in ring : b \in link} = {{b, bridge[b].rootPort}}
  BY <1>3, <1>4
<1>6. Cardinality({{b, bridge[b].rootPort}}) = 1
  BY FS_Singleton
<1>7. b \in Bridges
  BY <1>1
<1>. QED BY <1>5, <1>6, <1>7, Zenon

-----------------------------------------------------------------------------
\* A component holds its bridge, no link leaves it, and it is the least such set.
LEMMA ComponentProperties ==
  ASSUME NEW b \in Bridges, NEW links, \A link \in links : link \subseteq Bridges
  PROVE  LET C == Component(b, links) IN
         /\ b \in C /\ C \subseteq Bridges
         /\ \A link \in links : link \cap C # {} => link \subseteq C
         /\ \A S \in SUBSET Bridges :
              b \in S /\ (\A link \in links : link \cap S # {} => link \subseteq S) => C \subseteq S
<1> DEFINE C == Component(b, links)
           Closed(S) == b \in S /\ \A link \in links : link \cap S # {} => link \subseteq S
<1>1. C = {c \in Bridges : \A S \in SUBSET Bridges : Closed(S) => c \in S}
  BY DEF Component
<1>. HIDE DEF C
<1>2. b \in C /\ C \subseteq Bridges /\ \A S \in SUBSET Bridges : Closed(S) => C \subseteq S
  BY <1>1
<1>3. ASSUME NEW link \in links, NEW c \in link \cap C, NEW e \in link PROVE e \in C
  BY <1>1, <1>3
<1>. QED BY <1>2, <1>3 DEF C

\* When all is settled the bridges that can reach each other have the lowest of them as
\* their root, and the forwarding links join them all: from any of them the root
\* ports lead nearer to the root until it is reached.
LEMMA SettledComponents ==
  ASSUME Invariant, Settled, NEW b \in Bridges, Up(b)
  PROVE  LET C == Component(b, {link \in Links \ cut : \A c \in link : Up(c)}) IN
         Component(b, Forwarding) = C /\ bridge[b].root = Min(C)
<1> DEFINE carrying == {link \in Links \ cut : \A c \in link : Up(c)}
           C == Component(b, carrying)
           F == Component(b, Forwarding)
           cost == [c \in Bridges |-> bridge[c].cost]
           root == bridge[b].root
<1>1. Forwarding \subseteq carrying /\ \A link \in carrying : link \subseteq Bridges
  <2>1. \A link \in Forwarding : \A c \in link : Up(c)
    BY ForwardingLink
  <2>. QED BY <2>1 DEF Forwarding, Bridges
<1>2. /\ b \in C /\ C \subseteq Bridges
      /\ \A link \in carrying : link \cap C # {} => link \subseteq C
      /\ \A S \in SUBSET Bridges :
           b \in S /\ (\A link \in carrying : link \cap S # {} => link \subseteq S) => C \subseteq S
  <2>. HIDE DEF carrying
  <2>. QED BY <1>1, ComponentProperties
<1>3. /\ b \in F /\ F \subseteq Bridges
      /\ \A link \in Forwarding : link \cap F # {} => link \subseteq F
      /\ \A S \in SUBSET Bridges :
           b \in S /\ (\A link \in Forwarding : link \cap S # {} => link \subseteq S) => F \subseteq S
  <2>1. \A link \in Forwarding : link \subseteq Bridges
    BY <1>1
  <2>. QED BY <2>1, ComponentProperties
<1>. HIDE DEF C, F
<1>4. F \subseteq C
  BY <1>1, <1>2, <1>3
<1>5. \A c \in C : Up(c) /\ bridge[c].root = root
  <2> DEFINE S == {c \in Bridges : Up(c) /\ bridge[c].root = root}
  <2>1. ASSUME NEW link \in carrying, NEW c \in link \cap S, NEW e \in link PROVE e \in S
    <3>1. c \in Bridges /\ e \in Bridges /\ Up(c) /\ Up(e)
      BY <1>1, <2>1
    <3>2. CASE e # c
      <4>1. link = {c, e}
        BY <2>1, <3>2, StpAssumption
      <4>2. Carries(c, e) /\ <<c, e>> \in Directions
        BY <2>1, <3>1, <4>1 DEF Carries, Directions
      <4>. QED BY <2>1, <3>1, <4>2, NeighboursAgree
    <3>. QED BY <2>1, <3>2
  <2>2. S \in SUBSET Bridges /\ b \in S
    OBVIOUS
  <2>3. \A link \in carrying : link \cap S # {} => link \subseteq S
    BY <2>1
  <2>4. C \subseteq S
    <3>. HIDE DEF S, carrying
    <3>. QED BY <1>2, <2>2, <2>3
  <2>. QED BY <2>4
<1>6. ASSUME NEW c \in C, bridge[c].root # c
      PROVE  \E p \in C : {c, p} \in Forwarding /\ cost[p] < cost[c]
  <2>1. c \in Bridges /\ Up(c)
    BY <1>2, <1>5
  <2>2. RolesOf(c, bridge[c]) /\ bridge[c].rootPort \in Ports(c)
    BY <2>1, ActiveBridge
  <2> DEFINE p == bridge[c].rootPort
  <2>3. ~bridge[c].isRoot /\ bridge[c].port[p].role = "ROOT"
    BY <1>6, <2>2 DEF RolesOf
  <2>. HIDE DEF p
  <2>4. /\ p \in Bridges /\ Up(p) /\ Carries(p, c) /\ bridge[p].port[c].role = "DESIGNATED"
        /\ bridge[c].cost = bridge[p].cost + 1
    BY <2>1, <2>2, <2>3, RootPortLeads DEF p
  <2>5. bridge[c].port[p].state = "FORWARDING" /\ bridge[p].port[c].state = "FORWARDING"
    <3>1. <<c, p>> \in Directions /\ <<p, c>> \in Directions
      BY <2>1, <2>2, Network DEF p
    <3>. QED BY <2>1, <2>3, <2>4, <3>1 DEF Settled
  <2>6. {c, p} = {p, c} /\ {c, p} \in Links \ cut
    <3>1. {c, p} = {p, c}
      OBVIOUS
    <3>. QED BY <2>4, <3>1 DEF Carries
  <2>7. {c, p} \in Forwarding
    BY <2>1, <2>4, <2>5, <2>6 DEF Forwarding
  <2>8. p \in C
    BY <1>1, <1>2, <2>7
  <2>9. cost[p] < cost[c]
    BY <2>1, <2>4, ActiveBridge
  <2>. QED BY <2>7, <2>8, <2>9
<1>7. \A c \in C : cost[c] \in Nat /\ c \in Nat /\ root <= c
  BY <1>2, <1>5, Network DEF Invariant, BridgesRight, Valid, BridgeData
<1>. HIDE DEF cost
<1>8. root \in F
  <2>1. PICK c \in F : \A e \in F : cost[c] <= cost[e]
    BY <1>3, <1>4, <1>7, LeastBy
  <2>2. ASSUME bridge[c].root # c PROVE FALSE
    <3>1. PICK p \in C : {c, p} \in Forwarding /\ cost[p] < cost[c]
      BY <1>4, <1>6, <2>2
    <3>2. p \in F
      BY <1>3, <3>1
    <3>. QED BY <1>4, <1>7, <2>1, <3>1, <3>2
  <2>. QED BY <1>4, <1>5, <2>2
<1>9. C \subseteq F
  <2> DEFINE Missed == C \ F
  <2>1. SUFFICES ASSUME Missed # {} PROVE FALSE
    OBVIOUS
  <2>2. PICK c \in Missed : \A e \in Missed : cost[c] <= cost[e]
    <3>1. \A e \in Missed : cost[e] \in Nat
      BY <1>7
    <3>. HIDE DEF Missed
    <3>. QED BY <2>1, <3>1, LeastBy
  <2>3. bridge[c].root # c
    BY <1>5, <1>8, <2>2
  <2>4. PICK p \in C : {c, p} \in Forwarding /\ cost[p] < cost[c]
    BY <1>6, <2>2, <2>3
  <2>5. p \in F
    BY <1>7, <2>2, <2>4
  <2>. QED BY <1>3, <2>2, <2>4, <2>5
<1>10. root = Min(C)
  <2>1. root \in C /\ \A c \in C : root <= c
    BY <1>4, <1>7, <1>8
  <2>2. \A x \in C : (\A y \in C : x <= y) => x = root
    BY <1>7, <2>1
  <2>. QED BY <2>1, <2>2 DEF Min
<1>. QED BY <1>4, <1>9, <1>10 DEF C, F

\* Wherever the information of all ports is up to date, in whatever way it was reached,
\* the forwarding links are a spanning tree of every part of the network, with the
\* lowest bridge as its root (selectRootPort, selectDesignatedPorts, tryRoot).
THEOREM SettledTree == Spec => [](Settled => SpanningTree)
<1>1. Invariant => (Settled => SpanningTree)
  BY SettledNoRing, SettledComponents DEF SpanningTree
<1>. QED BY <1>1, Inductive, PTL

-----------------------------------------------------------------------------
(***************************************************************************)
(* What is steady stays steady.                                             *)
(***************************************************************************)

\* The members of a concatenation, and of the tail of a sequence.
LEMMA SequenceMembers ==
  ASSUME NEW S, NEW s \in Seq(S), NEW t \in Seq(S)
  PROVE  /\ ToSet(s \o t) = ToSet(s) \cup ToSet(t)
         /\ s # <<>> => Head(s) \in ToSet(s) /\ ToSet(s) = {Head(s)} \cup ToSet(Tail(s))
<1>1. ToSet(s \o t) = ToSet(s) \cup ToSet(t)
  <2>1. /\ s \o t \in Seq(S) /\ Len(s \o t) = Len(s) + Len(t)
        /\ \A i \in 1..Len(s) + Len(t) : (s \o t)[i] = IF i <= Len(s) THEN s[i] ELSE t[i - Len(s)]
    BY ConcatProperties
  <2>2. ASSUME NEW x \in ToSet(s \o t) PROVE x \in ToSet(s) \cup ToSet(t)
    <3>1. PICK i \in 1..Len(s) + Len(t) : x = (s \o t)[i]
      BY <2>1, <2>2 DEF ToSet
    <3>2. CASE i <= Len(s)
      BY <2>1, <3>1, <3>2 DEF ToSet
    <3>3. CASE ~(i <= Len(s))
      <4>1. x = t[i - Len(s)] /\ i - Len(s) \in 1..Len(t)
        BY <2>1, <3>1, <3>3
      <4>. QED BY <4>1 DEF ToSet
    <3>. QED BY <3>2, <3>3
  <2>3. ASSUME NEW x \in ToSet(s) PROVE x \in ToSet(s \o t)
    <3>1. PICK i \in 1..Len(s) : x = s[i]
      BY <2>3 DEF ToSet
    <3>2. i \in 1..Len(s) + Len(t) /\ x = (s \o t)[i]
      BY <2>1, <3>1
    <3>. QED BY <2>1, <3>2 DEF ToSet
  <2>4. ASSUME NEW x \in ToSet(t) PROVE x \in ToSet(s \o t)
    <3>1. PICK i \in 1..Len(t) : x = t[i]
      BY <2>4 DEF ToSet
    <3>2. i + Len(s) \in 1..Len(s) + Len(t) /\ x = (s \o t)[i + Len(s)]
      BY <2>1, <3>1
    <3>. QED BY <2>1, <3>2 DEF ToSet
  <2>. QED BY <2>2, <2>3, <2>4
<1>2. ASSUME s # <<>> PROVE Head(s) \in ToSet(s) /\ ToSet(s) = {Head(s)} \cup ToSet(Tail(s))
  <2>1. /\ Tail(s) \in Seq(S) /\ Len(s) # 0 /\ Head(s) = s[1] /\ Len(Tail(s)) = Len(s) - 1
        /\ \A i \in 1..Len(s) - 1 : Tail(s)[i] = s[i + 1]
    BY <1>2
  <2>2. ASSUME NEW x \in ToSet(s), x # Head(s) PROVE x \in ToSet(Tail(s))
    <3>1. PICK i \in 1..Len(s) : x = s[i]
      BY <2>2 DEF ToSet
    <3>2. i - 1 \in 1..Len(s) - 1 /\ x = Tail(s)[i - 1]
      BY <2>1, <2>2, <3>1
    <3>3. \E j \in DOMAIN Tail(s) : x = Tail(s)[j]
      <4>1. DOMAIN Tail(s) = 1..Len(s) - 1
        BY <2>1
      <4>. QED BY <3>2, <4>1
    <3>. QED BY <3>3, Zenon DEF ToSet
  <2>3. ASSUME NEW x \in ToSet(Tail(s)) PROVE x \in ToSet(s)
    <3>1. PICK i \in 1..Len(s) - 1 : x = Tail(s)[i]
      BY <2>1, <2>3 DEF ToSet
    <3>2. i + 1 \in 1..Len(s) /\ x = s[i + 1]
      BY <2>1, <3>1
    <3>. QED BY <3>2 DEF ToSet
  <2>4. Head(s) \in ToSet(s)
    BY <2>1 DEF ToSet
  <2>. QED BY <2>2, <2>3, <2>4
<1>. QED BY <1>1, <1>2

\* Two states of a bridge in which a reader of the roles sees no difference.
Alike(b, r, t) ==
  /\ t.isRoot = r.isRoot /\ t.root = r.root /\ t.cost = r.cost
  /\ ~r.isRoot => t.rootPort = r.rootPort
  /\ \A p \in Ports(b) : /\ t.port[p].role = r.port[p].role
                         /\ t.port[p].info = r.port[p].info

\* The information of the ports determines root and roles: no two ports have heard
\* the same, for a BPDU names its sender.
LEMMA RolesDetermined ==
  ASSUME NEW b \in Bridges, NEW r, NEW t, Valid(b, r), Valid(b, t), RolesOf(b, r), RolesOf(b, t),
         \A p \in Ports(b) : t.port[p].info = r.port[p].info
  PROVE  Alike(b, r, t)
<1>1. /\ b \in Nat /\ r.rootPort \in Ports(b) /\ t.rootPort \in Ports(b)
      /\ \A p \in Ports(b) : /\ r.port[p].info \in [root : Nat, cost : Nat, bridge : Nat]
                             /\ Heard(b, p, r.port[p].info)
  BY Network DEF Valid, BridgeData, PortData
<1>2. t.isRoot = r.isRoot
  BY <1>1 DEF RolesOf, Valid, BridgeData
<1>3. CASE r.isRoot
  BY <1>2, <1>3 DEF RolesOf, Alike
<1>4. CASE ~r.isRoot
  <2> DEFINE x == r.port[r.rootPort].info
             y == r.port[t.rootPort].info
  <2>1. ~Better(x, y) /\ ~Better(y, x) /\ x.root < b /\ y.root < b
    BY <1>1, <1>2, <1>4 DEF RolesOf
  <2>2. x.bridge = y.bridge
    BY <1>1, <2>1 DEF Better
  <2>3. r.rootPort = t.rootPort
    BY <1>1, <2>1, <2>2 DEF Heard
  <2>4. t.root = r.root /\ t.cost = r.cost
    BY <1>1, <1>2, <1>4, <2>3 DEF RolesOf
  <2>5. Own(b, r) = Own(b, t)
    BY <2>4 DEF Own
  <2>6. \A p \in Ports(b) : t.port[p].role = r.port[p].role
    BY <1>2, <1>4, <2>3, <2>5 DEF RolesOf
  <2>. QED BY <1>2, <2>3, <2>4, <2>6 DEF Alike
<1>. QED BY <1>3, <1>4

\* checkTimers with no port too old does nothing.
LEMMA NothingExpires ==
  ASSUME NEW b \in Bridges, NEW r, \A p \in Ports(b) : r.port[p].age < MaxAge
  PROVE  ExpirePorts(b, r) = r
<1> DEFINE last == Max(Ports(b))
           loop == CHOOSE f : IsLoop(b, r, last, f)
<1>1. last \in Nat
  <2>1. Ports(b) \subseteq Nat /\ Ports(b) # {} /\ IsFiniteSet(Ports(b))
    BY Network, FS_Subset
  <2>2. PICK x \in Ports(b) : \A y \in Ports(b) : y <= x
    BY <2>1, GreatestNatural
  <2>3. \E z \in Ports(b) : \A y \in Ports(b) : z >= y
    BY <2>1, <2>2
  <2>4. last \in Ports(b)
    BY <2>3 DEF Max
  <2>. QED BY <2>1, <2>4
<1>2. ExpirePorts(b, r) = loop[last]
  BY DEF ExpirePorts, Turn, IsLoop
<1>. HIDE DEF last
<1>3. IsLoop(b, r, last, loop)
  BY <1>1, LoopEnds
<1>. HIDE DEF loop
<1>4. \A n \in 0..last : loop[n] = Turn(b, IF n = 0 THEN r ELSE loop[n - 1], n)
  BY <1>3 DEF IsLoop
<1>5. \A n : Turn(b, r, n) = r
  BY DEF Turn, Expire
<1> DEFINE Changed == {n \in 0..last : loop[n] # r}
<1>6. Changed = {}
  <2>1. SUFFICES ASSUME Changed # {} PROVE FALSE
    OBVIOUS
  <2>2. Changed \subseteq Nat
    BY <1>1
  <2>3. PICK n \in Changed : \A m \in Changed : n <= m
    <3>. HIDE DEF Changed
    <3>. QED BY <2>1, <2>2, LeastNatural
  <2>4. n # 0 => n - 1 \in 0..last /\ n - 1 \notin Changed
    BY <1>1, <2>3
  <2>. QED BY <1>4, <1>5, <2>3, <2>4
<1>. QED BY <1>1, <1>2, <1>6

\* The BPDUs of a handler tell what the bridge r stands for, and go where they belong.
Fits(b, r, out) ==
  \A p \in Ports(b) : \A m \in ToSet(out[p]) :
    IF m = TCN THEN r.port[p].role = "ROOT"
    ELSE r.port[p].role = "DESIGNATED" /\ m.info = [root |-> r.root, cost |-> r.cost, bridge |-> b]

\* The member of a sequence of one.
LEMMA MemberOfOne == ASSUME NEW m, NEW x PROVE x \in ToSet(<<m>>) <=> x = m
<1>1. DOMAIN <<m>> = {1} /\ <<m>>[1] = m
  OBVIOUS
<1>. QED BY <1>1 DEF ToSet

\* The empty sequence has none.
LEMMA MemberOfNone == ToSet(<<>>) = {}
BY DEF ToSet

\* A configuration BPDU tells the root and the cost of its sender and is no notification.
LEMMA ConfigClaims ==
  ASSUME NEW b, NEW r, NEW tcFlag, NEW tcaFlag
  PROVE  /\ Config(b, r, tcFlag, tcaFlag) # TCN
         /\ Config(b, r, tcFlag, tcaFlag).info = [root |-> r.root, cost |-> r.cost, bridge |-> b]
<1>1. Config(b, r, tcFlag, tcaFlag).type = "config" /\ TCN.type = "tcn"
  BY DEF Config, TCN
<1>. QED BY <1>1 DEF Config

\* A BPDU that repeats what the port knows resets its age and nothing else.
LEMMA RenewedSame ==
  ASSUME NEW b \in Bridges, NEW r, Valid(b, r), NEW p \in Ports(b)
  PROVE  LET t == Renewed(r, p, r.port[p].info) IN
         /\ Valid(b, t) /\ t.up = r.up /\ t.port[p].age = 0
         /\ \A q \in Ports(b) : /\ t.port[q].info = r.port[q].info
                                /\ t.port[q].state = r.port[q].state
                                /\ q # p => t.port[q].age = r.port[q].age
<1> DEFINE new == [r.port[p] EXCEPT !.info = r.port[p].info, !.age = 0]
           t == Renewed(r, p, r.port[p].info)
<1>1. r \in BridgeData(b) /\ r.port[p] \in PortData
  BY DEF Valid, BridgeData
<1>2. ~Better(r.port[p].info, r.port[p].info)
  <2>1. r.port[p].info \in [root : Nat, cost : Nat, bridge : Nat]
    BY <1>1, Network DEF PortData
  <2>. QED BY <2>1 DEF Better
<1>3. t = [r EXCEPT !.port[p] = new]
  BY <1>2 DEF Renewed
<1>4. new \in PortData /\ new.info = r.port[p].info /\ new.age = 0 /\ new.state = r.port[p].state
  BY <1>1 DEF PortData
<1>. HIDE DEF new, t
<1>5. /\ t \in BridgeData(b) /\ t.up = r.up /\ t.port[p] = new
      /\ \A q \in Ports(b) \ {p} : t.port[q] = r.port[q]
  BY <1>1, <1>3, <1>4 DEF BridgeData
<1>6. Valid(b, t)
  BY <1>4, <1>5 DEF Valid
<1>. QED BY <1>4, <1>5, <1>6 DEF t

\* handleBPDU of a BPDU that tells nothing new: no role and no port state changes, and
\* one that comes by the root port is relayed to all designated ports.
LEMMA SteadyBPDU ==
  ASSUME NEW b \in Bridges, NEW r, Sound(b, r), NEW p \in Ports(b), NEW m \in Bpdus(p), m # TCN,
         r.port[p].info = [root |-> m.info.root, cost |-> m.info.cost + 1, bridge |-> p],
         r.port[p].role # "DESIGNATED"
  PROVE  LET done == HandleBPDU(b, r, p, m) IN
         /\ Alike(b, r, done.r) /\ Fits(b, r, done.out)
         /\ \A q \in Ports(b) : done.r.port[q].state = r.port[q].state
         /\ done.r.port[p].age = 0
         /\ \A q \in Ports(b) \ {p} : done.r.port[q].age = r.port[q].age
         /\ r.port[p].role = "ROOT" =>
              \A q \in Ports(b) : r.port[q].role = "DESIGNATED" => \E c \in ToSet(done.out[q]) : c # TCN
<1> DEFINE s     == [r EXCEPT !.notice = @ /\ ~m.tca]
           heard == [m.info EXCEPT !.cost = @ + 1]
           new   == Renewed(s, p, heard)
           told  == [new EXCEPT !.aging = IF m.tc THEN "short" ELSE "default"]
           done  == HandleBPDU(b, r, p, m)
<1>1. heard = r.port[p].info
  BY DEF Bpdus
<1>2. /\ s \in BridgeData(b) /\ s.port = r.port /\ s.up = r.up /\ s.root = r.root /\ s.cost = r.cost
      /\ s.isRoot = r.isRoot /\ s.rootPort = r.rootPort
  BY DEF Sound, Valid, BridgeData
<1>3. ~Better(s.port[p].info, heard)
  <2>1. r.port[p].info \in [root : Nat, cost : Nat, bridge : Nat]
    BY Network DEF Sound, Valid, BridgeData, PortData
  <2>. HIDE DEF heard, s
  <2>. QED BY <1>1, <1>2, <2>1 DEF Better
<1>4. done = IF s.port[p].role = "ROOT"
             THEN Done(TryRoot(b, told), PortsOf(s, "DESIGNATED"), Config(b, s, m.tc, FALSE))
             ELSE Done(TryRoot(b, new), {}, {})
  BY <1>3 DEF HandleBPDU
<1>. HIDE DEF s, heard, done
<1>5. Valid(b, s)
  BY <1>2 DEF Sound, Valid
<1>6. /\ Valid(b, new) /\ new.port[p].age = 0
      /\ \A q \in Ports(b) : /\ new.port[q].info = r.port[q].info
                             /\ new.port[q].state = r.port[q].state
                             /\ q # p => new.port[q].age = r.port[q].age
  <2> DEFINE same == Renewed(s, p, s.port[p].info)
  <2>1. new = same
    BY <1>1, <1>2
  <2>2. /\ Valid(b, same) /\ same.port[p].age = 0
        /\ \A q \in Ports(b) : /\ same.port[q].info = s.port[q].info
                               /\ same.port[q].state = s.port[q].state
                               /\ q # p => same.port[q].age = s.port[q].age
    BY <1>5, RenewedSame
  <2>. HIDE DEF same, new
  <2>. QED BY <1>2, <2>1, <2>2
<1>. HIDE DEF new
<1>7. Valid(b, told) /\ told.port = new.port
  <2>1. told \in BridgeData(b) /\ told.port = new.port
    BY <1>6 DEF Valid, BridgeData
  <2>. HIDE DEF told
  <2>. QED BY <1>6, <2>1 DEF Valid
<1>. HIDE DEF told
<1>8. ASSUME NEW u, Valid(b, u), u.port = new.port, NEW to, NEW c, done = Done(TryRoot(b, u), to, c)
      PROVE  /\ Alike(b, r, done.r)
             /\ \A q \in Ports(b) : done.r.port[q].state = r.port[q].state
             /\ done.r.port[p].age = 0
             /\ \A q \in Ports(b) \ {p} : done.r.port[q].age = r.port[q].age
             /\ \A q \in Ports(b) : done.out[q] = IF q \in to THEN <<c>> ELSE <<>>
  <2> DEFINE t == TryRoot(b, u)
  <2>1. Valid(b, t) /\ SamePorts(b, u, t) /\ RolesOf(b, t)
    BY <1>8, TryRootChooses
  <2>. HIDE DEF t
  <2>2. done.r = t /\ done.out = [q \in Ports(b) |-> IF q \in to THEN <<c>> ELSE <<>>]
    BY <1>8, <2>1 DEF Done, t, Valid, BridgeData
  <2>3. \A q \in Ports(b) : /\ t.port[q].info = r.port[q].info /\ t.port[q].state = r.port[q].state
                            /\ q # p => t.port[q].age = r.port[q].age
                            /\ t.port[p].age = 0
    BY <1>6, <1>8, <2>1 DEF SamePorts
  <2>4. Alike(b, r, t)
    BY <2>1, <2>3, RolesDetermined DEF Sound
  <2>. QED BY <2>2, <2>3, <2>4
<1>9. CASE r.port[p].role = "ROOT"
  <2> DEFINE c == Config(b, s, m.tc, FALSE)
  <2>1. done = Done(TryRoot(b, told), PortsOf(s, "DESIGNATED"), c)
    BY <1>2, <1>4, <1>9
  <2>2. c # TCN /\ c.info = [root |-> r.root, cost |-> r.cost, bridge |-> b]
    <3>1. \A tc, tca : /\ Config(b, s, tc, tca) # TCN
                       /\ Config(b, s, tc, tca).info = [root |-> s.root, cost |-> s.cost, bridge |-> b]
      BY ConfigClaims
    <3>. QED BY <1>2, <3>1
  <2>. HIDE DEF c
  <2>3. \A q \in Ports(b) : q \in PortsOf(s, "DESIGNATED") <=> r.port[q].role = "DESIGNATED"
    BY <1>2 DEF PortsOf, BridgeData
  <2>4. /\ Alike(b, r, done.r)
        /\ \A q \in Ports(b) : done.r.port[q].state = r.port[q].state
        /\ done.r.port[p].age = 0
        /\ \A q \in Ports(b) \ {p} : done.r.port[q].age = r.port[q].age
        /\ \A q \in Ports(b) : done.out[q] = IF q \in PortsOf(s, "DESIGNATED") THEN <<c>> ELSE <<>>
    BY <1>7, <1>8, <2>1
  <2>5. Fits(b, r, done.out)
    BY <2>2, <2>3, <2>4, MemberOfOne, MemberOfNone DEF Fits
  <2>6. \A q \in Ports(b) : r.port[q].role = "DESIGNATED" => \E x \in ToSet(done.out[q]) : x # TCN
    BY <2>2, <2>3, <2>4, MemberOfOne
  <2>. QED BY <2>4, <2>5, <2>6 DEF done
<1>10. CASE r.port[p].role # "ROOT"
  <2> DEFINE none == {}
  <2>1. done = Done(TryRoot(b, new), none, none)
    BY <1>2, <1>4, <1>10
  <2>. HIDE DEF none
  <2>2. /\ Alike(b, r, done.r)
        /\ \A q \in Ports(b) : done.r.port[q].state = r.port[q].state
        /\ done.r.port[p].age = 0
        /\ \A q \in Ports(b) \ {p} : done.r.port[q].age = r.port[q].age
        /\ \A q \in Ports(b) : done.out[q] = IF q \in none THEN <<none>> ELSE <<>>
    BY <1>6, <1>8, <2>1
  <2>3. Fits(b, r, done.out)
    <3>1. \A q \in Ports(b) : done.out[q] = <<>>
      BY <2>2 DEF none
    <3>. QED BY <3>1, MemberOfNone DEF Fits
  <2>. QED BY <1>10, <2>2, <2>3 DEF done
<1>. QED BY <1>9, <1>10

\* handleTCN at a designated port: an answer there and the notification up the root port.
LEMMA SteadyTCN ==
  ASSUME NEW b \in Bridges, NEW r, Sound(b, r), NEW p \in Ports(b), r.port[p].role = "DESIGNATED"
  PROVE  LET done == HandleTCN(b, r, p) IN
         /\ Alike(b, r, done.r) /\ Fits(b, r, done.out) /\ done.r.port = r.port
<1> DEFINE s    == [r EXCEPT !.notice = TRUE]
           c    == Config(b, s, FALSE, TRUE)
           sent == [q \in Ports(b) |-> IF q = p THEN <<c>> ELSE <<>>]
           ack  == [r |-> s, out |-> sent]
           done == HandleTCN(b, r, p)
<1>1. /\ s \in BridgeData(b) /\ s.port = r.port /\ s.root = r.root /\ s.cost = r.cost
      /\ s.isRoot = r.isRoot /\ s.rootPort = r.rootPort
  BY DEF Sound, Valid, BridgeData
<1>2. Done(s, {p}, c) = ack
  BY <1>1 DEF Done, BridgeData
<1>3. \/ done = ack
      \/ ~s.isRoot /\ done = [ack EXCEPT !.out[s.rootPort] = Append(@, TCN)]
  BY <1>2, Zenon DEF HandleTCN
<1>. HIDE DEF s, done
<1>4. c # TCN /\ c.info = [root |-> r.root, cost |-> r.cost, bridge |-> b]
  <2>1. \A tc, tca : /\ Config(b, s, tc, tca) # TCN
                     /\ Config(b, s, tc, tca).info = [root |-> s.root, cost |-> s.cost, bridge |-> b]
    BY ConfigClaims
  <2>. QED BY <1>1, <2>1
<1>. HIDE DEF c
<1>5. /\ done.r = s
      /\ \/ done.out = sent
         \/ ~s.isRoot /\ done.out = [sent EXCEPT ![s.rootPort] = Append(@, TCN)]
  <2>. HIDE DEF sent
  <2>1. CASE done = ack
    BY <2>1
  <2>2. CASE ~s.isRoot /\ done = [ack EXCEPT !.out[s.rootPort] = Append(@, TCN)]
    BY <2>2
  <2>. QED BY <1>3, <2>1, <2>2
<1>6. Alike(b, r, s)
  BY <1>1 DEF Alike
<1>7. CASE done.out = sent
  <2>1. Fits(b, r, sent)
    BY <1>4, MemberOfOne, MemberOfNone DEF Fits
  <2>. QED BY <1>1, <1>5, <1>6, <1>7, <2>1 DEF done
<1>8. CASE ~s.isRoot /\ done.out = [sent EXCEPT ![s.rootPort] = Append(@, TCN)]
  <2> DEFINE x == r.rootPort
  <2>1. x \in Ports(b) /\ r.port[x].role = "ROOT" /\ x # p
    BY <1>1, <1>8 DEF Sound, Valid, BridgeData, RolesOf
  <2>2. Append(sent[x], TCN) = <<TCN>>
    <3>1. sent[x] = <<>>
      BY <2>1
    <3>2. Append(<<>>, TCN) = <<TCN>>
      OBVIOUS
    <3>. QED BY <3>1, <3>2, Zenon
  <2>3. \A q \in Ports(b) : done.out[q] = IF q = x THEN <<TCN>> ELSE sent[q]
    BY <1>1, <1>8, <2>1, <2>2
  <2>4. Fits(b, r, done.out)
    BY <1>4, <2>1, <2>3, MemberOfOne, MemberOfNone DEF Fits
  <2>. QED BY <1>1, <1>5, <1>6, <2>4 DEF done
<1>. QED BY <1>5, <1>7, <1>8

\* checkTimers leaves a port that forwards forwarding and a blocked one blocked.
LEMMA AdvancedState ==
  ASSUME NEW port \in PortData,
         (port.state = "FORWARDING") = (port.role \in {"ROOT", "DESIGNATED"})
  PROVE  (Advance(port).state = "FORWARDING") = (port.role \in {"ROOT", "DESIGNATED"})
<1>1. CASE port.role \notin {"ROOT", "DESIGNATED"}
  BY <1>1 DEF Advance, PortData
<1>2. CASE port.role \in {"ROOT", "DESIGNATED"} /\ port.fdWhile < ForwardDelay
  BY <1>2 DEF Advance
<1>3. CASE port.role \in {"ROOT", "DESIGNATED"} /\ ~(port.fdWhile < ForwardDelay)
  <2>1. Advance(port) = [port EXCEPT !.fdWhile = 0, !.state = "FORWARDING"]
    BY <1>3 DEF Advance
  <2>. QED BY <1>3, <2>1 DEF PortData
<1>. QED BY <1>1, <1>2, <1>3

\* handleTick of a bridge that has heard all it must: nothing is too old, a root says
\* hello at every port, another bridge sends no more than a notification to its root.
LEMMA SteadyTick ==
  ASSUME MaxAge > 1, NEW b \in Bridges, NEW r, Sound(b, r),
         \A p \in Ports(b) :
           /\ r.port[p].role # "DESIGNATED" => r.port[p].age = 0
           /\ (r.port[p].state = "FORWARDING") = (r.port[p].role \in {"ROOT", "DESIGNATED"})
  PROVE  LET done == HandleTick(b, r) IN
         /\ Alike(b, r, done.r) /\ Fits(b, r, done.out)
         /\ \A p \in Ports(b) :
              /\ r.port[p].role # "DESIGNATED" => done.r.port[p].age = 1
              /\ (done.r.port[p].state = "FORWARDING") = (r.port[p].role \in {"ROOT", "DESIGNATED"})
              /\ r.isRoot => \E m \in ToSet(done.out[p]) : m # TCN
<1> DEFINE counted == Counted(r)
           ports   == [p \in DOMAIN counted.port |-> Advance(counted.port[p])]
           s       == [counted EXCEPT !.port = ports]
           told    == [s EXCEPT !.notice = FALSE]
           done    == HandleTick(b, r)
           c       == Config(b, counted, FALSE, FALSE)
<1>1. /\ Aging(b, counted) /\ SameRoot(r, counted)
      /\ \A p \in Ports(b) :
              /\ counted.port[p].role = r.port[p].role /\ counted.port[p].info = r.port[p].info
              /\ counted.port[p].state = r.port[p].state
              /\ counted.port[p].age =
                   IF r.port[p].role # "DESIGNATED" THEN r.port[p].age + 1 ELSE r.port[p].age
  BY CountedAging DEF Sound
<1>2. ExpirePorts(b, counted) = counted
  <2>1. ASSUME NEW p \in Ports(b) PROVE counted.port[p].age < MaxAge
    <3>1. r.port[p].age \in Nat /\ r.port[p].age < MaxAge /\ MaxAge \in Nat
      BY StpAssumption DEF Sound, Valid, BridgeData, PortData, InTime
    <3>. HIDE DEF counted
    <3>. QED BY <1>1, <3>1
  <2>. HIDE DEF counted
  <2>. QED BY <2>1, NothingExpires
<1>3. done = IF r.isRoot THEN Done(s, DOMAIN s.port, c)
             ELSE IF s.notice /\ s.port[s.rootPort].role = "ROOT"
             THEN Done(told, {s.rootPort}, TCN)
             ELSE Done(s, {}, {})
  BY <1>2 DEF HandleTick
<1>4. c # TCN /\ c.info = [root |-> r.root, cost |-> r.cost, bridge |-> b]
  <2>. HIDE DEF counted
  <2>1. \A tc, tca : /\ Config(b, counted, tc, tca) # TCN
                     /\ Config(b, counted, tc, tca).info
                          = [root |-> counted.root, cost |-> counted.cost, bridge |-> b]
    BY ConfigClaims
  <2>2. counted.root = r.root /\ counted.cost = r.cost
    BY <1>1 DEF SameRoot
  <2>3. c # TCN /\ c.info = [root |-> counted.root, cost |-> counted.cost, bridge |-> b]
    BY <2>1
  <2>. QED BY <2>2, <2>3
<1>. HIDE DEF counted, done, c
<1>5. /\ counted \in BridgeData(b) /\ DOMAIN counted.port = Ports(b)
      /\ \A p \in Ports(b) : counted.port[p] \in PortData /\ counted.port[p].fdWhile <= ForwardDelay
  BY <1>1 DEF Aging, Valid, BridgeData
<1>6. \A p \in Ports(b) :
        /\ ports[p] \in PortData /\ ports[p].role = r.port[p].role /\ ports[p].info = r.port[p].info
        /\ ports[p].age = counted.port[p].age
        /\ (ports[p].state = "FORWARDING") = (r.port[p].role \in {"ROOT", "DESIGNATED"})
  <2>1. ASSUME NEW p \in Ports(b)
        PROVE  /\ ports[p] \in PortData /\ ports[p].role = r.port[p].role
               /\ ports[p].info = r.port[p].info /\ ports[p].age = counted.port[p].age
    BY <1>1, <1>5, AdvancedPort
  <2>2. ASSUME NEW p \in Ports(b)
        PROVE  (ports[p].state = "FORWARDING") = (r.port[p].role \in {"ROOT", "DESIGNATED"})
    <3>1. (counted.port[p].state = "FORWARDING") = (counted.port[p].role \in {"ROOT", "DESIGNATED"})
      BY <1>1
    <3>2. (Advance(counted.port[p]).state = "FORWARDING")
            = (counted.port[p].role \in {"ROOT", "DESIGNATED"})
      BY <1>5, <3>1, AdvancedState
    <3>. QED BY <1>1, <1>5, <3>2
  <2>. QED BY <2>1, <2>2
<1>7. ports \in [Ports(b) -> PortData]
  BY <1>5, <1>6
<1>. HIDE DEF ports
<1>8. /\ s.port = ports /\ SameRoot(counted, s) /\ s \in BridgeData(b)
      /\ told.port = ports /\ SameRoot(counted, told)
  BY <1>5, <1>7 DEF BridgeData, SameRoot
<1>. HIDE DEF s, told
<1>9. ASSUME NEW t \in {s, told}
      PROVE  /\ Alike(b, r, t)
             /\ \A p \in Ports(b) :
                  /\ r.port[p].role # "DESIGNATED" => t.port[p].age = 1
                  /\ (t.port[p].state = "FORWARDING") = (r.port[p].role \in {"ROOT", "DESIGNATED"})
  <2>1. t.port = ports /\ SameRoot(r, t)
    BY <1>1, <1>8 DEF SameRoot
  <2>2. Alike(b, r, t)
    BY <1>6, <2>1 DEF Alike, SameRoot
  <2>. QED BY <1>1, <1>6, <2>1, <2>2
<1>10. ASSUME NEW t \in {s, told}, NEW to, NEW m, done = Done(t, to, m)
       PROVE  done.r = t /\ \A p \in Ports(b) : done.out[p] = IF p \in to THEN <<m>> ELSE <<>>
  <2>1. DOMAIN t.port = Ports(b)
    BY <1>7, <1>8
  <2>. QED BY <1>10, <2>1 DEF Done
<1>11. CASE r.isRoot
  <2>1. done = Done(s, DOMAIN s.port, c) /\ DOMAIN s.port = Ports(b)
    BY <1>3, <1>7, <1>8, <1>11
  <2>2. done.r = s /\ \A p \in Ports(b) : done.out[p] = <<c>>
    BY <1>10, <2>1
  <2>3. \A p \in Ports(b) : r.port[p].role = "DESIGNATED"
    BY <1>11 DEF Sound, RolesOf
  <2>4. Fits(b, r, done.out)
    BY <1>4, <2>2, <2>3, MemberOfOne DEF Fits
  <2>5. \A p \in Ports(b) : \E m \in ToSet(done.out[p]) : m # TCN
    BY <1>4, <2>2, MemberOfOne
  <2>. QED BY <1>9, <2>2, <2>4, <2>5 DEF done
<1>12. CASE ~r.isRoot /\ s.notice /\ s.port[s.rootPort].role = "ROOT"
  <2>1. done = Done(told, {s.rootPort}, TCN)
    BY <1>3, <1>12
  <2>2. done.r = told /\ \A p \in Ports(b) : done.out[p] = IF p \in {s.rootPort} THEN <<TCN>> ELSE <<>>
    BY <1>10, <2>1
  <2>3. s.rootPort \in Ports(b) => r.port[s.rootPort].role = "ROOT"
    BY <1>6, <1>8, <1>12
  <2>4. Fits(b, r, done.out)
    BY <2>2, <2>3, MemberOfOne, MemberOfNone DEF Fits
  <2>. QED BY <1>9, <1>12, <2>2, <2>4 DEF done
<1>13. CASE ~r.isRoot /\ ~(s.notice /\ s.port[s.rootPort].role = "ROOT")
  <2> DEFINE none == {}
  <2>1. done = Done(s, none, none)
    BY <1>3, <1>13
  <2>. HIDE DEF none
  <2>2. done.r = s /\ \A p \in Ports(b) : done.out[p] = IF p \in none THEN <<none>> ELSE <<>>
    BY <1>10, <2>1
  <2>3. \A p \in Ports(b) : done.out[p] = <<>>
    BY <2>2 DEF none
  <2>4. Fits(b, r, done.out)
    BY <2>3, MemberOfNone DEF Fits
  <2>. QED BY <1>9, <1>13, <2>2, <2>4 DEF done
<1>. QED BY <1>11, <1>12, <1>13

-----------------------------------------------------------------------------
\* What a steady network says of one direction of a link.
LEMMA SteadyLink ==
  ASSUME Steady, NEW a, NEW b, <<a, b>> \in Directions
  PROVE  /\ \A m \in ToSet(chan[<<a, b>>]) :
              IF m = TCN THEN bridge[a].port[b].role = "ROOT"
              ELSE bridge[a].port[b].role = "DESIGNATED" /\ m.info = Claim(a)
         /\ Carries(a, b) /\ bridge[a].port[b].role = "DESIGNATED" => HelloComes(a, b)
<1>1. NothingNew(a, b)
  BY DEF Steady
<1>. QED BY <1>1 DEF NothingNew

\* Settled depends on the bridges only in what Alike and the forwarding ports tell.
LEMMA SettledStays ==
  ASSUME Settled, cut' = cut, \A b \in Bridges : bridge'[b].up = bridge[b].up,
         \A b \in Bridges : Up(b) =>
           /\ Alike(b, bridge[b], bridge'[b])
           /\ \A p \in Ports(b) :
                (bridge'[b].port[p].state = "FORWARDING") = (bridge[b].port[p].state = "FORWARDING")
  PROVE  /\ Settled'
         /\ \A x, y : <<x, y>> \in Directions => Carries(x, y)' = Carries(x, y)
<1>1. ASSUME NEW x, NEW y, <<x, y>> \in Directions
      PROVE  Carries(x, y)' = Carries(x, y) /\ x \in Bridges /\ y \in Bridges /\ x \in Ports(y) /\ y \in Ports(x)
  <2>1. x \in Bridges /\ y \in Bridges /\ x \in Ports(y) /\ y \in Ports(x)
    BY <1>1, Network
  <2>2. Up(x)' = Up(x) /\ Up(y)' = Up(y)
    BY <2>1 DEF Up
  <2>. QED BY <2>1, <2>2 DEF Carries
<1>2. ASSUME NEW a, NEW b, <<a, b>> \in Directions, Up(b)'
      PROVE  /\ IF Carries(a, b)' /\ bridge'[a].port[b].role = "DESIGNATED"
                THEN bridge'[b].port[a].info = Own(a, bridge'[a])
                ELSE bridge'[b].port[a].role = "DESIGNATED"
             /\ (bridge'[b].port[a].state = "FORWARDING")
                  = (bridge'[b].port[a].role \in {"ROOT", "DESIGNATED"})
  <2>1. /\ a \in Bridges /\ b \in Bridges /\ a \in Ports(b) /\ b \in Ports(a)
        /\ Carries(a, b)' = Carries(a, b)
    BY <1>1, <1>2
  <2>2. Up(b)
    BY <1>2, <2>1 DEF Up
  <2>3. /\ IF Carries(a, b) /\ bridge[a].port[b].role = "DESIGNATED"
           THEN bridge[b].port[a].info = Own(a, bridge[a]) ELSE bridge[b].port[a].role = "DESIGNATED"
        /\ (bridge[b].port[a].state = "FORWARDING") = (bridge[b].port[a].role \in {"ROOT", "DESIGNATED"})
    BY <1>2, <2>2 DEF Settled
  <2>4. /\ bridge'[b].port[a].role = bridge[b].port[a].role
        /\ bridge'[b].port[a].info = bridge[b].port[a].info
        /\ (bridge'[b].port[a].state = "FORWARDING") = (bridge[b].port[a].state = "FORWARDING")
    BY <2>1, <2>2 DEF Alike
  <2>5. Carries(a, b) => /\ bridge'[a].port[b].role = bridge[a].port[b].role
                         /\ Own(a, bridge'[a]) = Own(a, bridge[a])
    BY <2>1 DEF Alike, Own, Carries
  <2>. QED BY <2>1, <2>3, <2>4, <2>5
<1>3. \A d \in Directions : d = <<d[1], d[2]>>
  BY DEF Directions
<1>4. Settled'
  BY <1>2, <1>3 DEF Settled
<1>. QED BY <1>1, <1>4

\* When no BPDU is underway in a steady network, every port that must hear its neighbour
\* has heard it since the last tick: of the bridges that have not passed on the hello
\* the one nearest to the root must have got it from one nearer still.
LEMMA AllToldWhenQuiet ==
  ASSUME Invariant, Steady, Quiet, NEW b \in Bridges, Up(b), NEW p \in Ports(b),
         bridge[b].port[p].role # "DESIGNATED"
  PROVE  bridge[b].port[p].age = 0
<1> DEFINE Old == {x \in Bridges : Up(x) /\ \E y \in Ports(x) :
                     Carries(x, y) /\ bridge[x].port[y].role = "DESIGNATED" /\ bridge[y].port[x].age # 0}
           cost == [x \in Bridges |-> bridge[x].cost]
<1>1. Settled
  BY DEF Steady
<1>2. SUFFICES ASSUME bridge[b].port[p].age # 0 PROVE FALSE
  OBVIOUS
<1>3. p \in Old
  <2>1. p \in Bridges /\ b \in Ports(p) /\ <<p, b>> \in Directions
    BY Network
  <2>2. Carries(p, b) /\ bridge[p].port[b].role = "DESIGNATED"
    BY <1>1, <2>1 DEF Settled
  <2>. QED BY <1>2, <2>1, <2>2 DEF Carries
<1>4. \A x \in Old : cost[x] \in Nat
  BY ActiveBridge
<1>5. PICK x \in Old : \A z \in Old : cost[x] <= cost[z]
  <2>. HIDE DEF Old, cost
  <2>. QED BY <1>3, <1>4, LeastBy
<1>6. PICK y \in Ports(x) : Carries(x, y) /\ bridge[x].port[y].role = "DESIGNATED" /\ bridge[y].port[x].age # 0
  BY <1>5
<1>7. ~bridge[x].isRoot /\ bridge[x].port[bridge[x].rootPort].age # 0
  <2>1. <<x, y>> \in Directions
    BY <1>5, <1>6, Network
  <2>2. chan[<<x, y>>] = <<>>
    BY <2>1 DEF Quiet
  <2>3. HelloComes(x, y)
    BY <1>6, <2>1, SteadyLink
  <2>. QED BY <1>6, <2>2, <2>3, MemberOfNone DEF HelloComes
<1> DEFINE q == bridge[x].rootPort
<1>8. q \in Ports(x) /\ bridge[x].port[q].role = "ROOT"
  BY <1>5, <1>7, ActiveBridge DEF RolesOf
<1>9. /\ q \in Bridges /\ Up(q) /\ Carries(q, x) /\ bridge[q].port[x].role = "DESIGNATED"
      /\ bridge[x].cost = bridge[q].cost + 1
  <2>. HIDE DEF q
  <2>. QED BY <1>1, <1>5, <1>8, RootPortLeads
<1>10. q \in Old
  <2>1. x \in Ports(q)
    BY <1>5, <1>8, Network
  <2>. QED BY <1>7, <1>9, <2>1
<1>. QED BY <1>4, <1>5, <1>9, <1>10

\* A tick leaves a steady network steady, if maxAge is more than one tick.
LEMMA SteadyAfterTick ==
  ASSUME MaxAge > 1, Invariant, Steady, Tick
  PROVE  Steady'
<1>1. /\ bridge' = [b \in Bridges |-> [Ticked(b).r EXCEPT !.up = IF @ = "fresh" THEN "up" ELSE @]]
      /\ chan' = [d \in Directions |->
              (IF d \in late THEN <<TCN>> ELSE <<>>) \o Sent(d[1], d[2], Ticked(d[1]).out)]
      /\ late' = {} /\ cut' = cut /\ Quiet
  <2>1. \A d \in Directions : d[1] \in Bridges
    BY DEF Directions
  <2>. QED BY <2>1 DEF Tick, Ticked
<1>2. Settled /\ late = {} /\ \A b \in Bridges : bridge[b].up # "fresh"
  BY DEF Steady
<1>3. ASSUME NEW b \in Bridges
      PROVE  /\ bridge'[b].up = bridge[b].up /\ bridge'[b].port = Ticked(b).r.port
             /\ SameRoot(Ticked(b).r, bridge'[b])
  <2> DEFINE r == Ticked(b).r
  <2>1. r.up = bridge[b].up /\ r \in BridgeData(b)
    BY TickedSound DEF Invariant, BridgesRight, Sound, Valid
  <2>2. bridge'[b] = [r EXCEPT !.up = IF @ = "fresh" THEN "up" ELSE @]
    BY <1>1
  <2>. HIDE DEF r
  <2>. QED BY <1>2, <2>1, <2>2 DEF BridgeData, SameRoot, r
<1>4. ASSUME NEW b \in Bridges, Up(b)
      PROVE  /\ Alike(b, bridge[b], bridge'[b]) /\ Fits(b, bridge[b], Ticked(b).out)
             /\ \A p \in Ports(b) :
                  /\ bridge[b].port[p].role # "DESIGNATED" => bridge'[b].port[p].age = 1
                  /\ (bridge'[b].port[p].state = "FORWARDING") = (bridge[b].port[p].state = "FORWARDING")
                  /\ bridge[b].isRoot => \E m \in ToSet(Ticked(b).out[p]) : m # TCN
  <2> DEFINE r == bridge[b]
             done == HandleTick(b, r)
  <2>1. Sound(b, r)
    BY <1>4 DEF Invariant, BridgesRight, Sound
  <2>2. Ticked(b) = done
    BY <1>2, <1>4, <2>1 DEF Ticked, Up, Sound, Valid, BridgeData
  <2>3. ASSUME NEW p \in Ports(b)
        PROVE  /\ r.port[p].role # "DESIGNATED" => r.port[p].age = 0
               /\ (r.port[p].state = "FORWARDING") = (r.port[p].role \in {"ROOT", "DESIGNATED"})
    <3>1. <<p, b>> \in Directions
      BY Network
    <3>. QED BY <1>1, <1>2, <1>4, <3>1, AllToldWhenQuiet DEF Settled
  <2>4. /\ Alike(b, r, done.r) /\ Fits(b, r, done.out)
        /\ \A p \in Ports(b) :
              /\ r.port[p].role # "DESIGNATED" => done.r.port[p].age = 1
              /\ (done.r.port[p].state = "FORWARDING") = (r.port[p].role \in {"ROOT", "DESIGNATED"})
              /\ r.isRoot => \E m \in ToSet(done.out[p]) : m # TCN
    <3>. HIDE DEF r
    <3>. QED BY <2>1, <2>3, SteadyTick
  <2>. HIDE DEF done
  <2>5. bridge'[b].port = done.r.port /\ SameRoot(done.r, bridge'[b])
    BY <1>3, <2>2
  <2>6. Alike(b, r, bridge'[b])
    BY <2>4, <2>5 DEF Alike, SameRoot
  <2>. QED BY <2>2, <2>3, <2>4, <2>5, <2>6
<1>5. Settled' /\ \A x, y : <<x, y>> \in Directions => Carries(x, y)' = Carries(x, y)
  BY <1>1, <1>2, <1>3, <1>4, SettledStays
<1>6. ASSUME NEW a, NEW b, <<a, b>> \in Directions
      PROVE  /\ \A m \in ToSet(chan'[<<a, b>>]) :
                  IF m = TCN THEN bridge'[a].port[b].role = "ROOT"
                  ELSE bridge'[a].port[b].role = "DESIGNATED" /\ m.info = Claim(a)'
             /\ Carries(a, b)' /\ bridge'[a].port[b].role = "DESIGNATED" => HelloComes(a, b)'
  <2>1. a \in Bridges /\ b \in Bridges /\ b \in Ports(a)
    BY <1>6, Network
  <2>2. chan'[<<a, b>>] = IF Carries(a, b) THEN Ticked(a).out[b] ELSE <<>>
    <3> DEFINE rest == Sent(a, b, Ticked(a).out)
    <3>1. chan'[<<a, b>>] = <<>> \o rest
      BY <1>1, <1>2, <1>6
    <3>2. rest \in Seq(Bpdus(a))
      BY <2>1, TickedSound DEF Sent, Sends
    <3>. HIDE DEF rest
    <3>3. <<>> \o rest = rest
      BY <3>2, ConcatEmptySeq
    <3>. QED BY <3>1, <3>3 DEF rest, Sent
  <2>3. CASE ~Carries(a, b)
    BY <1>5, <1>6, <2>2, <2>3, MemberOfNone
  <2>4. CASE Carries(a, b)
    <3>1. Up(a) /\ chan'[<<a, b>>] = Ticked(a).out[b]
      BY <2>2, <2>4 DEF Carries
    <3>2. /\ Alike(a, bridge[a], bridge'[a]) /\ Fits(a, bridge[a], Ticked(a).out)
          /\ \A p \in Ports(a) :
                  /\ bridge[a].port[p].role # "DESIGNATED" => bridge'[a].port[p].age = 1
                  /\ bridge[a].isRoot => \E m \in ToSet(Ticked(a).out[p]) : m # TCN
      BY <1>4, <2>1, <3>1
    <3>3. /\ bridge'[a].port[b].role = bridge[a].port[b].role
          /\ Claim(a)' = [root |-> bridge[a].root, cost |-> bridge[a].cost, bridge |-> a]
      BY <2>1, <3>2 DEF Alike, Claim
    <3>4. \A m \in ToSet(chan'[<<a, b>>]) :
                  IF m = TCN THEN bridge'[a].port[b].role = "ROOT"
                  ELSE bridge'[a].port[b].role = "DESIGNATED" /\ m.info = Claim(a)'
      BY <2>1, <3>1, <3>2, <3>3 DEF Fits
    <3>5. CASE bridge[a].isRoot
      BY <2>1, <3>1, <3>2, <3>4, <3>5 DEF HelloComes
    <3>6. CASE ~bridge[a].isRoot
      <4> DEFINE q == bridge[a].rootPort
      <4>1. q \in Ports(a) /\ bridge[a].port[q].role = "ROOT"
        BY <2>1, <3>1, <3>6, ActiveBridge DEF RolesOf
      <4>2. ~bridge'[a].isRoot /\ bridge'[a].rootPort = q /\ bridge'[a].port[q].age = 1
        BY <3>2, <3>6, <4>1 DEF Alike
      <4>. QED BY <3>4, <4>2 DEF HelloComes
    <3>. QED BY <3>5, <3>6
  <2>. QED BY <2>3, <2>4
<1>7. \A d \in Directions : d = <<d[1], d[2]>>
  BY DEF Directions
<1>8. \A b \in Bridges : bridge'[b].up # "fresh"
  BY <1>2, <1>3
<1>9. \A d \in Directions : NothingNew(d[1], d[2])'
  <2>1. ASSUME NEW a, NEW b, <<a, b>> \in Directions PROVE NothingNew(a, b)'
    BY <1>6, <2>1 DEF NothingNew
  <2>. QED BY <1>7, <2>1, Zenon
<1>. QED BY <1>1, <1>5, <1>8, <1>9 DEF Steady

\* What the arrival of a BPDU from a makes of b in a steady network.
LEMMA SteadyAnswer ==
  ASSUME Invariant, Steady, NEW a, NEW b, <<a, b>> \in Directions, chan[<<a, b>>] # <<>>
  PROVE  LET done == Answer(a, b)
             m    == Head(chan[<<a, b>>]) IN
         /\ Alike(b, bridge[b], done.r) /\ Fits(b, bridge[b], done.out)
         /\ \A p \in Ports(b) : done.r.port[p].state = bridge[b].port[p].state
         /\ \A p \in Ports(b) \ {a} : done.r.port[p].age = bridge[b].port[p].age
         /\ m = TCN => /\ bridge[a].port[b].role = "ROOT" /\ bridge[b].port[a].role = "DESIGNATED"
                       /\ done.r.port = bridge[b].port
         /\ m # TCN => /\ done.r.port[a].age = 0
                       /\ bridge[b].port[a].role = "ROOT" => \A p \in Ports(b) :
                            bridge[b].port[p].role = "DESIGNATED" => \E c \in ToSet(done.out[p]) : c # TCN
<1> DEFINE m == Head(chan[<<a, b>>])
           r == bridge[b]
<1>1. /\ a \in Bridges /\ b \in Bridges /\ a \in Ports(b)
      /\ chan[<<a, b>>] \in Seq(Bpdus(a)) /\ m \in Bpdus(a) /\ Carries(a, b) /\ Sound(b, r)
  BY Arrives
<1>2. m \in ToSet(chan[<<a, b>>])
  BY <1>1, SequenceMembers
<1>3. IF m = TCN THEN bridge[a].port[b].role = "ROOT"
      ELSE bridge[a].port[b].role = "DESIGNATED" /\ m.info = Claim(a)
  BY <1>2, SteadyLink
<1>4. /\ bridge[a].port[b].role = "DESIGNATED" <=> r.port[a].role # "DESIGNATED"
      /\ bridge[a].port[b].role = "DESIGNATED" => r.port[a].info = Own(a, bridge[a])
  BY <1>1, OneSpeaks DEF Steady
<1>5. CASE m = TCN
  <2> DEFINE done == HandleTCN(b, r, a)
  <2>1. Answer(a, b) = done
    BY <1>5 DEF Answer
  <2>2. bridge[a].port[b].role = "ROOT" /\ r.port[a].role = "DESIGNATED"
    BY <1>3, <1>4, <1>5
  <2>3. Alike(b, r, done.r) /\ Fits(b, r, done.out) /\ done.r.port = r.port
    <3>. HIDE DEF r
    <3>. QED BY <1>1, <2>2, SteadyTCN
  <2>. HIDE DEF done
  <2>. QED BY <1>5, <2>1, <2>2, <2>3
<1>6. CASE m # TCN
  <2> DEFINE done == HandleBPDU(b, r, a, m)
  <2>1. Answer(a, b) = done
    BY <1>6 DEF Answer
  <2>2. /\ r.port[a].role # "DESIGNATED"
        /\ r.port[a].info = [root |-> m.info.root, cost |-> m.info.cost + 1, bridge |-> a]
    BY <1>3, <1>4, <1>6 DEF Claim, Own
  <2>3. /\ Alike(b, r, done.r) /\ Fits(b, r, done.out)
        /\ \A q \in Ports(b) : done.r.port[q].state = r.port[q].state
        /\ done.r.port[a].age = 0
        /\ \A q \in Ports(b) \ {a} : done.r.port[q].age = r.port[q].age
        /\ r.port[a].role = "ROOT" =>
              \A q \in Ports(b) : r.port[q].role = "DESIGNATED" => \E c \in ToSet(done.out[q]) : c # TCN
    <3>. HIDE DEF r, m
    <3>. QED BY <1>1, <1>6, <2>2, SteadyBPDU
  <2>. HIDE DEF done
  <2>. QED BY <1>6, <2>1, <2>2, <2>3
<1>. QED BY <1>5, <1>6

\* The arrival of a BPDU leaves a steady network steady.
LEMMA SteadyAfterDeliver ==
  ASSUME Invariant, Steady, NEW a, NEW b, <<a, b>> \in Directions, Deliver(a, b)
  PROVE  Steady'
<1> DEFINE done == Answer(a, b)
           m    == Head(chan[<<a, b>>])
           back == m = TCN /\ Carries(b, a) /\ TCN \in ToSet(done.out[a])
           out  == IF back /\ returns = MaxReturns
                   THEN [done.out EXCEPT ![a] = Front(@)] ELSE done.out
<1>1. chan[<<a, b>>] # <<>>
  BY DEF Deliver, Ready
<1>2. /\ bridge' = [bridge EXCEPT ![b] = done.r]
      /\ chan' = [d \in Directions |->
              IF d = <<a, b>> THEN Tail(chan[d])
              ELSE IF d[1] = b THEN chan[d] \o Sent(b, d[2], out) ELSE chan[d]]
      /\ late' = IF back /\ returns = MaxReturns THEN late \cup {<<b, a>>} ELSE late
      /\ cut' = cut
  BY DEF Deliver, Answer
<1>3. /\ a \in Bridges /\ b \in Bridges /\ a \in Ports(b) /\ b \in Ports(a) /\ a # b
      /\ chan[<<a, b>>] \in Seq(Bpdus(a)) /\ Up(b) /\ Carries(a, b) /\ Sound(b, bridge[b])
  BY <1>1, Arrives, Network
<1>4. done.r.up = bridge[b].up /\ Sends(b, done)
  BY <1>1, AnswerSound
<1>5. /\ Alike(b, bridge[b], done.r) /\ Fits(b, bridge[b], done.out)
      /\ \A p \in Ports(b) : done.r.port[p].state = bridge[b].port[p].state
      /\ \A p \in Ports(b) \ {a} : done.r.port[p].age = bridge[b].port[p].age
      /\ m = TCN => /\ bridge[a].port[b].role = "ROOT" /\ bridge[b].port[a].role = "DESIGNATED"
                    /\ done.r.port = bridge[b].port
      /\ m # TCN => /\ done.r.port[a].age = 0
                    /\ bridge[b].port[a].role = "ROOT" => \A p \in Ports(b) :
                         bridge[b].port[p].role = "DESIGNATED" => \E c \in ToSet(done.out[p]) : c # TCN
  BY <1>1, SteadyAnswer
<1>6. ~back
  BY <1>3, <1>5 DEF Fits
<1>7. out = done.out /\ late' = {}
  BY <1>2, <1>6 DEF Steady
<1>. HIDE DEF out, done, back
<1>8. /\ bridge'[b] = done.r /\ \A c \in Bridges \ {b} : bridge'[c] = bridge[c]
  BY <1>2, <1>3 DEF Invariant, BridgesRight
<1>9. /\ Settled' /\ \A x, y : <<x, y>> \in Directions => Carries(x, y)' = Carries(x, y)
      /\ \A c \in Bridges : Alike(c, bridge[c], bridge'[c]) /\ bridge'[c].up = bridge[c].up
  <2>1. ASSUME NEW c \in Bridges
        PROVE  /\ Alike(c, bridge[c], bridge'[c]) /\ bridge'[c].up = bridge[c].up
               /\ \A p \in Ports(c) : bridge'[c].port[p].state = bridge[c].port[p].state
    <3>1. CASE c = b
      BY <1>4, <1>5, <1>8, <3>1
    <3>2. CASE c # b
      BY <1>8, <3>2 DEF Alike
    <3>. QED BY <3>1, <3>2
  <2>2. Settled' /\ \A x, y : <<x, y>> \in Directions => Carries(x, y)' = Carries(x, y)
    BY <1>2, <2>1, SettledStays DEF Steady
  <2>. QED BY <2>1, <2>2
<1>10. ASSUME NEW x, NEW y, <<x, y>> \in Directions PROVE NothingNew(x, y)'
  <2>1. /\ x \in Bridges /\ y \in Bridges /\ x \in Ports(y) /\ y \in Ports(x) /\ x # y
        /\ chan[<<x, y>>] \in Seq(Bpdus(x)) /\ (chan[<<x, y>>] # <<>> => Carries(x, y))
    BY <1>10, Network DEF Invariant, LinksRight
  <2>2. /\ bridge'[x].port[y].role = bridge[x].port[y].role /\ Claim(x)' = Claim(x)
        /\ bridge'[x].isRoot = bridge[x].isRoot
        /\ ~bridge[x].isRoot => bridge'[x].rootPort = bridge[x].rootPort
    BY <1>9, <2>1 DEF Alike, Claim
  <2>3. /\ \A c \in ToSet(chan[<<x, y>>]) :
              IF c = TCN THEN bridge[x].port[y].role = "ROOT"
              ELSE bridge[x].port[y].role = "DESIGNATED" /\ c.info = Claim(x)
        /\ Carries(x, y) /\ bridge[x].port[y].role = "DESIGNATED" => HelloComes(x, y)
    BY <1>10, SteadyLink
  <2>4. CASE <<x, y>> = <<a, b>>
    <3>0. x = a /\ y = b
      BY <2>4
    <3>1. chan'[<<x, y>>] = Tail(chan[<<x, y>>])
      BY <1>2, <1>10, <2>4
    <3>2. m \in ToSet(chan[<<x, y>>]) /\ ToSet(chan'[<<x, y>>]) \subseteq ToSet(chan[<<x, y>>])
      BY <1>1, <2>1, <2>4, <3>1, SequenceMembers
    <3>3. bridge[x].port[y].role = "DESIGNATED" => m # TCN
      BY <2>3, <3>2
    <3>4. bridge[x].port[y].role = "DESIGNATED" => bridge'[y].port[x].age = 0
      BY <1>5, <1>8, <3>0, <3>3
    <3>. QED BY <2>2, <2>3, <3>2, <3>4 DEF NothingNew, HelloComes
  <2>5. CASE x = b
    <3>1. chan'[<<x, y>>] = chan[<<x, y>>] \o Sent(b, y, done.out) /\ bridge'[y] = bridge[y]
      BY <1>2, <1>3, <1>7, <1>8, <1>10, <2>1, <2>5
    <3>2. Sent(b, y, done.out) = (IF Carries(b, y) THEN done.out[y] ELSE <<>>)
          /\ Sent(b, y, done.out) \in Seq(Bpdus(x))
      BY <1>4, <2>1, <2>5 DEF Sent, Sends
    <3>3. ToSet(chan'[<<x, y>>]) = ToSet(chan[<<x, y>>]) \cup ToSet(Sent(b, y, done.out))
      <4> DEFINE old == chan[<<x, y>>]
                 new == Sent(b, y, done.out)
      <4>1. old \in Seq(Bpdus(x)) /\ new \in Seq(Bpdus(x)) /\ chan'[<<x, y>>] = old \o new
        BY <2>1, <3>1, <3>2
      <4>. HIDE DEF old, new
      <4>2. ToSet(old \o new) = ToSet(old) \cup ToSet(new)
        BY <4>1, SequenceMembers
      <4>. QED BY <4>1, <4>2 DEF old, new
    <3>4. \A c \in ToSet(chan'[<<x, y>>]) :
              IF c = TCN THEN bridge'[x].port[y].role = "ROOT"
              ELSE bridge'[x].port[y].role = "DESIGNATED" /\ c.info = Claim(x)'
      <4>1. \A c \in ToSet(Sent(b, y, done.out)) :
              IF c = TCN THEN bridge[x].port[y].role = "ROOT"
              ELSE bridge[x].port[y].role = "DESIGNATED" /\ c.info = Claim(x)
        BY <1>5, <2>1, <2>5, <3>2, MemberOfNone DEF Fits, Claim
      <4>. QED BY <2>2, <2>3, <3>3, <4>1
    <3>5. ASSUME Carries(x, y), bridge[x].port[y].role = "DESIGNATED" PROVE HelloComes(x, y)'
      <4>1. HelloComes(x, y)
        BY <2>3, <3>5
      <4>2. CASE \/ bridge[y].port[x].age = 0 \/ \E c \in ToSet(chan[<<x, y>>]) : c # TCN
        BY <3>1, <3>3, <4>2 DEF HelloComes
      <4>3. CASE ~bridge[x].isRoot /\ bridge[x].port[bridge[x].rootPort].age # 0
        <5> DEFINE q == bridge[x].rootPort
        <5>1. q \in Ports(b) /\ bridge[b].port[q].role = "ROOT"
          BY <1>3, <2>5, <4>3, ActiveBridge DEF RolesOf
        <5>2. CASE m = TCN
          <6>1. bridge'[x].port[q].age = bridge[x].port[q].age
            BY <1>5, <1>8, <2>5, <5>2
          <6>. QED BY <2>2, <4>3, <6>1 DEF HelloComes
        <5>3. CASE m # TCN /\ q # a
          <6>1. bridge'[x].port[q].age = bridge[x].port[q].age
            BY <1>5, <1>8, <2>5, <5>1, <5>3
          <6>. QED BY <2>2, <4>3, <6>1 DEF HelloComes
        <5>4. CASE m # TCN /\ q = a
          <6>1. \E c \in ToSet(done.out[y]) : c # TCN
            BY <1>5, <2>1, <2>5, <3>5, <5>1, <5>4
          <6>. QED BY <2>5, <3>2, <3>3, <3>5, <6>1 DEF HelloComes
        <5>. QED BY <5>2, <5>3, <5>4
      <4>. QED BY <4>1, <4>2, <4>3 DEF HelloComes
    <3>. QED BY <1>9, <1>10, <2>2, <3>4, <3>5 DEF NothingNew
  <2>6. CASE <<x, y>> # <<a, b>> /\ x # b
    <3>1. chan'[<<x, y>>] = chan[<<x, y>>] /\ bridge'[x] = bridge[x]
      BY <1>2, <1>8, <1>10, <2>1, <2>6
    <3>2. bridge'[y].port[x].age = bridge[y].port[x].age
      <4>1. CASE y = b
        BY <1>5, <1>8, <2>1, <2>6, <4>1
      <4>2. CASE y # b
        BY <1>8, <2>1, <4>2
      <4>. QED BY <4>1, <4>2
    <3>3. HelloComes(x, y) => HelloComes(x, y)'
      BY <3>1, <3>2 DEF HelloComes
    <3>. QED BY <1>9, <1>10, <2>2, <2>3, <3>1, <3>3 DEF NothingNew
  <2>. QED BY <2>4, <2>5, <2>6
<1>11. \A d \in Directions : NothingNew(d[1], d[2])'
  <2>1. \A d \in Directions : d = <<d[1], d[2]>>
    BY DEF Directions
  <2>. QED BY <1>10, <2>1, Zenon
<1>12. \A c \in Bridges : bridge'[c].up # "fresh"
  BY <1>9 DEF Steady
<1>. QED BY <1>7, <1>9, <1>11, <1>12 DEF Steady

\* A steady network stays steady until something fails, however the hellos, their relays
\* and the notifications of a second are interleaved: no information becomes too old,
\* no role changes, no port stops forwarding.  maxAge of a single tick would forget
\* every root at every tick.
THEOREM SteadyStays ==
  ASSUME MaxAge > 1
  PROVE  Spec => [][Steady /\ faults' = faults => Steady']_vars
<1>1. ASSUME Invariant, [Next]_vars PROVE [Steady /\ faults' = faults => Steady']_vars
  <2>. SUFFICES ASSUME Next, Steady, faults' = faults PROVE Steady'
    BY <1>1
  <2>. USE <1>1
  <2>1. \A f : ~Fault(f)
    <3>1. faults \in Nat
      BY StpAssumption DEF Invariant, LinksRight
    <3>. QED BY <3>1 DEF Fault
  <2>2. ASSUME NEW d \in Directions, Deliver(d[1], d[2]) PROVE Steady'
    <3>1. d = <<d[1], d[2]>>
      BY DEF Directions
    <3>. QED BY <2>2, <3>1, SteadyAfterDeliver
  <2>3. CASE Tick
    BY <2>3, SteadyAfterTick
  <2>. QED BY <2>1, <2>2, <2>3 DEF Next, Cut, Mend, Stop, Start
<1>. QED BY <1>1, Inductive, PTL DEF Spec

\* From a steady state on, as long as nothing fails, the forwarding links are a spanning
\* tree for ever: the closure half of Heals, without fairness.
THEOREM TreeStays ==
  ASSUME MaxAge > 1
  PROVE  Spec => [](Steady /\ [][faults' = faults]_vars => [](Steady /\ SpanningTree))
<1>1. Steady /\ UNCHANGED vars => Steady'
  <2>. SUFFICES ASSUME Steady, UNCHANGED <<bridge, chan, cut, late>> PROVE Steady'
    BY DEF vars
  <2>1. Settled'
    BY DEF Steady, Settled, Carries, Up
  <2>2. ASSUME NEW d \in Directions PROVE NothingNew(d[1], d[2])'
    BY DEF Steady, NothingNew, HelloComes, Carries, Up, Claim
  <2>. QED BY <2>1, <2>2 DEF Steady
<1>2. Steady => Settled
  BY DEF Steady
<1>3. Spec => [][Steady /\ faults' = faults => Steady']_vars
  BY SteadyStays
<1>. QED BY <1>1, <1>2, <1>3, SettledTree, PTL
=============================================================================
