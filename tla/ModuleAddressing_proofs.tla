------------------------ MODULE ModuleAddressing_proofs ------------------------
(***************************************************************************)
(* What TLAPS proves about ModuleAddressing, for any modules, priorities   *)
(* and number of addresses, and any number of disturbances.                *)
(***************************************************************************)
EXTENDS ModuleAddressing, FiniteSetTheorems, WellFoundedInduction, TLAPS

(***************************************************************************)
(* The inductive invariant                                                 *)
(***************************************************************************)

\* The contents a registry may have: one address, one record.
Registers == {r \in [Modules -> 0..LastAddress] :
                \A m, n \in Modules : m # n /\ r[m] # 0 => r[n] # r[m]}
Known(r) == {m \in Modules : r[m] # 0}

World == address \in [Modules -> Addresses] /\ present \subseteq Modules
Registry == /\ record \in Registers /\ snapshot \in Registers
            /\ (online \cup seen) \subseteq Known(record)
Jobs == [step : {"idle", "discover", "move", "scan"}, prune : BOOLEAN, next : 1..(LastAddress + 1)]
Job == scan \in Jobs /\ pending \in {None, Full} \cup Addresses
Plan == /\ found \in Seq(Modules) /\ tried \subseteq Found
        /\ scan.step # "move" => found = <<>>
        /\ at \in [Modules -> 0..LastAddress] /\ target \in [Modules -> 0..LastAddress]
        /\ \A m \in Modules : at[m] # 0 <=> m \in Found
Counted == disturbances \in 0..MaxDisturbances

\* No module is to be sent where one is recorded that has not been discovered.
Reserved == scan.step = "move" =>
              \A m \in Modules \ Found, n \in Found : record[m] # 0 => target[n] # record[m]

Inv == World /\ Registry /\ Job /\ Plan /\ Counted /\ Reserved

LEMMA Assumed ==
  /\ NoModule \notin Modules /\ IsFiniteSet(Modules)
  /\ LastAddress \in Nat /\ MaxDisturbances \in Nat
  /\ 1 \in 1..(LastAddress + 1)
  /\ Addresses \subseteq 1..(LastAddress + 1) /\ Addresses \subseteq Nat \ {0}
<1>1. LastAddress \in Nat
  BY ModulesAssumption
<1> QED
  BY <1>1, ModulesAssumption DEF Addresses

LEMMA Typed == Inv => TypeOK
BY DEF Inv, World, Registry, Registers, Known, Job, Jobs, Plan, Counted, TypeOK

(***************************************************************************)
(* The operators of the model                                              *)
(***************************************************************************)

\* A set of numbers that is not empty has a least one.
LEMMA HasLeast ==
  ASSUME NEW S, S \subseteq Nat, S # {}
  PROVE  \E i \in S : \A j \in S : i <= j
<1> DEFINE Less == {p \in Nat \X Nat : p[1] < p[2]}
<1>1. IsWellFoundedOn(Less, Nat)
  BY NatLessThanWellFounded, Zenon DEF OpToRel
<1> HIDE DEF Less
<1>2. PICK i \in S : \A j \in S : ~ (<<j, i>> \in Less)
  BY <1>1, WFMin
<1>3. \A j \in S : ~ (j < i)
  BY <1>2 DEF Less
<1> QED
  BY <1>3

\* What is bound leaves one record at an address.
LEMMA Bound ==
  ASSUME NEW r \in Registers, NEW m \in Modules, NEW a \in Addresses
  PROVE  /\ Bind(r, m, a) \in Registers
         /\ Known(r) \subseteq Known(Bind(r, m, a))
         /\ Bindable(r, m, a) => m \in Known(Bind(r, m, a)) /\ Bind(r, m, a)[m] = a
         /\ \A n \in Modules \ {m} : Bind(r, m, a)[n] = r[n]
<1>1. a \in 0..LastAddress /\ a # 0
  BY Assumed DEF Addresses
<1>2. CASE ~Bindable(r, m, a)
  BY <1>2 DEF Bind
<1>3. CASE Bindable(r, m, a)
  <2>1. Bind(r, m, a) = [r EXCEPT ![m] = a]
    BY <1>3 DEF Bind
  <2>2. \A n \in Modules \ {m} : r[n] # a
    BY <1>3 DEF Bindable
  <2> QED
    BY <1>1, <2>1, <2>2 DEF Registers, Known
<1> QED
  BY <1>2, <1>3

\* An answer costs a disturbance at most.
LEMMA AnswerCounted ==
  ASSUME Counted, NEW addr, NEW a, NEW m, Answers(addr, a, m)
  PROVE  Counted'
<1>1. MaxDisturbances \in Nat
  BY Assumed
<1> QED
  BY <1>1 DEF Counted, Answers, Disturbed

\* What readInfo leaves of a registry in order is in order.
LEMMA RecordedInOrder ==
  ASSUME Registry, NEW r \in Registers, Known(record) \subseteq Known(r),
         NEW a \in Addresses, NEW m \in Modules \cup {NoModule}, Recorded(r, a, m)
  PROVE  record' \in Registers /\ (online \cup seen)' \subseteq Known(record')
<1>1. CASE m # NoModule /\ Bindable(r, m, a)
  <2>1. m \in Modules
    BY <1>1
  <2>2. /\ record' = Bind(r, m, a)
        /\ (online \cup seen)' \subseteq online \cup seen \cup {m}
    BY <1>1 DEF Recorded
  <2> QED
    BY <1>1, <2>1, <2>2, Bound DEF Registry
<1>2. CASE ~(m # NoModule /\ Bindable(r, m, a))
  BY <1>2 DEF Recorded, Registry
<1> QED
  BY <1>1, <1>2

LEMMA Scanned ==
  ASSUME Inv, NEW a \in Addresses, scanAddress(a), snapshot' = snapshot
  PROVE  Registry' /\ Counted'
<1>1. PICK m \in Modules \cup {NoModule} : Answers(address, a, m) /\ Recorded(record, a, m)
  BY DEF scanAddress
<1>2. Counted'
  BY <1>1, AnswerCounted DEF Inv
<1>3. record' \in Registers /\ (online \cup seen)' \subseteq Known(record')
  BY <1>1, RecordedInOrder DEF Inv, Registry
<1> QED
  BY <1>2, <1>3 DEF Inv, Registry

\* The first of a set of places is among them.
LEMMA FirstFound ==
  ASSUME Plan, NEW indices, indices \subseteq DOMAIN found, indices # {}
  PROVE  \E i \in indices : First(indices) = found[i]
<1>1. indices \subseteq Nat
  BY DEF Plan
<1>2. \E i \in indices : \A j \in indices : i <= j
  BY <1>1, HasLeast
<1> QED
  BY <1>2 DEF First

\* What the assignment gives away is reserved for nobody.
LEMMA DesiredUnreserved ==
  ASSUME Registry, NEW order, NEW m, Desired(order, m) # 0
  PROVE  /\ Desired(order, m) \in Addresses
         /\ \A n \in Modules \ ToSet(order) : record[n] # Desired(order, m)
<1> DEFINE slot == Cardinality({n \in ToSet(order) : Before(order, n, m)})
           fits == {a \in Unreserved(order) : Cardinality({b \in Unreserved(order) : b < a}) = slot}
<1>1. Desired(order, m) = IF fits = {} THEN 0 ELSE CHOOSE a \in fits : TRUE
  BY Zenon DEF Desired
<1>2. fits \subseteq Unreserved(order)
  OBVIOUS
<1> HIDE DEF fits
<1>3. fits # {}
  BY <1>1
<1>4. Desired(order, m) \in fits
  BY <1>1, <1>3
<1> QED
  BY <1>2, <1>4 DEF Unreserved

(***************************************************************************)
(* The moves of an assignment                                              *)
(***************************************************************************)

\* A module that is to be moved has been discovered, and its target is an address.
LEMMA Chosen ==
  ASSUME Inv, NEW indices, indices \subseteq Waiting, indices # {}
  PROVE  /\ First(indices) \in Found /\ First(indices) \in Modules
         /\ target[First(indices)] \in Addresses
<1>1. PICK i \in indices : First(indices) = found[i]
  BY FirstFound DEF Inv, Waiting
<1>2. i \in DOMAIN found /\ ~Done(found[i])
  BY <1>1 DEF Waiting
<1>3. found[i] \in Found /\ found[i] \in Modules
  BY <1>2 DEF Inv, Plan, Found, ToSet
<1>4. LastAddress \in Nat
  BY Assumed
<1>5. target[found[i]] \in Addresses
  BY <1>2, <1>3, <1>4 DEF Inv, Plan, Done, Addresses
<1> QED
  BY <1>1, <1>3, <1>5

\* Nothing else is recorded at the target than what has been bound to it.
LEMMA MoveRecords ==
  ASSUME Inv, NEW m \in Modules, NEW a \in Addresses, Bindable(record, m, a),
         NEW n \in Modules \cup {NoModule}, Recorded(Bind(record, m, a), a, n)
  PROVE  record' = Bind(record, m, a)
<1> DEFINE r == Bind(record, m, a)
<1>1. r \in Registers /\ r[m] = a
  BY Bound DEF Inv, Registry
<1>2. CASE n # NoModule /\ Bindable(r, n, a)
  <2>1. n = m
    BY <1>1, <1>2 DEF Bindable
  <2>2. Bind(r, m, a) = r
    BY <1>1 DEF Bind, Registers
  <2> QED
    BY <1>2, <2>1, <2>2 DEF Recorded
<1>3. CASE ~(n # NoModule /\ Bindable(r, n, a))
  BY <1>3 DEF Recorded
<1> QED
  BY <1>2, <1>3

\* A step of the assignment sends a module it has discovered to an address where no
\* other module is recorded that it has not discovered.
Sends(m, a) ==
  /\ m \in Found /\ m \in Modules /\ a \in Addresses
  /\ \A n \in Modules \ Found : record[n] # a
  /\ address' \in {address, [address EXCEPT ![m] = a]}
  /\ record' \in {record, Bind(record, m, a)}

LEMMA MoveSends ==
  ASSUME Inv, Move
  PROVE  /\ Registry' /\ Counted'
         /\ \E m \in Modules : \E a \in Addresses :
              /\ Sends(m, a)
              /\ at' \in {at, [at EXCEPT ![m] = a]} /\ tried' \in {tried, tried \cup {m}}
<1> DEFINE m == First(Movable)
           a == target[m]
           bound == /\ Moves(m, a)
                    /\ Bindable(record, m, a)
                    /\ \E n \in Modules \cup {NoModule} :
                         Answers(address', a, n) /\ Recorded(Bind(record, m, a), a, n)
                    /\ at' = [at EXCEPT ![m] = a]
                    /\ UNCHANGED <<snapshot, tried>>
           refused == /\ Moves(m, a)
                      /\ tried' = tried \cup {m}
                      /\ UNCHANGED <<registry, at, disturbances>>
           failed == /\ MoveFails(m, a)
                     /\ tried' = tried \cup {m}
                     /\ UNCHANGED <<registry, at>>
<1>1. bound \/ refused \/ failed
  BY DEF Move
<1>2. m \in Found /\ m \in Modules /\ a \in Addresses
  <2>1. Movable \subseteq Waiting /\ Movable # {}
    BY DEF Move, Movable
  <2> QED
    BY <2>1, Chosen
<1>3. \A n \in Modules \ Found : record[n] # a
  <2>1. scan.step = "move" /\ a # 0
    BY <1>2, Assumed DEF Move
  <2> QED
    BY <1>2, <2>1 DEF Inv, Reserved
<1> HIDE DEF m, a
<1>4. CASE bound
  <2>1. PICK n \in Modules \cup {NoModule} :
          Answers(address', a, n) /\ Recorded(Bind(record, m, a), a, n)
    BY <1>4
  <2>2. record' = Bind(record, m, a)
    BY <1>2, <1>4, <2>1, MoveRecords
  <2>3. Counted'
    BY <2>1, AnswerCounted DEF Inv
  <2>4. Bind(record, m, a) \in Registers /\ Known(record) \subseteq Known(Bind(record, m, a))
    BY <1>2, Bound DEF Inv, Registry
  <2>5. record' \in Registers /\ (online \cup seen)' \subseteq Known(record')
    BY <1>2, <2>1, <2>4, RecordedInOrder DEF Inv
  <2>6. Registry'
    BY <1>4, <2>5 DEF Registry, Inv
  <2>7. Sends(m, a)
    BY <1>2, <1>3, <1>4, <2>2 DEF Sends, Moves
  <2> QED
    BY <1>2, <1>4, <2>3, <2>6, <2>7
<1>5. CASE refused
  <2>1. Sends(m, a)
    BY <1>2, <1>3, <1>5 DEF Sends, Moves, registry
  <2> QED
    BY <1>2, <1>5, <2>1 DEF Inv, Registry, Counted, registry
<1>6. CASE failed
  <2>1. Sends(m, a)
    BY <1>2, <1>3, <1>6 DEF Sends, MoveFails, registry
  <2>2. Counted'
    BY <1>6, Assumed DEF Inv, Counted, MoveFails, Disturbed
  <2> QED
    BY <1>2, <1>6, <2>1, <2>2 DEF Inv, Registry, registry
<1> QED
  BY <1>1, <1>4, <1>5, <1>6

LEMMA MoveTemporarilySends ==
  ASSUME Inv, MoveTemporarily
  PROVE  /\ Registry' /\ Counted'
         /\ \/ \E m \in Modules : \E a \in Addresses :
                  /\ Sends(m, a) /\ at' = [at EXCEPT ![m] = a]
                  /\ UNCHANGED <<scan, found, target, tried>>
            \/ /\ EndAssignment
               /\ record' = record
               /\ address' = address \/ \E m \in Modules : \E a \in Addresses : Sends(m, a)
<1> DEFINE m == First(Waiting)
           a == Least(Temporary(m))
           moved == /\ Temporary(m) # {} /\ Moves(m, a)
                    /\ record' = Bind(record, m, a)
                    /\ at' = [at EXCEPT ![m] = a]
                    /\ UNCHANGED <<scan, found, target, tried, disturbances>>
           ended == /\ IF Temporary(m) = {} THEN UNCHANGED <<address, disturbances>>
                       ELSE MoveFails(m, a)
                    /\ EndAssignment
                    /\ UNCHANGED record
<1>1. moved \/ ended
  BY DEF MoveTemporarily
<1>2. m \in Found /\ m \in Modules
  BY Chosen DEF MoveTemporarily
<1>3. ASSUME Temporary(m) # {}
      PROVE  a \in Addresses /\ \A n \in Modules : record[n] # a
  <2> DEFINE T == Temporary(m)
  <2>1. T \subseteq Addresses /\ \A b \in T : \A n \in Modules : record[n] # b
    BY DEF Temporary
  <2> HIDE DEF T
  <2>2. T \subseteq Nat /\ T # {}
    BY <1>3, <2>1, Assumed DEF T
  <2>3. \E b \in T : \A x \in T : b <= x
    BY <2>2, HasLeast
  <2>4. Least(T) \in T
    BY <2>3 DEF Least
  <2> QED
    BY <2>1, <2>4 DEF T
<1>4. UNCHANGED <<snapshot, online, seen>>
  BY DEF MoveTemporarily
<1> HIDE DEF m, a
<1>5. CASE moved
  <2>1. a \in Addresses /\ \A n \in Modules : record[n] # a
    BY <1>3, <1>5 DEF a
  <2>2. Registry'
    BY <1>2, <1>4, <1>5, <2>1, Bound DEF Inv, Registry
  <2>3. Sends(m, a)
    BY <1>2, <1>5, <2>1 DEF Sends, Moves
  <2> QED
    BY <1>2, <1>5, <2>1, <2>2, <2>3 DEF Inv, Counted
<1>6. CASE ended
  <2>1. Counted'
    BY <1>6, Assumed DEF Inv, Counted, MoveFails, Disturbed
  <2>2. Registry'
    BY <1>4, <1>6 DEF Inv, Registry
  <2>3. CASE Temporary(m) = {}
    BY <1>6, <2>1, <2>2, <2>3
  <2>4. CASE Temporary(m) # {}
    <3>1. a \in Addresses /\ \A n \in Modules : record[n] # a
      BY <1>3, <2>4 DEF a
    <3>2. Sends(m, a)
      BY <1>2, <1>6, <2>4, <3>1 DEF Sends, MoveFails
    <3> QED
      BY <1>2, <1>6, <2>1, <2>2, <3>1, <3>2
  <2> QED
    BY <2>3, <2>4
<1> QED
  BY <1>1, <1>5, <1>6

LEMMA SendsApart ==
  ASSUME Inv, NEW m, NEW a, Sends(m, a)
  PROVE  \A n \in Modules \ Found :
           /\ record'[n] = record[n]
           /\ record[n] # 0 =>
                \A x \in Modules \ {n} : address'[x] = record[n] => address[x] = record[n]
<1> SUFFICES ASSUME NEW n \in Modules \ Found
             PROVE  /\ record'[n] = record[n]
                    /\ record[n] # 0 =>
                         \A x \in Modules \ {n} : address'[x] = record[n] => address[x] = record[n]
  OBVIOUS
<1>1. m \in Modules /\ a \in Addresses /\ n # m /\ record[n] # a
  BY DEF Sends
<1>2. Bind(record, m, a)[n] = record[n]
  BY <1>1, Bound DEF Inv, Registry
<1>3. record'[n] = record[n]
  BY <1>2 DEF Sends
<1>4. \A x \in Modules : address'[x] \in {address[x], a}
  BY DEF Sends, Inv, World
<1> QED
  BY <1>1, <1>3, <1>4

LEMMA MovesKeepAbsent ==
  ASSUME Inv, Move \/ MoveTemporarily
  PROVE  \A m \in Modules \ Found :
           /\ record'[m] = record[m]
           /\ record[m] # 0 =>
                \A n \in Modules \ {m} : address'[n] = record[m] => address[n] = record[m]
<1>1. CASE Move
  BY <1>1, MoveSends, SendsApart
<1>2. CASE MoveTemporarily
  <2>1. \/ \E m \in Modules : \E a \in Addresses : Sends(m, a)
        \/ record' = record /\ address' = address
    BY <1>2, MoveTemporarilySends
  <2> QED
    BY <2>1, SendsApart
<1> QED
  BY <1>1, <1>2

LEMMA MoveKeeps == ASSUME Inv, Move PROVE Inv'
<1>1. PICK m \in Modules, a \in Addresses :
        /\ Sends(m, a)
        /\ at' \in {at, [at EXCEPT ![m] = a]} /\ tried' \in {tried, tried \cup {m}}
  BY MoveSends
<1>2. UNCHANGED <<present, scan, pending, found, target>> /\ Found' = Found
  BY DEF Move, Found
<1>3. a \in 0..LastAddress /\ a # 0
  BY Assumed DEF Addresses
<1>4. World'
  BY <1>1, <1>2 DEF Inv, World, Sends
<1>5. Job'
  BY <1>2 DEF Inv, Job
<1>6. Plan'
  BY <1>1, <1>2, <1>3 DEF Inv, Plan, Sends
<1>7. Reserved'
  BY <1>2, MovesKeepAbsent DEF Inv, Reserved
<1> QED
  BY <1>4, <1>5, <1>6, <1>7, MoveSends DEF Inv

\* The end of the assignment leaves nothing of it.
LEMMA EndKeeps ==
  ASSUME Inv, scan.step = "move", EndAssignment, pending' = pending
  PROVE  Job' /\ Plan' /\ Reserved'
<1>1. scan' = [scan EXCEPT !.step = "scan"]
  BY DEF EndAssignment
<1>2. scan' \in Jobs /\ scan'.step = "scan"
  BY <1>1 DEF Inv, Job, Jobs
<1>3. <<>> \in Seq(Modules)
  OBVIOUS
<1>4. Found' = {}
  BY DEF EndAssignment, Found, ToSet
<1>5. 0 \in 0..LastAddress
  BY Assumed
<1>6. Plan'
  BY <1>2, <1>3, <1>4, <1>5 DEF EndAssignment, Plan
<1> QED
  BY <1>2, <1>6 DEF Inv, Job, Reserved

LEMMA MoveTemporarilyKeeps == ASSUME Inv, MoveTemporarily PROVE Inv'
<1>1. UNCHANGED <<present, pending>> /\ scan.step = "move"
  BY DEF MoveTemporarily
<1>2. ASSUME NEW m \in Modules, NEW a \in Addresses, Sends(m, a)
      PROVE  World'
  BY <1>1, <1>2 DEF Inv, World, Sends
<1>3. CASE \E m \in Modules : \E a \in Addresses :
             /\ Sends(m, a) /\ at' = [at EXCEPT ![m] = a]
             /\ UNCHANGED <<scan, found, target, tried>>
  <2>1. PICK m \in Modules, a \in Addresses :
          /\ Sends(m, a) /\ at' = [at EXCEPT ![m] = a]
          /\ UNCHANGED <<scan, found, target, tried>>
    BY <1>3
  <2>2. Found' = Found
    BY <2>1 DEF Found
  <2>3. a \in 0..LastAddress /\ a # 0
    BY Assumed DEF Addresses
  <2>4. Job'
    BY <1>1, <2>1 DEF Inv, Job
  <2>5. Plan'
    BY <2>1, <2>2, <2>3 DEF Inv, Plan, Sends
  <2>6. Reserved'
    BY <2>1, <2>2, MovesKeepAbsent DEF Inv, Reserved
  <2> QED
    BY <1>2, <2>1, <2>4, <2>5, <2>6, MoveTemporarilySends DEF Inv
<1>4. CASE /\ EndAssignment
           /\ address' = address \/ \E m \in Modules : \E a \in Addresses : Sends(m, a)
  <2>1. World'
    BY <1>1, <1>2, <1>4 DEF Inv, World
  <2> QED
    BY <1>1, <1>4, <2>1, EndKeeps, MoveTemporarilySends DEF Inv
<1> QED
  BY <1>3, <1>4, MoveTemporarilySends

(***************************************************************************)
(* The other actions                                                       *)
(***************************************************************************)

\* Outside an assignment its variables are at rest.
LEMMA AtRest ==
  ASSUME Inv, scan.step # "move", scan'.step # "move", UNCHANGED assignment,
         World', Registry', Job', Counted'
  PROVE  Inv'
<1>1. UNCHANGED <<found, at, target, tried>> /\ Found' = Found
  BY DEF assignment, Found
<1>2. found = <<>>
  BY DEF Inv, Plan
<1>3. Plan'
  BY <1>1, <1>2 DEF Inv, Plan
<1> QED
  BY <1>3 DEF Inv, Reserved

LEMMA ScanRequested ==
  ASSUME NEW auto \in BOOLEAN, NEW prune \in BOOLEAN, requestScanKnownModules(auto, prune)
  PROVE  scan' \in Jobs /\ scan'.step # "move" /\ seen' = {}
<1>1. 1 \in 1..(LastAddress + 1)
  BY Assumed
<1> QED
  BY <1>1 DEF requestScanKnownModules, Jobs

LEMMA PendingScanKeeps == ASSUME Inv, PendingScan PROVE Inv'
<1>1. /\ World' /\ scan.step # "move" /\ UNCHANGED assignment
      /\ snapshot' = snapshot /\ pending' = None
  BY DEF PendingScan, Inv, World, world
<1>2. CASE pending = Full
  <2>1. requestScanKnownModules(TRUE, FALSE) /\ UNCHANGED <<record, online, disturbances>>
    BY <1>2 DEF PendingScan
  <2>2. scan' \in Jobs /\ scan'.step # "move" /\ seen' = {}
    BY <2>1, ScanRequested
  <2>3. Registry' /\ Job' /\ Counted'
    BY <1>1, <2>1, <2>2 DEF Inv, Registry, Job, Counted
  <2> QED
    BY <1>1, <2>2, <2>3, AtRest
<1>3. CASE pending # Full
  <2>1. scanAddress(pending) /\ scan' = scan /\ pending \in Addresses
    BY <1>3 DEF PendingScan, Inv, Job
  <2>2. Registry' /\ Counted'
    BY <1>1, <2>1, Scanned
  <2>3. Job'
    BY <1>1, <2>1 DEF Inv, Job
  <2> QED
    BY <1>1, <2>1, <2>2, <2>3, AtRest
<1> QED
  BY <1>2, <1>3

LEMMA UserScanKeeps ==
  ASSUME Inv, NEW auto \in BOOLEAN, NEW prune \in BOOLEAN, UserScan(auto, prune)
  PROVE  Inv'
<1>1. /\ scan.step # "move" /\ UNCHANGED assignment /\ World'
      /\ UNCHANGED <<record, snapshot, online, pending>>
  BY DEF UserScan, Inv, World, world
<1>2. scan' \in Jobs /\ scan'.step # "move" /\ seen' = {}
  BY ScanRequested DEF UserScan
<1>3. Counted'
  BY Assumed DEF UserScan, Disturbed, Inv, Counted
<1>4. Registry' /\ Job'
  BY <1>1, <1>2 DEF Inv, Registry, Job
<1> QED
  BY <1>1, <1>2, <1>3, <1>4, AtRest

LEMMA ScanNextKeeps == ASSUME Inv, ScanNext PROVE Inv'
<1>1. /\ scan.step = "scan" /\ scan.next <= LastAddress /\ scanAddress(scan.next)
      /\ scan' = [scan EXCEPT !.next = @ + 1]
      /\ UNCHANGED assignment /\ UNCHANGED <<snapshot, pending>> /\ World'
  BY DEF ScanNext, Inv, World, world
<1>2. LastAddress \in Nat
  BY Assumed
<1>3. scan.next \in Addresses
  BY <1>1, <1>2 DEF Inv, Job, Jobs, Addresses
<1>4. scan' \in Jobs /\ scan'.step = "scan"
  <2>1. scan.next + 1 \in 1..(LastAddress + 1)
    BY <1>1, <1>2 DEF Inv, Job, Jobs
  <2> QED
    BY <1>1, <2>1 DEF Inv, Job, Jobs
<1>5. Registry' /\ Counted'
  BY <1>1, <1>3, Scanned
<1>6. Job'
  BY <1>1, <1>4 DEF Inv, Job
<1> QED
  BY <1>1, <1>4, <1>5, <1>6, AtRest

LEMMA ScanEndsKeeps == ASSUME Inv, ScanEnds PROVE Inv'
<1>1. /\ scan.step = "scan" /\ seen' = {} /\ snapshot' = record'
      /\ scan' = [step |-> "idle", prune |-> FALSE, next |-> 1]
      /\ UNCHANGED <<pending, assignment, disturbances>> /\ World'
  BY DEF ScanEnds, Inv, World, world
<1>2. scan' \in Jobs /\ scan'.step # "move"
  BY <1>1, Assumed DEF Jobs
<1>3. record' \in Registers /\ online' \subseteq Known(record')
  <2>1. CASE scan.prune
    <3>1. /\ record' = [m \in Modules |-> IF m \in seen THEN record[m] ELSE 0]
          /\ online' = online \cap seen
      BY <2>1 DEF ScanEnds
    <3>2. 0 \in 0..LastAddress
      BY Assumed
    <3> QED
      BY <3>1, <3>2 DEF Inv, Registry, Registers, Known
  <2>2. CASE ~scan.prune
    BY <2>2 DEF ScanEnds, Inv, Registry
  <2> QED
    BY <2>1, <2>2
<1>4. Registry' /\ Job' /\ Counted'
  BY <1>1, <1>2, <1>3 DEF Inv, Registry, Job, Counted
<1> QED
  BY <1>1, <1>2, <1>4, AtRest

LEMMA ProbeKeeps == ASSUME Inv, NEW a \in Addresses, Probe(a) PROVE Inv'
<1>1. /\ scan.step # "move" /\ scanAddress(a) /\ World'
      /\ UNCHANGED <<snapshot, scan, pending, assignment>>
  BY DEF Probe, Inv, World, world
<1>2. Registry' /\ Counted'
  BY <1>1, Scanned
<1>3. Job'
  BY <1>1 DEF Inv, Job
<1> QED
  BY <1>1, <1>2, <1>3, AtRest

LEMMA SetModuleAddressKeeps ==
  ASSUME Inv, NEW old \in Addresses, NEW new \in Addresses, SetModuleAddress(old, new)
  PROVE  Inv'
<1>1. PICK moved \in SUBSET Reached(address, old), ok \in BOOLEAN :
        /\ address' = [m \in Modules |-> IF m \in moved THEN new ELSE address[m]]
        /\ IF ok
           THEN LET owner == {m \in Modules : record[m] = old}
                    rec == IF owner = {} THEN record
                           ELSE Bind(record, CHOOSE m \in owner : TRUE, new)
                IN \E m \in Reached(address', new) \cup {NoModule} : Recorded(rec, new, m)
           ELSE UNCHANGED <<record, online, seen>>
  BY DEF SetModuleAddress
<1>2. /\ scan.step # "move"
      /\ UNCHANGED <<present, snapshot, scan, pending, assignment>>
  BY DEF SetModuleAddress
<1>3. World' /\ Job'
  BY <1>1, <1>2 DEF Inv, World, Job
<1>4. Counted'
  BY Assumed DEF SetModuleAddress, Disturbed, Inv, Counted
<1>5. Registry'
  <2>1. CASE ok
    <3> DEFINE owner == {m \in Modules : record[m] = old}
               rec == IF owner = {} THEN record ELSE Bind(record, CHOOSE m \in owner : TRUE, new)
    <3>1. PICK m \in Reached(address', new) \cup {NoModule} : Recorded(rec, new, m)
      BY <1>1, <2>1
    <3>2. m \in Modules \cup {NoModule}
      BY DEF Reached, Inv, World
    <3>3. rec \in Registers /\ Known(record) \subseteq Known(rec)
      <4>1. CASE owner = {}
        BY <4>1 DEF Inv, Registry
      <4>2. CASE owner # {}
        <5>1. (CHOOSE n \in owner : TRUE) \in Modules
          BY <4>2
        <5> QED
          BY <4>2, <5>1, Bound DEF Inv, Registry
      <4> QED
        BY <4>1, <4>2
    <3> HIDE DEF rec
    <3>4. record' \in Registers /\ (online \cup seen)' \subseteq Known(record')
      BY <3>1, <3>2, <3>3, RecordedInOrder DEF Inv
    <3> QED
      BY <1>2, <3>4 DEF Inv, Registry
  <2>2. CASE ~ok
    BY <1>1, <1>2, <2>2 DEF Inv, Registry
  <2> QED
    BY <2>1, <2>2
<1> QED
  BY <1>2, <1>3, <1>4, <1>5, AtRest

\* An assignment starts with the addresses nobody absent is recorded at.
LEMMA DiscoverKeeps == ASSUME Inv, Discover PROVE Inv'
<1>1. PICK answering \in SUBSET present : \E order \in SetToSeqs(answering) :
        /\ Disturbed(Cardinality(present \ answering))
        /\ found' = order
        /\ at' = [m \in Modules |-> IF m \in ToSet(order) THEN address[m] ELSE 0]
        /\ target' = [m \in Modules |-> IF m \in ToSet(order) THEN Desired(order, m) ELSE 0]
  BY DEF Discover
<1>1a. PICK order \in SetToSeqs(answering) :
        /\ Disturbed(Cardinality(present \ answering))
        /\ found' = order
        /\ at' = [m \in Modules |-> IF m \in ToSet(order) THEN address[m] ELSE 0]
        /\ target' = [m \in Modules |-> IF m \in ToSet(order) THEN Desired(order, m) ELSE 0]
  BY <1>1
<1>2. /\ scan.step = "discover" /\ scan' = [scan EXCEPT !.step = "move"]
      /\ UNCHANGED <<registry, pending, tried>> /\ World'
  BY DEF Discover, Inv, World, world
<1>3. UNCHANGED <<record, snapshot, online, seen>>
  BY <1>2 DEF registry
<1>4. Cardinality(present \ answering) \in Nat /\ Cardinality(answering) \in Nat
  <2>1. IsFiniteSet(present \ answering) /\ IsFiniteSet(answering)
    BY Assumed, FS_Subset DEF Inv, World
  <2> QED
    BY <2>1, FS_CardinalityType
<1>5. order \in Seq(Modules)
  <2>1. order \in [1..Cardinality(answering) -> answering]
    BY <1>1a DEF SetToSeqs
  <2>2. \A i \in 1..Cardinality(answering) : order[i] \in Modules
    BY <2>1 DEF Inv, World
  <2> QED
    BY <1>4, <2>1, <2>2
<1>6. Found' = ToSet(order)
  BY <1>1a DEF Found
<1>7. scan' \in Jobs /\ scan'.step = "move"
  BY <1>2 DEF Inv, Job, Jobs
<1>8. Job' /\ Registry'
  BY <1>2, <1>3, <1>7 DEF Inv, Job, Registry
<1>9. Counted'
  BY <1>1a, <1>4, Assumed DEF Disturbed, Inv, Counted
<1>10. Addresses \subseteq 0..LastAddress /\ 0 \in 0..LastAddress /\ 0 \notin Addresses
  BY Assumed DEF Addresses
<1>11. Plan'
  <2>1. \A m \in Modules : address[m] \in 0..LastAddress /\ address[m] # 0
    BY <1>10 DEF Inv, World
  <2>2. at' \in [Modules -> 0..LastAddress] /\ \A m \in Modules : at'[m] # 0 <=> m \in ToSet(order)
    BY <1>1a, <1>10, <2>1
  <2>3. \A m \in Modules : Desired(order, m) \in 0..LastAddress
    BY <1>10, DesiredUnreserved DEF Inv
  <2>4. target' \in [Modules -> 0..LastAddress]
    BY <1>1a, <1>10, <2>3
  <2>5. tried' = {}
    BY <1>2 DEF Inv, Plan, Found, ToSet
  <2> QED
    BY <1>1a, <1>5, <1>6, <1>7, <2>2, <2>4, <2>5 DEF Plan
<1>12. Reserved'
  <2> SUFFICES ASSUME NEW m \in Modules \ ToSet(order), NEW n \in ToSet(order), record[m] # 0
               PROVE  target'[n] # record[m]
    BY <1>3, <1>6 DEF Reserved
  <2>1. n \in Modules
    BY <1>5 DEF ToSet
  <2>2. target'[n] = Desired(order, n)
    BY <1>1a, <2>1
  <2> QED
    BY <2>2, DesiredUnreserved DEF Inv
<1> QED
  BY <1>2, <1>8, <1>9, <1>11, <1>12 DEF Inv

\* What neither the job nor the assignment notices.
LEMMA Unnoticed ==
  ASSUME Inv, World', UNCHANGED <<record, snapshot, seen, scan, assignment>>,
         online' \subseteq online, pending' \in {None, Full} \cup Addresses, Counted'
  PROVE  Inv'
<1>1. UNCHANGED <<found, at, target, tried>> /\ Found' = Found
  BY DEF assignment, Found
<1>2. Registry' /\ Job'
  BY DEF Inv, Registry, Job
<1>3. Plan' /\ Reserved'
  BY <1>1 DEF Inv, Plan, Reserved
<1> QED
  BY <1>2, <1>3 DEF Inv

LEMMA WorldKeeps ==
  ASSUME Inv, NEW m \in Modules, Announce(m) \/ GoesOffline(m) \/ Plug(m) \/ Unplug(m)
  PROVE  Inv'
<1>1. World'
  BY DEF Announce, GoesOffline, Plug, Unplug, Inv, World, world
<1>2. UNCHANGED <<record, snapshot, seen, scan, assignment>> /\ online' \subseteq online
  BY DEF Announce, GoesOffline, Plug, Unplug, registry
<1>3. pending' \in {None, Full} \cup Addresses
  <2>1. address[m] \in Addresses
    BY DEF Inv, World
  <2> QED
    BY <2>1 DEF Announce, GoesOffline, Plug, Unplug, Inv, Job
<1>4. Counted'
  BY Assumed DEF Announce, GoesOffline, Plug, Unplug, Disturbed, Inv, Counted
<1> QED
  BY <1>1, <1>2, <1>3, <1>4, Unnoticed

LEMMA AssignedKeeps == ASSUME Inv, Assigned PROVE Inv'
<1>1. /\ scan.step = "move" /\ EndAssignment /\ pending' = pending
      /\ World' /\ Registry' /\ Counted'
  BY DEF Assigned, Inv, World, world, Registry, registry, Counted
<1> QED
  BY <1>1, EndKeeps DEF Inv

LEMMA RestartKeeps == ASSUME Inv, Restart PROVE Inv'
<1>1. World'
  BY DEF Restart, Inv, World, world
<1>2. Registry'
  BY DEF Restart, Inv, Registry
<1>3. scan'.step = "scan" /\ Job'
  BY Assumed DEF Restart, Inv, Job, Jobs
<1>4. Plan'
  <2>1. <<>> \in Seq(Modules)
    OBVIOUS
  <2>2. Found' = {}
    BY DEF Restart, Found, ToSet
  <2>3. 0 \in 0..LastAddress
    BY Assumed
  <2> QED
    BY <2>1, <2>2, <2>3 DEF Restart, Plan
<1>5. Counted'
  BY Assumed DEF Restart, Disturbed, Inv, Counted
<1> QED
  BY <1>1, <1>2, <1>3, <1>4, <1>5 DEF Inv, Reserved

(***************************************************************************)
(* The theorems                                                            *)
(***************************************************************************)

LEMMA InitInv == Init => Inv
<1> SUFFICES ASSUME Init PROVE Inv
  OBVIOUS
<1>1. World /\ Registry
  BY DEF Init, World, Registry, Registers, Known
<1>2. scan.step = "scan" /\ Job
  BY Assumed DEF Init, Job, Jobs
<1>3. Plan
  <2>1. <<>> \in Seq(Modules)
    OBVIOUS
  <2>2. Found = {}
    BY DEF Init, Found, ToSet
  <2>3. 0 \in 0..LastAddress
    BY Assumed
  <2> QED
    BY <2>1, <2>2, <2>3 DEF Init, Plan
<1>4. Counted
  BY Assumed DEF Init, Counted
<1> QED
  BY <1>1, <1>2, <1>3, <1>4 DEF Inv, Reserved

LEMMA NextInv == Inv /\ [Next]_vars => Inv'
<1> SUFFICES ASSUME Inv, [Next]_vars PROVE Inv'
  OBVIOUS
<1>1. CASE \E m \in Modules : Announce(m) \/ GoesOffline(m) \/ Plug(m) \/ Unplug(m)
  BY <1>1, WorldKeeps
<1>2. CASE PendingScan
  BY <1>2, PendingScanKeeps
<1>3. CASE ScanNext
  BY <1>3, ScanNextKeeps
<1>4. CASE ScanEnds
  BY <1>4, ScanEndsKeeps
<1>5. CASE Assignment
  BY <1>5, DiscoverKeeps, MoveKeeps, MoveTemporarilyKeeps, AssignedKeeps DEF Assignment
<1>6. CASE Restart
  BY <1>6, RestartKeeps
<1>7. CASE \E auto, prune \in BOOLEAN : UserScan(auto, prune)
  BY <1>7, UserScanKeeps
<1>8. CASE \E a \in Addresses : Probe(a)
  BY <1>8, ProbeKeeps
<1>9. CASE \E old, new \in Addresses : SetModuleAddress(old, new)
  BY <1>9, SetModuleAddressKeeps
<1>10. CASE UNCHANGED vars
  <2>1. World' /\ UNCHANGED <<record, snapshot, seen, scan, assignment, online, pending>> /\ Counted'
    BY <1>10 DEF vars, assignment, Inv, World, Counted
  <2>2. pending' \in {None, Full} \cup Addresses
    BY <2>1 DEF Inv, Job
  <2> QED
    BY <2>1, <2>2, Unnoticed
<1> QED
  BY <1>1, <1>2, <1>3, <1>4, <1>5, <1>6, <1>7, <1>8, <1>9, <1>10 DEF Next

\* The inductive invariant: the registry has one record at an address, the assignment
\* knows only what it has discovered, and it sends none of it where a module is recorded
\* that it has not discovered (autoAddressModules, bindUidToAddress).
THEOREM Invariant == Spec => []Inv
<1>1. Spec => Init /\ [][Next]_vars
  BY DEF Spec, Safety
<1> QED
  BY <1>1, InitInv, NextInv, PTL

\* The types, and one record for one address (ModuleRegistry.cpp).
THEOREM TypeCorrect == Spec => []TypeOK
BY Invariant, Typed, PTL

\* A module that is not there while addresses are assigned keeps its record, and no other
\* module is sent to its address (autoAddressModules with preserve_remembered).
THEOREM AbsentCorrect == Spec => AbsentKeepTheirAddress
<1>1. Inv /\ [Next]_vars =>
        [Move \/ MoveTemporarily =>
           \A m \in Modules \ Found :
             /\ record'[m] = record[m]
             /\ record[m] # 0 => \A n \in Modules \ {m} :
                                   address'[n] = record[m] => address[n] = record[m]]_vars
  BY MovesKeepAbsent
<1>2. Spec => [][Next]_vars
  BY DEF Spec, Safety
<1> QED
  BY <1>1, <1>2, Invariant, PTL DEF AbsentKeepTheirAddress

(***************************************************************************)
(* The addresses an assignment gives away.                                 *)
(***************************************************************************)

\* A set of addresses that is not empty has a greatest one.
LEMMA HasGreatest ==
  ASSUME NEW S, S \subseteq Addresses, S # {}
  PROVE  \E i \in S : \A j \in S : j <= i
<1> DEFINE T == {LastAddress - a : a \in S}
<1>1. LastAddress \in Nat /\ \A a \in S : a \in Nat /\ a <= LastAddress
  BY Assumed DEF Addresses
<1>2. T \subseteq Nat /\ T # {}
  BY <1>1
<1> HIDE DEF T
<1>3. PICK t \in T : \A u \in T : t <= u
  BY <1>2, HasLeast
<1>4. PICK i \in S : t = LastAddress - i
  BY DEF T
<1>5. \A j \in S : LastAddress - j \in T
  BY DEF T
<1>6. \A j \in S : LastAddress - i <= LastAddress - j
  BY <1>3, <1>4, <1>5
<1> QED
  BY <1>1, <1>6

Below(S, a) == {b \in S : b < a}

LEMMA AddressesFinite ==
  /\ IsFiniteSet(Addresses) /\ Cardinality(Addresses) = LastAddress
  /\ \A S \in SUBSET Addresses : IsFiniteSet(S) /\ Cardinality(S) \in Nat
<1>1. LastAddress \in Nat /\ LastAddress \in Int /\ 1 \in Int
  BY Assumed
<1>2. IsFiniteSet(Addresses) /\ Cardinality(Addresses) = LastAddress
  BY <1>1, FS_Interval DEF Addresses
<1>3. ASSUME NEW S \in SUBSET Addresses PROVE IsFiniteSet(S) /\ Cardinality(S) \in Nat
  BY <1>2, FS_Subset, FS_CardinalityType
<1> QED
  BY <1>2, <1>3

\* Of a set of addresses there is one with any number of them below it, less than all.
LEMMA PlaceExists ==
  ASSUME NEW S \in SUBSET Addresses, NEW k \in Nat, k < Cardinality(S)
  PROVE  \E a \in S : Cardinality(Below(S, a)) = k
<1> DEFINE High == {a \in S : Cardinality(Below(S, a)) >= k}
<1>1. /\ IsFiniteSet(S) /\ Cardinality(S) \in Nat
      /\ \A a \in S : a \in Nat
      /\ \A a \in S : IsFiniteSet(Below(S, a)) /\ Cardinality(Below(S, a)) \in Nat
  <2>1. \A a \in S : Below(S, a) \in SUBSET Addresses
    BY DEF Below
  <2> QED
    BY <2>1, AddressesFinite, Assumed
\* Below an address: the next one and what is below that.
<1>2. ASSUME NEW T \in SUBSET S, NEW i \in T, \A j \in T : j <= i
      PROVE  Cardinality(T \ {i}) = Cardinality(T) - 1
  BY <1>1, FS_Subset, FS_RemoveElement
<1>3. High # {}
  <2>1. S # {}
    BY FS_EmptySet
  <2>2. PICK i \in S : \A j \in S : j <= i
    BY <2>1, HasGreatest
  <2>3. Below(S, i) = S \ {i}
    BY <1>1, <2>2 DEF Below
  <2>4. Cardinality(Below(S, i)) = Cardinality(S) - 1
    BY <1>2, <2>2, <2>3
  <2>5. Cardinality(S) - 1 >= k
    BY <1>1
  <2> QED
    BY <2>4, <2>5
<1>4. High \subseteq Nat
  BY <1>1
<1>5. PICK a \in High : \A b \in High : a <= b
  BY <1>3, <1>4, HasLeast
<1>6. ASSUME Cardinality(Below(S, a)) > k PROVE FALSE
  <2> DEFINE T == Below(S, a)
  <2>1. T \in SUBSET S /\ T \subseteq Addresses /\ \A b \in T : b < a
    BY DEF Below
  <2>2. T # {}
    BY <1>6, FS_EmptySet
  <2> HIDE DEF T
  <2>3. PICK i \in T : \A j \in T : j <= i
    BY <2>1, <2>2, HasGreatest
  <2>4. i < a /\ i \in S
    BY <2>1, <2>3
  <2>5. Below(S, i) = T \ {i}
    <3>1. ASSUME NEW b \in S, b < i PROVE b \in T \ {i}
      BY <1>1, <1>5, <2>4, <3>1 DEF T, Below
    <3>2. ASSUME NEW b \in T \ {i} PROVE b \in S /\ b < i
      BY <1>1, <2>1, <2>3, <2>4
    <3> QED
      BY <3>1, <3>2 DEF Below
  <2>6. Cardinality(Below(S, i)) = Cardinality(T) - 1
    BY <1>2, <2>1, <2>3, <2>5
  <2>7. Cardinality(T) \in Nat /\ Cardinality(T) > k
    BY <1>1, <1>5, <1>6 DEF T
  <2>8. Cardinality(Below(S, i)) >= k
    BY <2>6, <2>7
  <2>9. i \in High
    BY <2>4, <2>8
  <2> QED
    BY <1>1, <1>4, <1>5, <2>4, <2>9
<1>7. Cardinality(Below(S, a)) >= k /\ Cardinality(Below(S, a)) \in Nat
  BY <1>1, <1>5
<1> QED
  BY <1>5, <1>6, <1>7

PlaceOf(order, m) == CHOOSE i \in DOMAIN order : order[i] = m

\* The order of the assignment is a strict total order of what has been discovered:
\* two records are never the same, nor are two places among the answers.
LEMMA BeforeOrders ==
  ASSUME record \in Registers, NEW order \in Seq(Modules)
  PROVE  \A m, n, l \in ToSet(order) :
           /\ ~Before(order, m, m)
           /\ Before(order, m, n) /\ Before(order, n, l) => Before(order, m, l)
           /\ m = n \/ Before(order, m, n) \/ Before(order, n, m)
<1> SUFFICES ASSUME NEW m \in ToSet(order), NEW n \in ToSet(order), NEW l \in ToSet(order)
             PROVE  /\ ~Before(order, m, m)
                    /\ Before(order, m, n) /\ Before(order, n, l) => Before(order, m, l)
                    /\ m = n \/ Before(order, m, n) \/ Before(order, n, m)
  OBVIOUS
<1>1. \A x, y \in Modules : Before(order, x, y) <=>
        \/ Priority[x] < Priority[y]
        \/ /\ Priority[x] = Priority[y]
           /\ \/ record[x] # 0 /\ (record[y] = 0 \/ record[x] < record[y])
              \/ record[x] = 0 /\ record[y] = 0 /\ PlaceOf(order, x) < PlaceOf(order, y)
  BY DEF Before, PlaceOf
<1>2. DOMAIN order \subseteq Nat /\ ToSet(order) \subseteq Modules
  BY DEF ToSet
<1>3. ASSUME NEW x \in ToSet(order)
      PROVE  PlaceOf(order, x) \in Nat /\ order[PlaceOf(order, x)] = x
  BY <1>2 DEF ToSet, PlaceOf
<1>4. \A x, y \in ToSet(order) : PlaceOf(order, x) = PlaceOf(order, y) => x = y
  BY <1>3
<1>5. \A x \in ToSet(order) : Priority[x] \in Nat /\ record[x] \in Nat
  <2>1. \A r \in 0..LastAddress : r \in Nat
    BY Assumed
  <2> QED
    BY <1>2, <2>1, ModulesAssumption DEF Registers
<1>6. \A x, y \in ToSet(order) : x # y /\ record[x] # 0 => record[y] # record[x]
  BY <1>2 DEF Registers
<1>7. m \in Modules /\ n \in Modules /\ l \in Modules
  BY <1>2
<1>8. ~Before(order, m, m)
  BY <1>1, <1>3, <1>5, <1>7
<1>9. Before(order, m, n) /\ Before(order, n, l) => Before(order, m, l)
  BY <1>1, <1>3, <1>5, <1>7
<1>10. m = n \/ Before(order, m, n) \/ Before(order, n, m)
  BY <1>1, <1>3, <1>4, <1>5, <1>6, <1>7
<1> QED
  BY <1>8, <1>9, <1>10

Slot(order, m) == Cardinality({n \in ToSet(order) : Before(order, n, m)})

LEMMA FoundFinite ==
  ASSUME NEW order \in Seq(Modules)
  PROVE  /\ ToSet(order) \subseteq Modules /\ IsFiniteSet(ToSet(order))
         /\ Cardinality(ToSet(order)) \in Nat
<1>1. ToSet(order) \subseteq Modules
  BY DEF ToSet
<1> QED
  BY <1>1, Assumed, FS_Subset, FS_CardinalityType

\* Different modules have different numbers of modules before them, fewer than all.
LEMMA SlotsDiffer ==
  ASSUME record \in Registers, NEW order \in Seq(Modules), NEW m \in ToSet(order)
  PROVE  /\ Slot(order, m) \in Nat /\ Slot(order, m) < Cardinality(ToSet(order))
         /\ \A n \in ToSet(order) : Before(order, m, n) => Slot(order, m) # Slot(order, n)
<1> DEFINE Earlier(n) == {x \in ToSet(order) : Before(order, x, n)}
<1>1. \A n \in ToSet(order) : Slot(order, n) = Cardinality(Earlier(n))
  BY DEF Slot
<1>2. m \notin Earlier(m) /\ Earlier(m) \subseteq ToSet(order)
  BY BeforeOrders
<1>3. ASSUME NEW n \in ToSet(order), Before(order, m, n)
      PROVE  Earlier(m) \subseteq Earlier(n) /\ m \in Earlier(n) /\ Earlier(n) \subseteq ToSet(order)
  BY <1>3, BeforeOrders
<1> HIDE DEF Earlier
<1>4. IsFiniteSet(ToSet(order)) /\ Cardinality(ToSet(order)) \in Nat
  BY FoundFinite
<1>5. IsFiniteSet(Earlier(m)) /\ Cardinality(Earlier(m)) \in Nat
  BY <1>2, <1>4, FS_Subset, FS_CardinalityType
<1>6. Cardinality(Earlier(m)) < Cardinality(ToSet(order))
  <2>1. /\ Cardinality(Earlier(m)) <= Cardinality(ToSet(order))
        /\ Cardinality(ToSet(order)) = Cardinality(Earlier(m)) => ToSet(order) = Earlier(m)
    BY <1>2, <1>4, FS_Subset
  <2>2. ToSet(order) # Earlier(m)
    BY <1>2
  <2> QED
    BY <1>4, <1>5, <2>1, <2>2
<1>7. ASSUME NEW n \in ToSet(order), Before(order, m, n)
      PROVE  Slot(order, m) # Slot(order, n)
  <2>1. Earlier(m) \in SUBSET Earlier(n) /\ m \in Earlier(n) /\ IsFiniteSet(Earlier(n))
    BY <1>3, <1>4, <1>7, FS_Subset
  <2>2. Cardinality(Earlier(n)) = Cardinality(Earlier(m)) => Earlier(n) = Earlier(m)
    BY <2>1, FS_Subset
  <2> QED
    BY <1>1, <1>2, <2>1, <2>2
<1> QED
  BY <1>1, <1>5, <1>6, <1>7

\* As many addresses are reserved as modules are absent at most: those that are left are
\* more than were discovered.
LEMMA EnoughUnreserved ==
  ASSUME record \in Registers, NEW order \in Seq(Modules)
  PROVE  /\ Unreserved(order) \in SUBSET Addresses
         /\ Cardinality(ToSet(order)) < Cardinality(Unreserved(order))
<1> DEFINE U == Unreserved(order)
           Absent == Modules \ ToSet(order)
           R == {record[m] : m \in Absent}
           f == [m \in Absent |-> record[m]]
<1>1. U \in SUBSET Addresses /\ Addresses \subseteq U \cup R
  BY DEF Unreserved
<1>2. f \in Surjection(Absent, R)
  BY DEF Surjection
<1> HIDE DEF U, R, f
<1>3. /\ IsFiniteSet(Absent)
      /\ Cardinality(Absent) = Cardinality(Modules) - Cardinality(ToSet(order))
  <2>1. Modules \cap ToSet(order) = ToSet(order)
    BY FoundFinite
  <2> QED
    BY <2>1, Assumed, FS_Difference
<1>4. IsFiniteSet(R) /\ Cardinality(R) <= Cardinality(Absent)
  BY <1>2, <1>3, FS_Surjection
<1>5. IsFiniteSet(U) /\ Cardinality(U) \in Nat
  BY <1>1, AddressesFinite
<1>6. Cardinality(Addresses) <= Cardinality(U) + Cardinality(R)
  <2>1. /\ IsFiniteSet(U \cup R)
        /\ Cardinality(U \cup R) = Cardinality(U) + Cardinality(R) - Cardinality(U \cap R)
    BY <1>4, <1>5, FS_Union
  <2>2. Cardinality(U \cap R) \in Nat /\ Cardinality(U \cup R) \in Nat /\ Cardinality(R) \in Nat
    BY <1>4, <1>5, <2>1, FS_Intersection, FS_CardinalityType
  <2>3. Cardinality(Addresses) <= Cardinality(U \cup R) /\ Cardinality(Addresses) \in Nat
    BY <1>1, <2>1, FS_Subset, AddressesFinite
  <2> QED
    BY <1>5, <2>1, <2>2, <2>3
<1>7. /\ Cardinality(Addresses) = LastAddress /\ LastAddress \in Nat
      /\ Cardinality(Modules) < LastAddress /\ Cardinality(Modules) \in Nat
      /\ Cardinality(ToSet(order)) \in Nat /\ Cardinality(R) \in Nat
  BY <1>4, AddressesFinite, ModulesAssumption, FoundFinite, FS_CardinalityType
<1>8. Cardinality(ToSet(order)) < Cardinality(U)
  BY <1>3, <1>4, <1>5, <1>6, <1>7
<1> QED
  BY <1>1, <1>8 DEF U

\* Every module discovered is to get an address, at its place among those to be given.
LEMMA DesiredExists ==
  ASSUME record \in Registers, NEW order \in Seq(Modules), NEW m \in ToSet(order)
  PROVE  /\ Desired(order, m) \in Addresses
         /\ Cardinality(Below(Unreserved(order), Desired(order, m))) = Slot(order, m)
<1> DEFINE U == Unreserved(order)
           slot == Cardinality({n \in ToSet(order) : Before(order, n, m)})
           fits == {a \in U : Cardinality({b \in U : b < a}) = slot}
<1>1. Desired(order, m) = IF fits = {} THEN 0 ELSE CHOOSE a \in fits : TRUE
  BY Zenon DEF Desired
<1>2. \A a \in U : {b \in U : b < a} = Below(U, a)
  BY DEF Below
<1>3. slot = Slot(order, m)
  BY DEF Slot
<1>4. fits = {a \in U : Cardinality(Below(U, a)) = Slot(order, m)}
  BY <1>2, <1>3
<1> HIDE DEF fits, slot
<1>5. U \in SUBSET Addresses /\ Cardinality(ToSet(order)) < Cardinality(U)
  BY EnoughUnreserved
<1>6. Slot(order, m) \in Nat /\ Slot(order, m) < Cardinality(U)
  <2>1. Slot(order, m) \in Nat /\ Slot(order, m) < Cardinality(ToSet(order))
    BY SlotsDiffer
  <2>2. Cardinality(ToSet(order)) \in Nat /\ Cardinality(U) \in Nat
    BY <1>5, FoundFinite, AddressesFinite
  <2> QED
    BY <1>5, <2>1, <2>2
<1> HIDE DEF U
<1>7. fits # {}
  BY <1>4, <1>5, <1>6, PlaceExists
<1>8. Desired(order, m) \in fits
  BY <1>1, <1>7
<1> QED
  BY <1>4, <1>5, <1>8 DEF U

\* While modules are moved, every module discovered has an address to go to, and no two
\* have the same.
TargetsApart ==
  scan.step = "move" =>
    \A m, n \in Found : target[m] \in Addresses /\ (m # n => target[n] # target[m])

LEMMA DiscoverApart == ASSUME Inv, Inv', Discover PROVE TargetsApart'
<1>1. PICK answering \in SUBSET present : \E order \in SetToSeqs(answering) :
        /\ found' = order
        /\ target' = [m \in Modules |-> IF m \in ToSet(order) THEN Desired(order, m) ELSE 0]
  BY DEF Discover
<1>2. PICK order \in SetToSeqs(answering) :
        /\ found' = order
        /\ target' = [m \in Modules |-> IF m \in ToSet(order) THEN Desired(order, m) ELSE 0]
  BY <1>1
<1>3. order \in Seq(Modules) /\ Found' = ToSet(order) /\ record \in Registers
  BY <1>2 DEF Inv, Plan, Found, Registry
<1>4. ToSet(order) \subseteq Modules
  BY <1>3, FoundFinite
<1>5. \A m \in ToSet(order) : target'[m] = Desired(order, m)
  BY <1>2, <1>4
<1>6. ASSUME NEW m \in ToSet(order), NEW n \in ToSet(order)
      PROVE  target'[m] \in Addresses /\ (m # n => target'[n] # target'[m])
  <2>1. target'[m] \in Addresses
    BY <1>3, <1>5, DesiredExists
  <2>2. ASSUME m # n PROVE Slot(order, m) # Slot(order, n)
    <3>1. Before(order, m, n) \/ Before(order, n, m)
      BY <1>3, <2>2, BeforeOrders
    <3> QED
      BY <1>3, <3>1, SlotsDiffer
  <2>3. /\ Cardinality(Below(Unreserved(order), Desired(order, m))) = Slot(order, m)
        /\ Cardinality(Below(Unreserved(order), Desired(order, n))) = Slot(order, n)
    BY <1>3, DesiredExists
  <2> QED
    BY <1>5, <2>1, <2>2, <2>3
<1> QED
  BY <1>3, <1>6 DEF TargetsApart

\* An assignment that goes on leaves its plan alone.
LEMMA PlanKept ==
  ASSUME Inv, [Next]_vars, ~Discover
  PROVE  scan'.step = "move" => scan.step = "move" /\ UNCHANGED <<found, target>>
<1>1. CASE \E m \in Modules : Announce(m) \/ GoesOffline(m) \/ Plug(m) \/ Unplug(m)
  BY <1>1 DEF Announce, GoesOffline, Plug, Unplug, assignment
<1>2. CASE PendingScan
  <2>1. scan.step # "move" /\ (scan' = scan \/ requestScanKnownModules(TRUE, FALSE))
    BY <1>2 DEF PendingScan
  <2> QED
    BY <2>1, ScanRequested
<1>3. CASE ScanNext
  <2>1. scan' = [scan EXCEPT !.next = scan.next + 1] /\ scan.step = "scan" /\ scan \in Jobs
    BY <1>3 DEF ScanNext, Inv, Job
  <2>2. scan'.step = "scan"
    BY <2>1 DEF Jobs
  <2> QED
    BY <2>2
<1>4. CASE ScanEnds
  BY <1>4 DEF ScanEnds
<1>5. CASE Move
  BY <1>5 DEF Move
<1>6. CASE MoveTemporarily \/ Assigned
  <2>1. /\ scan.step = "move" /\ scan \in Jobs
        /\ EndAssignment \/ UNCHANGED <<scan, found, target>>
    BY <1>6 DEF MoveTemporarily, Assigned, Inv, Job
  <2> QED
    BY <2>1 DEF EndAssignment, Jobs
<1>7. CASE Restart
  BY <1>7 DEF Restart
<1>8. CASE \E auto, prune \in BOOLEAN : UserScan(auto, prune)
  BY <1>8, ScanRequested DEF UserScan
<1>9. CASE \E a \in Addresses : Probe(a)
  BY <1>9 DEF Probe
<1>10. CASE \E old, new \in Addresses : SetModuleAddress(old, new)
  BY <1>10 DEF SetModuleAddress
<1>11. CASE UNCHANGED vars
  BY <1>11 DEF vars
<1> QED
  BY <1>1, <1>2, <1>3, <1>4, <1>5, <1>6, <1>7, <1>8, <1>9, <1>10, <1>11 DEF Next, Assignment

\* Every module that an assignment has discovered is given an address, and no address is
\* given twice, however modules had been recorded and in whatever order they answered
\* (autoAddressModules): what was discovered at a module's target is itself to leave it.
THEOREM TargetsCorrect == Spec => []TargetsApart
<1>1. Init => TargetsApart
  BY DEF Init, TargetsApart
<1>2. Inv /\ Inv' /\ TargetsApart /\ [Next]_vars => TargetsApart'
  <2> SUFFICES ASSUME Inv, Inv', TargetsApart, [Next]_vars PROVE TargetsApart'
    OBVIOUS
  <2>1. CASE Discover
    BY <2>1, DiscoverApart
  <2>2. CASE ~Discover
    <3>1. scan'.step = "move" => scan.step = "move" /\ UNCHANGED <<found, target>>
      BY <2>2, PlanKept
    <3> QED
      BY <3>1 DEF TargetsApart, Found
  <2> QED
    BY <2>1, <2>2
<1>3. Spec => Init /\ [][Next]_vars
  BY DEF Spec, Safety
<1> QED
  BY <1>1, <1>2, <1>3, Invariant, PTL

=============================================================================
