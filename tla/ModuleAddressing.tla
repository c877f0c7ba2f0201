---------------------------- MODULE ModuleAddressing ----------------------------
(***************************************************************************)
(* Which module is at which address: the registry of the master            *)
(* (ModuleRegistry.cpp), the scan job and the automatic assignment of      *)
(* addresses (MasterScheduler.cpp), and the address a module keeps in its  *)
(* flash (FanIoModule.ino).  Modules are plugged, unplugged and moved by   *)
(* the user at any time; answers get lost, and two modules at one address  *)
(* answer at the same time.                                                *)
(*                                                                         *)
(* The modules are those of one family, whose addresses are                *)
(* 1..LastAddress; the first is its default.  A module stands for its UID. *)
(***************************************************************************)
EXTENDS Integers, Sequences, FiniteSets, SequencesExt

CONSTANTS Modules,
          LastAddress,      \* of the family
          Priority,         \* compact_address_type_priority
          NoModule,
          MaxDisturbances   \* how often something changes or gets lost

Addresses == 1..LastAddress
Default == 1
None == 0
Full == LastAddress + 1      \* ADDR_INVALID: no single address will do

ASSUME ModulesAssumption ==
  /\ NoModule \notin Modules /\ Priority \in [Modules -> Nat]
  /\ IsFiniteSet(Modules)
  /\ LastAddress \in Nat /\ Cardinality(Modules) < LastAddress   \* one is free for a swap
  /\ MaxDisturbances \in Nat

VARIABLES address,      \* of each module, in its flash
          present,      \* the modules on the bus
          record,       \* the registry: the address recorded for each UID, 0 without a record
          snapshot,     \* the records saved when a scan ended last
          online,       \* the flag of the records
          seen,         \* seen_in_scan, while a scan that prunes goes on
          scan,         \* the scan job: what it does next, whether it prunes, the address it is at
          pending,      \* pending_hotplug_scan_: None, Full or an address
          found,        \* autoAddressModules: the modules discovered, in this order,
          at,           \* where they are as far as it knows, 0 for the others,
          target,       \* desired_addr, 0 for none,
          tried,        \* and those it has given up: move_done with another address
          disturbances  \* bound: plugged, unplugged, moved, lost

assignment == <<found, at, target, tried>>
registry == <<record, snapshot, online, seen>>
world == <<address, present>>
vars == <<address, present, record, snapshot, online, seen, scan, pending, found, at, target, tried, disturbances>>

\* The registry comes from the saved snapshot, and the first scan of setup() is under way.
Init == /\ address \in [Modules -> Addresses]
        /\ present \in SUBSET Modules
        /\ record \in [Modules -> 0..LastAddress]
        /\ \A m, n \in Modules : m # n /\ record[m] # 0 => record[n] # record[m]
        /\ snapshot = record
        /\ online = {} /\ seen = {}
        /\ scan = [step |-> "scan", prune |-> FALSE, next |-> 1]
        /\ pending = None
        /\ found = <<>> /\ tried = {}
        /\ at = [m \in Modules |-> 0] /\ target = [m \in Modules |-> 0]
        /\ disturbances = 0

Disturbed(n) == /\ disturbances + n <= MaxDisturbances
                /\ disturbances' = disturbances + n

-----------------------------------------------------------------------------
(* The registry *)

\* Only the address of a module that is online is refused.
BindableUnlessOnline(rec, m, a) == \A n \in online \ {m} : rec[n] # a
\* bindUidToAddress refuses an address that is another module's.
Bindable(rec, m, a) == \A n \in Modules \ {m} : rec[n] # a
Bind(rec, m, a) == IF Bindable(rec, m, a) THEN [rec EXCEPT ![m] = a] ELSE rec

\* The modules a request to an address reaches, where addr is where they are.
Reached(addr, a) == {m \in present : addr[m] = a}

\* One of them answers, or none does: nobody is there, two answer at once, or the
\* answer is lost, which counts.
Answers(addr, a, m) ==
  \/ m \in Reached(addr, a) /\ UNCHANGED disturbances
  \/ m = NoModule /\ Disturbed(IF Cardinality(Reached(addr, a)) = 1 THEN 1 ELSE 0)

\* readInfo and readCaps of the module m that has answered at a; rec is the registry
\* as the caller leaves it.
Recorded(rec, a, m) ==
  IF m # NoModule /\ Bindable(rec, m, a)
  THEN /\ record' = Bind(rec, m, a)
       /\ online' = online \cup {m}
       /\ seen' = IF scan.prune THEN seen \cup {m} ELSE {}
  ELSE record' = rec /\ UNCHANGED <<online, seen>>

scanAddress(a) ==
  \E m \in Modules \cup {NoModule} : Answers(address, a, m) /\ Recorded(record, a, m)

-----------------------------------------------------------------------------
(* Discovery and the scan job *)

requestScanKnownModules(auto, prune) ==
  /\ scan' = [step |-> IF auto THEN "discover" ELSE "scan", prune |-> prune, next |-> 1]
  /\ seen' = {}

\* An address that is recorded for another module is not noticed.
AnnounceItself(m) ==
  LET a == address[m]
  IN /\ m \in present
     /\ ~(record[m] = a /\ m \in online)
     /\ pending' = IF a = Default \/ pending = Full THEN Full ELSE a
     /\ UNCHANGED <<world, registry, scan, assignment, disturbances>>

\* noticeDiscoveryResponse: a module announces itself after its start, or answers
\* the discovery that is broadcast now and then.
Announce(m) ==
  LET a == address[m]
      full == \/ record[m] # a /\ ~Bindable(record, m, a)
              \/ a = Default
              \/ pending \in Addresses \ {a}
  IN /\ m \in present
     /\ ~(record[m] = a /\ m \in online)
     /\ pending' = IF full \/ pending = Full THEN Full ELSE a
     /\ UNCHANGED <<world, registry, scan, assignment, disturbances>>

\* What has been announced is looked at 600 ms later.
PendingScan ==
  /\ pending # None /\ scan.step # "move"
  /\ pending' = None
  /\ IF pending = Full
     THEN requestScanKnownModules(TRUE, FALSE) /\ UNCHANGED <<record, online, disturbances>>
     ELSE scanAddress(pending) /\ UNCHANGED scan
  /\ UNCHANGED <<world, snapshot, assignment>>

\* The page starts a scan that prunes or an assignment that does not, the console
\* a scan that does neither.
UserScan(auto, prune) ==
  /\ scan.step # "move" /\ ~(auto /\ prune)
  /\ Disturbed(1)
  /\ requestScanKnownModules(auto, prune)
  /\ UNCHANGED <<world, record, snapshot, online, pending, assignment>>

ScanNext ==
  /\ scan.step = "scan" /\ scan.next <= LastAddress
  /\ scanAddress(scan.next)
  /\ scan' = [scan EXCEPT !.next = @ + 1]
  /\ UNCHANGED <<world, snapshot, pending, assignment>>

\* removeScanUnseen forgets who has not answered a scan that prunes; what is left is
\* saved (save_module_snapshot).
ScanEnds ==
  /\ scan.step = "scan" /\ scan.next > LastAddress
  /\ scan' = [step |-> "idle", prune |-> FALSE, next |-> 1]
  /\ seen' = {}
  /\ IF scan.prune
     THEN /\ record' = [m \in Modules |-> IF m \in seen THEN record[m] ELSE 0]
          /\ online' = online \cap seen
     ELSE UNCHANGED <<record, online>>
  /\ snapshot' = record'
  /\ UNCHANGED <<world, pending, assignment, disturbances>>

\* pollOfflineModules, and MASTER_CMD_PROBE_MODULE of the page.
Probe(a) == /\ scan.step # "move"
            /\ scanAddress(a)
            /\ UNCHANGED <<world, snapshot, scan, pending, assignment>>

\* Five requests in a row stay unanswered.
GoesOffline(m) ==
  /\ m \in online
  /\ Disturbed(IF Cardinality(Reached(address, record[m])) = 1 THEN 1 ELSE 0)
  /\ online' = online \ {m}
  /\ UNCHANGED <<world, record, snapshot, seen, scan, pending, assignment>>

-----------------------------------------------------------------------------
(* The automatic assignment *)

Found == ToSet(found)

\* discovered_before_for_compact_address, where order is the order of the answers.
Before(order, m, n) ==
  LET Place(x) == CHOOSE i \in DOMAIN order : order[i] = x
  IN \/ Priority[m] < Priority[n]
     \/ /\ Priority[m] = Priority[n]
        /\ \/ record[m] # 0 /\ (record[n] = 0 \/ record[m] < record[n])
           \/ record[m] = 0 /\ record[n] = 0 /\ Place(m) < Place(n)

\* The addresses of modules that are offline are given away.
UnreservedByOnline(order) == {a \in Addresses : \A m \in online \ ToSet(order) : record[m] # a}
\* The addresses the assignment may give away: those of remembered modules that
\* have not been discovered stay theirs.
Unreserved(order) == {a \in Addresses : \A m \in Modules \ ToSet(order) : record[m] # a}

\* desired_addr: the unreserved address with as many before it as modules come before m.
Desired(order, m) ==
  LET slot == Cardinality({n \in ToSet(order) : Before(order, n, m)})
      fits == {a \in Unreserved(order) : Cardinality({b \in Unreserved(order) : b < a}) = slot}
  IN IF fits = {} THEN 0 ELSE CHOOSE a \in fits : TRUE

\* Eight broadcasts, which every module answers once at least unless all its answers
\* are lost.
Discover ==
  /\ scan.step = "discover"
  /\ \E answering \in SUBSET present :
       /\ Disturbed(Cardinality(present \ answering))
       /\ \E order \in SetToSeqs(answering) :
            /\ found' = order
            /\ at' = [m \in Modules |-> IF m \in ToSet(order) THEN address[m] ELSE 0]
            /\ target' = [m \in Modules |-> IF m \in ToSet(order) THEN Desired(order, m) ELSE 0]
  /\ scan' = [scan EXCEPT !.step = "move"]
  /\ UNCHANGED <<world, registry, pending, tried>>

Done(m) == m \in tried \/ target[m] = 0 \/ at[m] = target[m]
Free(a, m) == \A n \in Found \ {m} : at[n] # a
Waiting == {i \in DOMAIN found : ~Done(found[i])}
Movable == {i \in Waiting : Free(target[found[i]], found[i])}
First(indices) == found[CHOOSE i \in indices : \A j \in indices : i <= j]

\* An unused address for one of a cycle.
Temporary(m) == {a \in Addresses : Free(a, m) /\ at[m] # a /\ \A n \in Modules : record[n] # a}
Least(S) == CHOOSE a \in S : \A b \in S : a <= b

\* handle_set_address_uid: the module takes the address, and answers.
Moves(m, a) == m \in present /\ address' = [address EXCEPT ![m] = a]

\* The answer does not arrive: the module is gone, or the request, the answer or the
\* write to its flash is lost.
MoveFails(m, a) ==
  \/ m \notin present /\ UNCHANGED <<address, disturbances>>
  \/ m \in present /\ address' \in {address, [address EXCEPT ![m] = a]} /\ Disturbed(1)

EndAssignment ==
  /\ scan' = [scan EXCEPT !.step = "scan"]
  /\ found' = <<>> /\ tried' = {}
  /\ at' = [m \in Modules |-> 0] /\ target' = [m \in Modules |-> 0]

\* The first module whose target no other occupies is moved there, bound and read.
Move ==
  /\ scan.step = "move" /\ Movable # {}
  /\ LET m == First(Movable)
         a == target[m]
     IN \/ /\ Moves(m, a)
           /\ IF Bindable(record, m, a)
              THEN /\ \E n \in Modules \cup {NoModule} :
                        Answers(address', a, n) /\ Recorded(Bind(record, m, a), a, n)
                   /\ at' = [at EXCEPT ![m] = a]
                   /\ UNCHANGED <<snapshot, tried>>
              ELSE tried' = tried \cup {m} /\ UNCHANGED <<registry, at, disturbances>>
        \/ /\ MoveFails(m, a)
           /\ tried' = tried \cup {m}
           /\ UNCHANGED <<registry, at>>
  /\ UNCHANGED <<present, scan, pending, found, target>>

\* All targets are occupied: "Break that cycle through an unused address in the same
\* family".
MoveTemporarily ==
  /\ scan.step = "move" /\ Waiting # {} /\ Movable = {}
  /\ LET m == First(Waiting)
         a == Least(Temporary(m))
     IN \/ /\ Temporary(m) # {} /\ Moves(m, a)
           /\ record' = Bind(record, m, a)
           /\ at' = [at EXCEPT ![m] = a]
           /\ UNCHANGED <<scan, found, target, tried, disturbances>>
        \/ /\ IF Temporary(m) = {} THEN UNCHANGED <<address, disturbances>> ELSE MoveFails(m, a)
           /\ EndAssignment
           /\ UNCHANGED record
  /\ UNCHANGED <<present, snapshot, online, seen, pending>>

Assigned ==
  /\ scan.step = "move" /\ Waiting = {}
  /\ EndAssignment
  /\ UNCHANGED <<world, registry, pending, disturbances>>

-----------------------------------------------------------------------------
(* The world *)

\* setModuleAddress: every module at the old address takes the new one; the record
\* there is moved, and read, when one of them says so.
SetModuleAddress(old, new) ==
  /\ scan.step # "move" /\ Disturbed(1)
  /\ \E moved \in SUBSET Reached(address, old), ok \in BOOLEAN :
       /\ ok => moved # {}
       /\ address' = [m \in Modules |-> IF m \in moved THEN new ELSE address[m]]
       /\ IF ok
          THEN LET owner == {m \in Modules : record[m] = old}
                   rec == IF owner = {} THEN record
                          ELSE Bind(record, CHOOSE m \in owner : TRUE, new)
               IN \E m \in Reached(address', new) \cup {NoModule} : Recorded(rec, new, m)
          ELSE UNCHANGED <<record, online, seen>>
  /\ UNCHANGED <<present, snapshot, scan, pending, assignment>>

Plug(m) == /\ m \notin present /\ present' = present \cup {m}
           /\ Disturbed(1)
           /\ UNCHANGED <<address, registry, scan, pending, assignment>>

Unplug(m) == /\ m \in present /\ present' = present \ {m}
             /\ Disturbed(1)
             /\ UNCHANGED <<address, registry, scan, pending, assignment>>

\* The master starts again, with the records it has saved.
Restart == /\ Disturbed(1)
           /\ record' = snapshot
           /\ online' = {} /\ seen' = {}
           /\ scan' = [step |-> "scan", prune |-> FALSE, next |-> 1]
           /\ pending' = None
           /\ found' = <<>> /\ tried' = {}
           /\ at' = [m \in Modules |-> 0] /\ target' = [m \in Modules |-> 0]
           /\ UNCHANGED <<world, snapshot>>

Assignment == Discover \/ Move \/ MoveTemporarily \/ Assigned

Next ==
  \/ \E m \in Modules : Announce(m) \/ GoesOffline(m) \/ Plug(m) \/ Unplug(m)
  \/ PendingScan \/ ScanNext \/ ScanEnds \/ Assignment \/ Restart
  \/ \E auto, prune \in BOOLEAN : UserScan(auto, prune)
  \/ \E a \in Addresses : Probe(a)
  \/ \E old, new \in Addresses : SetModuleAddress(old, new)

Safety == Init /\ [][Next]_vars

\* The loop goes on with the job and with what was announced; a module that has
\* something to announce is asked by a discovery again and again; and where several
\* modules answer at once, the answer of one gets through now and then.
Fairness ==
  /\ WF_vars(Assignment) /\ WF_vars(ScanNext) /\ WF_vars(ScanEnds) /\ WF_vars(PendingScan)
  /\ \A m \in Modules : SF_vars(Announce(m))
  /\ SF_vars(PendingScan /\ record' # record)

Spec == Safety /\ Fairness

-----------------------------------------------------------------------------
\* One address has one record, and what is flagged is recorded.
TypeOK ==
  /\ address \in [Modules -> Addresses] /\ present \subseteq Modules
  /\ record \in [Modules -> 0..LastAddress]
  /\ snapshot \in [Modules -> 0..LastAddress]
  /\ \A records \in {record, snapshot} : \A m, n \in Modules :
       m # n /\ records[m] # 0 => records[n] # records[m]
  /\ (online \cup seen) \subseteq {m \in Modules : record[m] # 0}
  /\ scan \in [step : {"idle", "discover", "move", "scan"}, prune : BOOLEAN, next : 1..(LastAddress + 1)]
  /\ pending \in {None, Full} \cup Addresses
  /\ found \in Seq(Modules) /\ tried \subseteq Found
  /\ scan.step # "move" => found = <<>>
  /\ at \in [Modules -> 0..LastAddress] /\ target \in [Modules -> 0..LastAddress]
  /\ \A m \in Modules : at[m] # 0 <=> m \in Found
  /\ disturbances \in 0..MaxDisturbances

\* The automatic assignment leaves the modules it has not discovered alone: their records
\* stay, and no other module is sent to their addresses.
AbsentKeepTheirAddress ==
  [][Move \/ MoveTemporarily =>
       \A m \in Modules \ Found :
         /\ record'[m] = record[m]
         /\ record[m] # 0 => \A n \in Modules \ {m} : address'[n] = record[m] => address[n] = record[m]]_vars

Served(m) == /\ m \in online /\ record[m] = address[m]
             /\ \A n \in present \ {m} : address[n] # address[m]

\* Modules of different priority each of which sits where another is recorded: what
\* their priorities ask for is what they have, so that nothing is moved or bound.
Crossed ==
  \E S \in SUBSET present :
    /\ \E m, n \in S : Priority[m] # Priority[n]
    /\ \A m \in S : /\ record[m] # address[m]
                     /\ \E n \in S : record[n] = address[m]

\* Provided that the assignments end, every module on the bus gets an address of its own
\* at last, under which the master has recorded it.
AllServed == []<>(scan.step = "idle") => <>[](\A m \in present : Served(m)) \/ <>[]Crossed

\* The assignment ends.
AssignmentEnds == scan.step = "move" ~> scan.step # "move"

=============================================================================
