------------------------- MODULE DisplaySession_proofs -------------------------
(***************************************************************************)
(* What TLAPS proves about DisplaySession, for any counters, any number of *)
(* packets under way and any number of faults.                             *)
(***************************************************************************)
EXTENDS DisplaySession, FiniteSetTheorems, WellFoundedInduction, TLAPS

(***************************************************************************)
(* The inductive invariant.                                                *)
(***************************************************************************)

Handshake == {"HELLO", "CHALLENGE", "PROOF", "READY"}
Counted == {"KEEPALIVE", "DATA", "LEAVE"}

Packets == [kind : Handshake \cup Counted, to : {"master", "display"},
            client : Nonces, server : Nonces \cup {0}, counter : 0 .. MaxCounter,
            late : BOOLEAN, used : BOOLEAN]

\* What the net holds; an end that is connected has a client number.
Typed ==
  /\ TypeOK
  /\ IsFiniteSet(net) /\ net \subseteq Packets
  /\ master.s.conn => master.s.client # 0
  /\ display.s.conn => display.s.client # 0

\* The server number of a handshake that is not over is not yet one of a session.
PendingIsFresh ==
  master.pending.server # 0 =>
    /\ master.s.server # master.pending.server
    /\ display.s.conn => display.s.server # master.pending.server

\* Nor has a READY, or a packet of a session, been sent with it.
Unconfirmed(p) ==
  master.pending.server # 0 /\ p.server = master.pending.server =>
    p.counter = 0 /\ p.kind # "READY"

\* A display that is not connected has received no packet of a session with its
\* present client number.
UnknownToDisplay(p) ==
  ~display.s.conn /\ p.to = "display" /\ p.used /\ p.counter > 0 => p.client # display.s.client

PacketOK(p) ==
  /\ p.kind \in Handshake => p.counter = 0
  /\ Unconfirmed(p)
  /\ UnknownToDisplay(p)
  /\ p.used => ~Accepts(p)

NetInv == \A p \in net : PacketOK(p)

SessionInv == Typed /\ PendingIsFresh /\ NetInv

(***************************************************************************)
(* Nonces.                                                                 *)
(***************************************************************************)

\* A set of numbers that is not empty has a least one.
LEMMA LeastIsIn ==
  ASSUME NEW S, S \subseteq Nat, S # {}
  PROVE  Least(S) \in S
<1> DEFINE Less == {p \in Nat \X Nat : p[1] < p[2]}
<1>1. IsWellFoundedOn(Less, Nat)
  BY NatLessThanWellFounded, Zenon DEF OpToRel
<1> HIDE DEF Less
<1>2. PICK i \in S : \A j \in S : ~ (<<j, i>> \in Less)
  BY <1>1, WFMin
<1>3. \A j \in S : ~ (j < i)
  BY <1>2 DEF Less
<1>4. \A j \in S : i <= j
  BY <1>3
<1> QED
  BY <1>4 DEF Least

\* A set grows by one element at most.
LEMMA OneMore ==
  ASSUME NEW S, IsFiniteSet(S), NEW n \in Nat, Cardinality(S) <= n, NEW x
  PROVE  /\ IsFiniteSet(S \cup {x})
         /\ Cardinality(S \cup {x}) \in Nat /\ Cardinality(S \cup {x}) <= n + 1
<1>1. Cardinality(S) \in Nat
  BY FS_CardinalityType
<1>2. IsFiniteSet(S \cup {x})
  BY FS_AddElement
<1>3. Cardinality(S \cup {x}) = Cardinality(S) \/ Cardinality(S \cup {x}) = Cardinality(S) + 1
  BY FS_AddElement
<1> QED
  BY <1>1, <1>2, <1>3

\* Three numbers and those on the packets leave a fresh one.
LEMMA FreshNonce ==
  ASSUME Typed, NEW number \in [net -> Nonces \cup {0}], NEW a, NEW b, NEW c
  PROVE  LET fresh == Nonces \ ({a, b, c} \cup {number[p] : p \in net})
         IN  Least(fresh) \in fresh
<1> DEFINE carried == {number[p] : p \in net}
           held == {a, b, c} \cup carried
           fresh == Nonces \ held
<1>1. IsFiniteSet(carried) /\ Cardinality(carried) <= Cardinality(net)
  <2>1. [p \in net |-> number[p]] \in Surjection(net, carried)
    BY DEF Surjection
  <2> QED
    BY <2>1, FS_Surjection DEF Typed
<1>2. /\ Cardinality(net) \in Nat /\ Cardinality(net) <= MaxPackets
      /\ Cardinality(carried) \in Nat
  BY <1>1, FS_CardinalityType DEF Typed, TypeOK
<1> HIDE DEF carried
<1>3. IsFiniteSet(held) /\ Cardinality(held) \in Nat /\ Cardinality(held) <= MaxPackets + 3
  <2>1. /\ IsFiniteSet(carried \cup {a}) /\ Cardinality(carried \cup {a}) \in Nat
        /\ Cardinality(carried \cup {a}) <= MaxPackets + 1
    <3>1. MaxPackets \in Nat /\ Cardinality(carried) <= MaxPackets
      BY <1>1, <1>2, BoundsAssumption
    <3> QED
      BY <1>1, <3>1, OneMore
  <2>2. /\ IsFiniteSet((carried \cup {a}) \cup {b})
        /\ Cardinality((carried \cup {a}) \cup {b}) \in Nat
        /\ Cardinality((carried \cup {a}) \cup {b}) <= MaxPackets + 2
    <3>1. MaxPackets + 1 \in Nat /\ (MaxPackets + 1) + 1 = MaxPackets + 2
      BY BoundsAssumption
    <3> QED
      BY <2>1, <3>1, OneMore
  <2>3. /\ IsFiniteSet(((carried \cup {a}) \cup {b}) \cup {c})
        /\ Cardinality(((carried \cup {a}) \cup {b}) \cup {c}) \in Nat
        /\ Cardinality(((carried \cup {a}) \cup {b}) \cup {c}) <= MaxPackets + 3
    <3>1. MaxPackets + 2 \in Nat /\ (MaxPackets + 2) + 1 = MaxPackets + 3
      BY BoundsAssumption
    <3> QED
      BY <2>2, <3>1, OneMore
  <2>4. ((carried \cup {a}) \cup {b}) \cup {c} = held
    OBVIOUS
  <2> QED
    BY <2>3, <2>4
<1> HIDE DEF held
<1>4. fresh # {}
  <2> SUFFICES ASSUME Nonces \subseteq held PROVE FALSE
    OBVIOUS
  <2>1. Nonces \in SUBSET held
    OBVIOUS
  <2>2. Cardinality(Nonces) <= Cardinality(held)
    BY <2>1, <1>3, FS_Subset
  <2>3. Cardinality(Nonces) \in Nat
    BY BoundsAssumption, FS_CardinalityType
  <2> QED
    BY <2>2, <2>3, <1>3, BoundsAssumption
<1>5. fresh \subseteq Nat
  BY BoundsAssumption
<1>6. Least(fresh) \in fresh
  BY <1>4, <1>5, LeastIsIn
<1> QED
  BY <1>6 DEF held, carried

\* The display's next nonce is new to both ends and to every packet.
LEMMA ClientNonceIsFresh ==
  ASSUME Typed
  PROVE  clientNonce \in Nonces /\ \A p \in net : p.client # clientNonce
<1> DEFINE number == [p \in net |-> p.client]
<1>1. number \in [net -> Nonces \cup {0}]
  BY DEF Typed, Packets
<1>2. {number[p] : p \in net} = {p.client : p \in net}
  OBVIOUS
<1> DEFINE fresh(T) == Nonces \ ({master.s.client, master.pending.client, display.s.client} \cup T)
<1>3. Least(fresh({number[p] : p \in net})) \in fresh({number[p] : p \in net})
  BY <1>1, FreshNonce
<1>4. Least(fresh({p.client : p \in net})) \in fresh({p.client : p \in net})
  BY <1>2, <1>3
<1>5. clientNonce \in Nonces \ ({master.s.client, master.pending.client, display.s.client}
                                \cup {p.client : p \in net})
  BY <1>4 DEF clientNonce
<1> QED
  BY <1>5

\* So is the master's.
LEMMA ServerNonceIsFresh ==
  ASSUME Typed
  PROVE  /\ serverNonce \in Nonces /\ \A p \in net : p.server # serverNonce
         /\ serverNonce # master.s.server /\ serverNonce # display.s.server
<1> DEFINE number == [p \in net |-> p.server]
<1>1. number \in [net -> Nonces \cup {0}]
  BY DEF Typed, Packets
<1>2. {number[p] : p \in net} = {p.server : p \in net}
  OBVIOUS
<1> DEFINE fresh(T) == Nonces \ ({master.s.server, master.pending.server, display.s.server} \cup T)
<1>3. Least(fresh({number[p] : p \in net})) \in fresh({number[p] : p \in net})
  BY <1>1, FreshNonce
<1>4. Least(fresh({p.server : p \in net})) \in fresh({p.server : p \in net})
  BY <1>2, <1>3
<1>5. serverNonce \in Nonces \ ({master.s.server, master.pending.server, display.s.server}
                                \cup {p.server : p \in net})
  BY <1>4 DEF serverNonce
<1> QED
  BY <1>5

(***************************************************************************)
(* The net.                                                                *)
(***************************************************************************)

\* q is a packet of this kind that has just been sent.
Sent(q, kind, to, client, server) ==
  /\ q \in Packets /\ ~q.used
  /\ q.kind = kind /\ q.to = to /\ q.client = client /\ q.server = server
  /\ kind \in Handshake => q.counter = 0

\* q is p once more.
Again(q, p) ==
  /\ q \in Packets /\ q.used
  /\ q.kind = p.kind /\ q.to = p.to /\ q.client = p.client /\ q.server = p.server
  /\ q.counter = p.counter

\* What stays true of the net and of the faults.
NetSound == /\ IsFiniteSet(net) /\ Cardinality(net) <= MaxPackets
            /\ faults \in 0 .. MaxFaults[mode]

\* A packet as it is sent, in time or late.
LEMMA PacketSent ==
  ASSUME NEW kind \in Handshake \cup Counted, NEW to \in {"master", "display"},
         NEW s, s.client \in Nonces, s.server \in Nonces \cup {0},
         NEW counter \in 0 .. MaxCounter, kind \in Handshake => counter = 0,
         NEW a, a = Packet(kind, to, s, counter)
  PROVE  /\ Sent(a, kind, to, s.client, s.server)
         /\ Sent([a EXCEPT !.late = TRUE], kind, to, s.client, s.server)
BY DEF Packet, Sent, Packets

\* A packet that comes again.
LEMMA PacketAgain ==
  ASSUME NEW p \in Packets
  PROVE  Again([p EXCEPT !.late = TRUE, !.used = TRUE], p)
BY DEF Again, Packets

\* One fault more is one at most.
LEMMA FaultSound ==
  ASSUME Typed, mode' = mode, Fault \/ UNCHANGED faults
  PROVE  faults' \in 0 .. MaxFaults[mode']
<1>1. MaxFaults[mode] \in Nat /\ faults \in 0 .. MaxFaults[mode]
  BY BoundsAssumption DEF Typed, TypeOK
<1> QED
  BY <1>1 DEF Fault

\* Sending a packet adds nothing else.
LEMMA PostNet ==
  ASSUME Typed, mode' = mode, NEW others, others \subseteq net, NEW a, Post(others, a)
  PROVE  /\ NetSound'
         /\ \A q \in net' : q \in net \/ q = a \/ q = [a EXCEPT !.late = TRUE]
<1>1. /\ IsFiniteSet(others) /\ Cardinality(others) \in Nat
      /\ Cardinality(others) <= MaxPackets
  <2>1. others \in SUBSET net
    OBVIOUS
  <2>2. IsFiniteSet(others) /\ Cardinality(others) <= Cardinality(net)
    BY <2>1, FS_Subset DEF Typed
  <2>3. Cardinality(others) \in Nat /\ Cardinality(net) \in Nat
    BY <2>2, FS_CardinalityType DEF Typed
  <2> QED
    BY <2>2, <2>3, BoundsAssumption DEF Typed, TypeOK
<1>2. ASSUME NEW x, Cardinality(others) < MaxPackets
      PROVE  IsFiniteSet(others \cup {x}) /\ Cardinality(others \cup {x}) <= MaxPackets
  <2>1. MaxPackets - 1 \in Nat /\ Cardinality(others) <= MaxPackets - 1
    BY <1>1, <1>2, BoundsAssumption
  <2>2. IsFiniteSet(others \cup {x}) /\ Cardinality(others \cup {x}) <= (MaxPackets - 1) + 1
    BY <1>1, <2>1, OneMore
  <2> QED
    BY <2>2, BoundsAssumption
<1>3. IsFiniteSet(net') /\ Cardinality(net') <= MaxPackets
  BY <1>1, <1>2 DEF Post
<1>4. faults' \in 0 .. MaxFaults[mode']
  BY FaultSound DEF Post
<1> QED
  BY <1>3, <1>4 DEF Post, NetSound

\* Receiving a packet leaves the others, and it may come again.
LEMMA TakeNet ==
  ASSUME Typed, mode' = mode, NEW p \in net, Take(p)
  PROVE  NetSound' /\ \A q \in net' : q \in net \/ Again(q, p)
<1>1. /\ IsFiniteSet(net \ {p}) /\ Cardinality(net \ {p}) = Cardinality(net) - 1
      /\ Cardinality(net) \in Nat /\ Cardinality(net) <= MaxPackets /\ MaxPackets \in Nat
  BY FS_RemoveElement, FS_CardinalityType, BoundsAssumption DEF Typed, TypeOK
<1>2. ASSUME NEW x
      PROVE  /\ IsFiniteSet((net \ {p}) \cup {x})
             /\ Cardinality((net \ {p}) \cup {x}) <= MaxPackets
  <2>1. MaxPackets - 1 \in Nat /\ Cardinality(net \ {p}) <= MaxPackets - 1
    BY <1>1, BoundsAssumption
  <2>2. /\ IsFiniteSet((net \ {p}) \cup {x})
        /\ Cardinality((net \ {p}) \cup {x}) <= (MaxPackets - 1) + 1
    BY <1>1, <2>1, OneMore
  <2> QED
    BY <2>2, BoundsAssumption
<1>3. IsFiniteSet(net') /\ Cardinality(net') <= MaxPackets
  <2>1. CASE net' = net \ {p}
    BY <1>1, <2>1
  <2>2. CASE net' = (net \ {p}) \cup {[p EXCEPT !.late = TRUE, !.used = TRUE]}
    BY <1>2, <2>2
  <2> QED
    BY <2>1, <2>2 DEF Take
<1>4. faults' \in 0 .. MaxFaults[mode']
  BY FaultSound DEF Take
<1>5. p \in Packets
  BY DEF Typed
<1> QED
  BY <1>3, <1>4, <1>5, PacketAgain DEF Take, NetSound

\* Answering a packet does both.
LEMMA ReplyNet ==
  ASSUME Typed, mode' = mode, NEW p \in net, NEW a, Reply(p, a)
  PROVE  /\ NetSound'
         /\ \A q \in net' : \/ q \in net \/ Again(q, p)
                            \/ q = a \/ q = [a EXCEPT !.late = TRUE]
<1>1. CASE Post(net \ {p}, a)
  BY <1>1, PostNet
<1>2. CASE /\ net' = (net \ {p}) \cup {a, [p EXCEPT !.late = TRUE, !.used = TRUE]}
           /\ Cardinality(net') <= MaxPackets
           /\ Fault
  <2>1. IsFiniteSet(net')
    <3>1. IsFiniteSet((net \ {p}) \cup {a})
      BY FS_RemoveElement, FS_AddElement DEF Typed
    <3>2. IsFiniteSet(((net \ {p}) \cup {a}) \cup {[p EXCEPT !.late = TRUE, !.used = TRUE]})
      BY <3>1, FS_AddElement
    <3>3. ((net \ {p}) \cup {a}) \cup {[p EXCEPT !.late = TRUE, !.used = TRUE]} = net'
      BY <1>2
    <3> QED
      BY <3>2, <3>3
  <2>2. faults' \in 0 .. MaxFaults[mode']
    BY <1>2, FaultSound
  <2>3. p \in Packets
    BY DEF Typed
  <2> QED
    BY <1>2, <2>1, <2>2, <2>3, PacketAgain DEF NetSound
<1> QED
  BY <1>1, <1>2 DEF Reply

\* Losing a packet adds none.
LEMMA DropNet ==
  ASSUME Typed, mode' = mode, NEW p \in net, Drop(p)
  PROVE  NetSound' /\ \A q \in net' : q \in net
<1>1. net' = net \ {p} /\ faults' = faults
  BY DEF Drop
<1>2. /\ IsFiniteSet(net \ {p}) /\ Cardinality(net \ {p}) = Cardinality(net) - 1
      /\ Cardinality(net) \in Nat /\ Cardinality(net) <= MaxPackets /\ MaxPackets \in Nat
  BY FS_RemoveElement, FS_CardinalityType, BoundsAssumption DEF Typed, TypeOK
<1>3. Cardinality(net \ {p}) <= MaxPackets
  BY <1>2
<1>4. faults' \in 0 .. MaxFaults[mode']
  BY <1>1, FaultSound
<1> QED
  BY <1>1, <1>2, <1>3, <1>4 DEF NetSound

\* Nor does leaving the net alone.
LEMMA SameNet ==
  ASSUME Typed, mode' = mode, net' = net, Fault \/ UNCHANGED faults
  PROVE  NetSound' /\ \A q \in net' : q \in net
BY FaultSound DEF Typed, TypeOK, NetSound

(***************************************************************************)
(* The sessions of the two ends.                                           *)
(***************************************************************************)

Masters == [s : Session, pending : [client : Nonces \cup {0}, server : Nonces \cup {0}],
            probes : 0 .. 1]
Displays == [s : Session, stale : BOOLEAN, beat : BOOLEAN, wired : BOOLEAN]

\* Session t is session s, which has received more, or over.
Resumes(s, t) ==
  t.conn => s.conn /\ t.client = s.client /\ t.server = s.server /\ s.rx <= t.rx

\* What a step may do to the master: go on with its session and its handshake, or
\* begin with a server number no packet of a session has.
MasterKeeps ==
  /\ master' \in Masters
  /\ master'.s.conn =>
       /\ master'.s.client # 0
       /\ \/ Resumes(master.s, master'.s)
          \/ \A q \in net : q.server = master'.s.server => q.counter = 0
  /\ \/ master'.pending.server \in {0, master.pending.server}
     \/ \A q \in net : q.server # master'.pending.server

\* What a step may do to the display: go on, connect with its client number, or begin
\* with one no packet has.
DisplayKeeps ==
  /\ display' \in Displays
  /\ display'.s.conn =>
       /\ display'.s.client # 0
       /\ \/ Resumes(display.s, display'.s)
          \/ ~display.s.conn /\ display'.s.client = display.s.client
  /\ ~display'.s.conn =>
       \/ display'.s.client = 0
       \/ ~display.s.conn /\ display'.s.client = display.s.client
       \/ \A q \in net : q.client # display'.s.client

\* A packet is of no more use at the end that has received it.
Spent(p) ==
  \/ p.counter = 0
  \/ p.to = "master" /\ (master'.s.conn => p.counter <= master'.s.rx)
  \/ p.to = "display" /\ IF display'.s.conn THEN p.counter <= display'.s.rx
                                            ELSE display'.s.client = 0

\* What was under way before the step is in order after it.
LEMMA OldOK ==
  ASSUME SessionInv, MasterKeeps, DisplayKeeps, NEW p \in net
  PROVE  PacketOK(p)'
<1>1. p \in Packets /\ PacketOK(p)
  BY DEF SessionInv, Typed, NetInv
<1>2. 0 \notin Nonces /\ Nonces \subseteq Nat
  BY BoundsAssumption
<1>3. Unconfirmed(p)'
  BY <1>1 DEF PacketOK, Unconfirmed, MasterKeeps
<1>4. UnknownToDisplay(p)'
  BY <1>1, <1>2 DEF PacketOK, UnknownToDisplay, DisplayKeeps, Packets
<1>5. ASSUME p.used PROVE ~Accepts(p)'
  <2>1. ~Accepts(p)
    BY <1>1, <1>5 DEF PacketOK
  <2>2. CASE p.to = "master"
    <3>1. master.s.rx \in Nat /\ master'.s.rx \in Nat /\ p.counter \in Nat
      BY <1>1, BoundsAssumption DEF MasterKeeps, Masters, Session, SessionInv, Typed, TypeOK, Packets
    <3>2. ~InSession(p, master.s)
      BY <2>1, <2>2 DEF Accepts
    <3>3. ASSUME InSession(p, master'.s) PROVE FALSE
      <4>1. master'.s.conn /\ p.server = master'.s.server /\ p.counter > 0
        BY <3>1, <3>3 DEF InSession
      <4>2. Resumes(master.s, master'.s)
        BY <3>1, <4>1 DEF MasterKeeps
      <4> QED
        BY <3>1, <3>2, <3>3, <4>1, <4>2 DEF Resumes, InSession
    <3> QED
      BY <2>2, <3>3 DEF Accepts
  <2>3. CASE p.to # "master"
    <3>1. /\ display.s.rx \in Nat /\ display'.s.rx \in Nat /\ p.counter \in Nat
          /\ p.to = "display"
      BY <1>1, <2>3, BoundsAssumption
      DEF DisplayKeeps, Displays, Session, SessionInv, Typed, TypeOK, Packets
    <3>2. ~InSession(p, display.s)
      BY <2>1, <2>3 DEF Accepts
    <3>3. ASSUME InSession(p, display'.s) PROVE FALSE
      <4>1. display'.s.conn /\ p.client = display'.s.client /\ p.counter > 0
        BY <3>1, <3>3 DEF InSession
      <4>2. display.s.conn \/ p.client # display.s.client
        BY <1>1, <1>5, <3>1, <4>1 DEF PacketOK, UnknownToDisplay
      <4>3. Resumes(display.s, display'.s)
        BY <4>1, <4>2 DEF DisplayKeeps
      <4> QED
        BY <3>1, <3>2, <3>3, <4>1, <4>3 DEF Resumes, InSession
    <3> QED
      BY <2>3, <3>3 DEF Accepts
  <2> QED
    BY <2>2, <2>3
<1> QED
  BY <1>1, <1>3, <1>4, <1>5 DEF PacketOK

\* So is a packet that comes again, once it is spent.
LEMMA AgainOK ==
  ASSUME SessionInv, MasterKeeps, DisplayKeeps, NEW p \in net, Spent(p), NEW q, Again(q, p)
  PROVE  q \in Packets /\ PacketOK(q)'
<1>1. p \in Packets /\ q \in Packets /\ PacketOK(p)'
  BY OldOK DEF SessionInv, Typed, Again
<1>2. /\ q.kind = p.kind /\ q.to = p.to /\ q.client = p.client /\ q.server = p.server
      /\ q.counter = p.counter /\ p.counter \in Nat /\ p.client # 0
  BY <1>1, BoundsAssumption DEF Again, Packets
<1>3. Unconfirmed(q)' /\ (q.kind \in Handshake => q.counter = 0)
  BY <1>1, <1>2 DEF PacketOK, Unconfirmed
<1>4. UnknownToDisplay(q)'
  BY <1>2 DEF UnknownToDisplay, Spent
<1>5. ~Accepts(q)'
  <2>1. master'.s.rx \in Nat /\ display'.s.rx \in Nat
    BY BoundsAssumption DEF MasterKeeps, DisplayKeeps, Masters, Displays, Session
  <2>2. CASE p.to = "master"
    BY <1>2, <2>1, <2>2 DEF Accepts, InSession, Spent
  <2>3. CASE p.to # "master"
    BY <1>2, <2>1, <2>3 DEF Accepts, InSession, Spent
  <2> QED
    BY <2>2, <2>3
<1> QED
  BY <1>1, <1>3, <1>4, <1>5 DEF PacketOK

\* So is a packet that was sent, if it does not confirm a handshake that is not over.
LEMMA SentOK ==
  ASSUME NEW kind, NEW to, NEW client, NEW server, NEW q, Sent(q, kind, to, client, server),
         \/ kind \in Handshake \ {"READY"}
         \/ master'.pending.server # 0 => server # master'.pending.server
  PROVE  q \in Packets /\ PacketOK(q)'
BY DEF Sent, PacketOK, Unconfirmed, UnknownToDisplay

\* Together they keep the invariant.
LEMMA KeepStep ==
  ASSUME SessionInv, MasterKeeps, DisplayKeeps, PendingIsFresh', NetSound',
         UNCHANGED <<mode, cable>>, answered' \in BOOLEAN,
         \A q \in net' : q \in net \/ (q \in Packets /\ PacketOK(q)')
  PROVE  SessionInv'
<1>1. \A q \in net' : q \in Packets /\ PacketOK(q)'
  BY OldOK DEF SessionInv, Typed
<1>2. \A q \in net' : q.counter \in 0 .. MaxCounter
  BY <1>1 DEF Packets
<1>3. TypeOK'
  BY <1>2 DEF TypeOK, SessionInv, Typed, NetSound, MasterKeeps, DisplayKeeps, Masters, Displays
<1>4. Typed'
  BY <1>1, <1>3 DEF Typed, NetSound, MasterKeeps, DisplayKeeps
<1> QED
  BY <1>1, <1>4 DEF SessionInv, NetInv

\* The parts of the invariant the steps use.
LEMMA InvParts ==
  ASSUME SessionInv
  PROVE  /\ master \in Masters /\ display \in Displays /\ answered \in BOOLEAN
         /\ master.s.conn => master.s.client \in Nonces
         /\ display.s.conn => display.s.client \in Nonces
         /\ \A p \in net : p \in Packets /\ PacketOK(p) /\ p.client # 0
         /\ 0 \notin Nonces /\ MaxCounter \in Nat /\ MaxCounter # 0
BY BoundsAssumption DEF SessionInv, NetInv, Typed, TypeOK, Masters, Displays, Session, Packets

\* An end the step leaves alone.
LEMMA MasterSame ==
  ASSUME SessionInv, master' = master
  PROVE  MasterKeeps
<1>1. master.s.rx \in Nat
  BY InvParts DEF Masters, Session
<1> QED
  BY <1>1, InvParts DEF MasterKeeps, Resumes

LEMMA DisplaySame ==
  ASSUME SessionInv, display'.s = display.s, display' \in Displays
  PROVE  DisplayKeeps
<1>1. display.s.rx \in Nat
  BY InvParts DEF Displays, Session
<1> QED
  BY <1>1, InvParts DEF DisplayKeeps, Resumes

\* A handshake that goes on or ends stays apart from sessions that do.
LEMMA PendingStays ==
  ASSUME SessionInv,
         master'.s.server \in {0, master.s.server},
         master'.pending.server \in {0, master.pending.server},
         display'.s.conn => display.s.conn /\ display'.s.server = display.s.server
  PROVE  PendingIsFresh'
BY DEF SessionInv, PendingIsFresh

\* Receiving a packet that is then spent.
LEMMA TakeOK ==
  ASSUME SessionInv, MasterKeeps, DisplayKeeps, mode' = mode, NEW p \in net, Spent(p), Take(p)
  PROVE  NetSound' /\ \A q \in net' : q \in net \/ (q \in Packets /\ PacketOK(q)')
<1>1. NetSound' /\ \A q \in net' : q \in net \/ Again(q, p)
  BY TakeNet DEF SessionInv
<1> QED
  BY <1>1, AgainOK

\* Sending a packet of a handshake.
LEMMA PostOK ==
  ASSUME SessionInv, mode' = mode,
         NEW kind \in {"HELLO", "PROOF"}, NEW to \in {"master", "display"},
         NEW s, s.client \in Nonces, s.server \in Nonces \cup {0},
         Post(net, Packet(kind, to, s, 0))
  PROVE  NetSound' /\ \A q \in net' : q \in net \/ (q \in Packets /\ PacketOK(q)')
<1> DEFINE a == Packet(kind, to, s, 0)
<1>1. Sent(a, kind, to, s.client, s.server)
      /\ Sent([a EXCEPT !.late = TRUE], kind, to, s.client, s.server)
  <2>1. kind \in Handshake \cup Counted /\ 0 \in 0 .. MaxCounter
    BY InvParts DEF Handshake
  <2> QED
    BY <2>1, PacketSent
<1> HIDE DEF a
<1>2. NetSound' /\ \A q \in net' : q \in net \/ q = a \/ q = [a EXCEPT !.late = TRUE]
  BY PostNet DEF SessionInv, a
<1>3. kind \in Handshake \ {"READY"}
  BY DEF Handshake
<1> QED
  BY <1>1, <1>2, <1>3, SentOK

\* Answering a packet of a handshake.
LEMMA HandshakeOK ==
  ASSUME SessionInv, MasterKeeps, DisplayKeeps, mode' = mode,
         NEW p \in net, p.counter = 0,
         NEW kind \in {"CHALLENGE", "PROOF", "READY"}, NEW to \in {"master", "display"},
         NEW s, s.client \in Nonces, s.server \in Nonces \cup {0},
         kind = "READY" => (master'.pending.server # 0 => s.server # master'.pending.server),
         Reply(p, Packet(kind, to, s, 0))
  PROVE  NetSound' /\ \A q \in net' : q \in net \/ (q \in Packets /\ PacketOK(q)')
<1> DEFINE a == Packet(kind, to, s, 0)
<1>1. Sent(a, kind, to, s.client, s.server)
      /\ Sent([a EXCEPT !.late = TRUE], kind, to, s.client, s.server)
  <2>1. kind \in Handshake \cup Counted /\ 0 \in 0 .. MaxCounter
    BY InvParts DEF Handshake
  <2> QED
    BY <2>1, PacketSent
<1> HIDE DEF a
<1>2. NetSound' /\ \A q \in net' : \/ q \in net \/ Again(q, p)
                                   \/ q = a \/ q = [a EXCEPT !.late = TRUE]
  BY ReplyNet DEF SessionInv, a
<1>3. \/ kind \in Handshake \ {"READY"}
      \/ master'.pending.server # 0 => s.server # master'.pending.server
  BY DEF Handshake
<1>4. Spent(p)
  BY DEF Spent
<1>5. ASSUME NEW q \in net', q \notin net
      PROVE  q \in Packets /\ PacketOK(q)'
  <2>1. CASE Again(q, p)
    BY <1>4, <2>1, AgainOK
  <2>2. CASE q = a \/ q = [a EXCEPT !.late = TRUE]
    BY <1>1, <1>3, <2>2, SentOK
  <2> QED
    BY <1>2, <1>5, <2>1, <2>2
<1> QED
  BY <1>2, <1>5

\* Sending a packet of a session.
LEMMA SendOK ==
  ASSUME SessionInv, mode' = mode,
         NEW kind \in Counted, NEW to \in {"master", "display"},
         NEW s \in Session, s.client \in Nonces,
         master'.pending.server # 0 => s.server # master'.pending.server,
         Send(s, kind, to)
  PROVE  NetSound' /\ \A q \in net' : q \in net \/ (q \in Packets /\ PacketOK(q)')
<1>0. /\ s.server \in Nonces \cup {0} /\ s.tx \in 0 .. MaxCounter /\ MaxCounter \in Nat
      /\ kind \notin Handshake
  BY InvParts DEF Session, Handshake, Counted
<1>1. CASE s.tx = MaxCounter
  BY <1>1, SameNet DEF Send, SessionInv
<1>2. CASE s.tx # MaxCounter
  <2> DEFINE a == Packet(kind, to, s, s.tx + 1)
  <2>1. Post(net, a)
    BY <1>2 DEF Send
  <2>2. s.tx + 1 \in 0 .. MaxCounter
    BY <1>0, <1>2
  <2>3. /\ Sent(a, kind, to, s.client, s.server)
        /\ Sent([a EXCEPT !.late = TRUE], kind, to, s.client, s.server)
    BY <1>0, <2>2, PacketSent
  <2> HIDE DEF a
  <2>4. NetSound' /\ \A q \in net' : q \in net \/ q = a \/ q = [a EXCEPT !.late = TRUE]
    BY <2>1, PostNet DEF SessionInv
  <2> QED
    BY <2>3, <2>4, SentOK
<1> QED
  BY <1>1, <1>2

\* Answering one.
LEMMA AnswerOK ==
  ASSUME SessionInv, MasterKeeps, DisplayKeeps, mode' = mode, NEW p \in net, Spent(p),
         NEW kind \in Counted, NEW to \in {"master", "display"},
         NEW s \in Session, s.client \in Nonces,
         master'.pending.server # 0 => s.server # master'.pending.server,
         Answer(p, s, kind, to)
  PROVE  NetSound' /\ \A q \in net' : q \in net \/ (q \in Packets /\ PacketOK(q)')
<1>0. /\ s.server \in Nonces \cup {0} /\ s.tx \in 0 .. MaxCounter /\ MaxCounter \in Nat
      /\ kind \notin Handshake
  BY InvParts DEF Session, Handshake, Counted
<1>1. CASE s.tx = MaxCounter
  BY <1>1, TakeOK DEF Answer
<1>2. CASE s.tx # MaxCounter
  <2> DEFINE a == Packet(kind, to, s, s.tx + 1)
  <2>1. Reply(p, a)
    BY <1>2 DEF Answer
  <2>2. s.tx + 1 \in 0 .. MaxCounter
    BY <1>0, <1>2
  <2>3. /\ Sent(a, kind, to, s.client, s.server)
        /\ Sent([a EXCEPT !.late = TRUE], kind, to, s.client, s.server)
    BY <1>0, <2>2, PacketSent
  <2> HIDE DEF a
  <2>4. NetSound' /\ \A q \in net' : \/ q \in net \/ Again(q, p)
                                     \/ q = a \/ q = [a EXCEPT !.late = TRUE]
    BY <2>1, ReplyNet DEF SessionInv
  <2>5. ASSUME NEW q \in net', q \notin net
        PROVE  q \in Packets /\ PacketOK(q)'
    <3>1. CASE Again(q, p)
      BY <3>1, AgainOK
    <3>2. CASE q = a \/ q = [a EXCEPT !.late = TRUE]
      BY <2>3, <3>2, SentOK
    <3> QED
      BY <2>4, <2>5, <3>1, <3>2
  <2> QED
    BY <2>4, <2>5
<1> QED
  BY <1>1, <1>2

(***************************************************************************)
(* The steps.                                                              *)
(***************************************************************************)

\* The display resets its session, or keeps the one it has, with flags of its own.
LEMMA ResetKeeps ==
  ASSUME SessionInv, NEW d \in Displays, display' = Reset(d)
  PROVE  DisplayKeeps /\ ~display'.s.conn /\ display'.s.client = 0
<1>1. Unconnected \in Session
  BY InvParts DEF Unconnected, Session
<1> QED
  BY <1>1, InvParts DEF Reset, Unconnected, DisplayKeeps, Displays

\* Counting a packet the display sends is going on or giving the session up.
LEMMA CountsKeeps ==
  ASSUME SessionInv, NEW d \in Displays, display' = DisplayCounts(d),
         display.s.conn, Resumes(display.s, d.s), d.s.conn
  PROVE  /\ DisplayKeeps
         /\ display'.s.conn => /\ display'.s.server = display.s.server
                               /\ display'.s.rx = d.s.rx
         /\ ~display'.s.conn => display'.s.client = 0
<1>1. CASE d.s.tx = MaxCounter
  BY <1>1, ResetKeeps DEF DisplayCounts
<1>2. CASE d.s.tx # MaxCounter
  <2>1. display' = [d EXCEPT !.s.tx = @ + 1]
    BY <1>2 DEF DisplayCounts
  <2>2. d.s \in Session /\ d.s.tx + 1 \in 0 .. MaxCounter
    BY <1>2, InvParts DEF Displays, Session
  <2>3. display' \in Displays /\ Resumes(display.s, display'.s) /\ display'.s.conn
        /\ display'.s.server = d.s.server /\ display'.s.rx = d.s.rx
        /\ display'.s.client = d.s.client /\ d.s.client = display.s.client
        /\ d.s.server = display.s.server
    BY <2>1, <2>2 DEF Displays, Session, Resumes
  <2> QED
    BY <2>3, InvParts DEF DisplayKeeps
<1> QED
  BY <1>1, <1>2

\* The master gives its session up.
LEMMA DisconnectedKeeps ==
  ASSUME SessionInv, NEW m \in Masters, m.pending = master.pending, master' = Disconnected(m)
  PROVE  /\ MasterKeeps /\ ~master'.s.conn /\ master'.s.server = 0
         /\ master'.pending = master.pending
<1>1. Unconnected \in Session
  BY InvParts DEF Unconnected, Session
<1> QED
  BY <1>1 DEF Disconnected, Unconnected, MasterKeeps, Masters

\* Counting a packet the master sends is going on or giving the session up.
LEMMA MasterCountsKeeps ==
  ASSUME SessionInv, NEW m \in Masters, m.pending = master.pending, master' = MasterCounts(m),
         master.s.conn, Resumes(master.s, m.s), m.s.conn
  PROVE  /\ MasterKeeps /\ master'.pending = master.pending
         /\ master'.s.server \in {0, master.s.server}
         /\ master'.s.conn => master'.s.rx = m.s.rx
<1>1. CASE m.s.tx = MaxCounter
  BY <1>1, DisconnectedKeeps DEF MasterCounts
<1>2. CASE m.s.tx # MaxCounter
  <2>1. master' = [m EXCEPT !.s.tx = @ + 1]
    BY <1>2 DEF MasterCounts
  <2>2. m.s \in Session /\ m.s.tx + 1 \in 0 .. MaxCounter
    BY <1>2, InvParts DEF Masters, Session
  <2>3. master' \in Masters /\ Resumes(master.s, master'.s) /\ master'.s.conn
        /\ master'.s.server = m.s.server /\ master'.s.rx = m.s.rx
        /\ master'.s.client = m.s.client /\ m.s.client = master.s.client
        /\ m.s.server = master.s.server /\ master'.pending = m.pending
    BY <2>1, <2>2 DEF Masters, Session, Resumes
  <2> QED
    BY <2>3, InvParts DEF MasterKeeps
<1> QED
  BY <1>1, <1>2

\* The timers of the display, and the cable's.
LEMMA DisplayTimerStep ==
  SessionInv /\ (Unblock \/ ChallengeAges \/ DisplayExpires) => SessionInv'
<1> SUFFICES ASSUME SessionInv, Unblock \/ ChallengeAges \/ DisplayExpires PROVE SessionInv'
  OBVIOUS
<1>1. UNCHANGED <<mode, cable, master, net, faults, answered>>
  BY DEF Unblock, ChallengeAges, DisplayExpires
<1>2. DisplayKeeps /\ (display'.s.conn => display' .s = display.s)
  <2>1. CASE Unblock \/ ChallengeAges
    <3>1. display' \in Displays /\ display'.s = display.s
      BY <2>1, InvParts DEF Unblock, ChallengeAges, Displays
    <3> QED
      BY <3>1, DisplaySame
  <2>2. CASE DisplayExpires
    BY <2>2, InvParts, ResetKeeps DEF DisplayExpires
  <2> QED
    BY <2>1, <2>2
<1>3. MasterKeeps /\ PendingIsFresh'
  BY <1>1, <1>2, MasterSame, PendingStays DEF SessionInv, PendingIsFresh
<1>4. NetSound' /\ \A q \in net' : q \in net
  BY <1>1, SameNet DEF SessionInv
<1> QED
  BY <1>1, <1>2, <1>3, <1>4, InvParts, KeepStep

\* HELLO, or the PROOF once more.
LEMMA HelloStep == SessionInv /\ Hello => SessionInv'
<1> SUFFICES ASSUME SessionInv, Hello PROVE SessionInv'
  OBVIOUS
<1> DEFINE s == IF display.s.client = 0 \/ display.stale
                THEN [Unconnected EXCEPT !.client = clientNonce] ELSE display.s
           kind == IF s.server # 0 THEN "PROOF" ELSE "HELLO"
<1>1. /\ ~display.s.conn /\ display' = [display EXCEPT !.s = s, !.stale = FALSE]
      /\ Post(net, Packet(kind, "master", s, 0))
      /\ UNCHANGED <<mode, cable, master, answered>>
  BY DEF Hello
<1>2. /\ s \in Session /\ s.client \in Nonces /\ ~s.conn
      /\ \/ s.client = display.s.client
         \/ \A q \in net : q.client # s.client
  <2>1. CASE display.s.client = 0 \/ display.stale
    <3>1. clientNonce \in Nonces /\ \A q \in net : q.client # clientNonce
      BY ClientNonceIsFresh DEF SessionInv
    <3>2. s = [conn |-> FALSE, client |-> clientNonce, server |-> 0, rx |-> 0, tx |-> 0]
      BY <2>1 DEF Unconnected
    <3>3. 0 \in 0 .. MaxCounter
      BY InvParts
    <3> HIDE DEF s
    <3> QED
      BY <3>1, <3>2, <3>3 DEF Session
  <2>2. CASE ~ (display.s.client = 0 \/ display.stale)
    BY <1>1, <2>2, InvParts DEF Displays, Session
  <2> QED
    BY <2>1, <2>2
<1> HIDE DEF s
<1>3. s.server \in Nonces \cup {0}
  BY <1>2 DEF Session
<1>4. display' \in Displays /\ display'.s = s
  BY <1>1, <1>2, InvParts DEF Displays
<1>5. DisplayKeeps /\ ~display'.s.conn
  BY <1>1, <1>2, <1>4 DEF DisplayKeeps
<1>6. MasterKeeps /\ PendingIsFresh'
  BY <1>1, <1>5, MasterSame, PendingStays
<1>7. kind \in {"HELLO", "PROOF"}
  OBVIOUS
<1> HIDE DEF kind
<1>8. NetSound' /\ \A q \in net' : q \in net \/ (q \in Packets /\ PacketOK(q)')
  BY <1>1, <1>2, <1>3, <1>7, PostOK
<1> QED
  BY <1>1, <1>5, <1>6, <1>8, InvParts, KeepStep

\* What the display receives of a handshake.
LEMMA ChallengeStep ==
  ASSUME SessionInv, NEW p \in net, Challenge(p)
  PROVE  SessionInv'
<1>1. /\ p.kind = "CHALLENGE" /\ ~display.s.conn /\ p.client = display.s.client
      /\ display' = [display EXCEPT !.s.server = p.server, !.stale = FALSE]
      /\ Reply(p, Packet("PROOF", "master", p, 0))
      /\ UNCHANGED <<mode, cable, master, answered>>
  BY DEF Challenge, Challenges
<1>2. p.client \in Nonces /\ p.server \in Nonces \cup {0} /\ p.counter = 0
  BY <1>1, InvParts DEF Packets, PacketOK, Handshake
<1>3. display' \in Displays /\ ~display'.s.conn /\ display'.s.client = display.s.client
  BY <1>1, <1>2, InvParts DEF Displays, Session
<1>4. DisplayKeeps
  BY <1>1, <1>3 DEF DisplayKeeps
<1>5. MasterKeeps /\ PendingIsFresh'
  BY <1>1, <1>3, MasterSame, PendingStays
<1>6. NetSound' /\ \A q \in net' : q \in net \/ (q \in Packets /\ PacketOK(q)')
  BY <1>1, <1>2, <1>4, <1>5, HandshakeOK
<1> QED
  BY <1>1, <1>4, <1>5, <1>6, InvParts, KeepStep

\* With READY the display enters a session of which it has received nothing.
LEMMA ReadyStep ==
  ASSUME SessionInv, NEW p \in net, Ready(p)
  PROVE  SessionInv'
<1>1. /\ p.kind = "READY" /\ ~display.s.conn
      /\ p.client = display.s.client /\ p.server = display.s.server
      /\ display' = [display EXCEPT !.s.conn = TRUE, !.s.rx = 0, !.s.tx = 0,
                                    !.stale = FALSE, !.beat = TRUE]
      /\ Take(p)
      /\ UNCHANGED <<mode, cable, master, answered>>
  BY DEF Ready, Confirms
<1>2. p.client \in Nonces /\ p.client # 0 /\ p.counter = 0 /\ Unconfirmed(p)
  BY <1>1, InvParts DEF Packets, PacketOK, Handshake
<1>3. /\ display' \in Displays /\ display'.s.conn /\ display'.s.client = display.s.client
      /\ display'.s.server = display.s.server
  <2>1. 0 \in 0 .. MaxCounter
    BY InvParts
  <2> QED
    BY <1>1, <2>1, InvParts DEF Displays, Session
<1>4. DisplayKeeps
  BY <1>1, <1>2, <1>3 DEF DisplayKeeps
<1>5. MasterKeeps
  BY <1>1, MasterSame
<1>6. PendingIsFresh'
  BY <1>1, <1>2, <1>3 DEF SessionInv, PendingIsFresh, Unconfirmed
<1>7. NetSound' /\ \A q \in net' : q \in net \/ (q \in Packets /\ PacketOK(q)')
  BY <1>1, <1>2, <1>4, <1>5, TakeOK DEF Spent
<1> QED
  BY <1>1, <1>4, <1>5, <1>6, <1>7, InvParts, KeepStep

\* The display's heartbeat.
LEMMA HeartbeatStep == SessionInv /\ Heartbeat => SessionInv'
<1> SUFFICES ASSUME SessionInv, Heartbeat PROVE SessionInv'
  OBVIOUS
<1> DEFINE d == [display EXCEPT !.beat = FALSE]
<1>1. /\ display.s.conn /\ display' = DisplayCounts(d)
      /\ Send(display.s, "KEEPALIVE", "master")
      /\ UNCHANGED <<mode, cable, master, answered>>
  BY DEF Heartbeat
<1>2. d \in Displays /\ d.s = display.s /\ display.s \in Session /\ display.s.rx \in Nat
  <2>1. d \in Displays /\ d.s = display.s /\ display.s \in Session
    BY InvParts DEF Displays
  <2>2. display.s.rx \in Nat
    BY <2>1, InvParts DEF Session
  <2> QED
    BY <2>1, <2>2
<1>3. Resumes(display.s, d.s) /\ d.s.conn
  BY <1>1, <1>2 DEF Resumes
<1> HIDE DEF d
<1>4. DisplayKeeps /\ (display'.s.conn => display'.s.server = display.s.server)
  BY <1>1, <1>2, <1>3, CountsKeeps
<1>5. MasterKeeps /\ PendingIsFresh'
  BY <1>1, <1>4, MasterSame, PendingStays
<1>6. master'.pending.server # 0 => display.s.server # master'.pending.server
  BY <1>1 DEF SessionInv, PendingIsFresh
<1>7. NetSound' /\ \A q \in net' : q \in net \/ (q \in Packets /\ PacketOK(q)')
  <2>1. display.s.client \in Nonces /\ "KEEPALIVE" \in Counted
    BY <1>1, InvParts DEF Counted
  <2> QED
    BY <1>1, <1>2, <1>6, <2>1, SendOK
<1> QED
  BY <1>1, <1>4, <1>5, <1>7, InvParts, KeepStep

\* What the display receives of a session.
LEMMA DisplayReceivesStep ==
  ASSUME SessionInv, NEW p \in net, p.to = "display",
         DisplayAlive(p) \/ DisplayData(p) \/ DisplayLeaves(p)
  PROVE  SessionInv'
<1> DEFINE d == [display EXCEPT !.s.rx = p.counter]
<1>1. /\ InSession(p, display.s) /\ display.s.conn /\ p.counter > display.s.rx
      /\ UNCHANGED <<mode, cable, master, answered>>
  BY DEF DisplayAlive, DisplayData, DisplayLeaves, InSession
<1>2. p.counter \in 0 .. MaxCounter /\ display.s \in Session /\ display.s.rx \in Nat
  BY InvParts DEF Packets, Displays, Session
<1>3. /\ d \in Displays /\ d.s.conn /\ d.s.rx = p.counter /\ Resumes(display.s, d.s)
      /\ d.s.server = display.s.server
  BY <1>1, <1>2, InvParts DEF Displays, Session, Resumes
<1>4. MasterKeeps
  BY <1>1, MasterSame
<1>5. CASE DisplayAlive(p)
  <2>1. display' = d /\ Take(p)
    BY <1>5 DEF DisplayAlive
  <2>2. display'.s.conn /\ display'.s.client = display.s.client
    BY <1>3, <2>1 DEF Resumes
  <2>3. DisplayKeeps
    BY <1>1, <1>3, <2>1, <2>2, InvParts DEF DisplayKeeps
  <2>4. Spent(p)
    BY <1>2, <1>3, <2>1, <2>2 DEF Spent
  <2>5. PendingIsFresh'
    BY <1>1, <1>3, <2>1, PendingStays
  <2> QED
    BY <1>1, <1>4, <2>1, <2>3, <2>4, <2>5, TakeOK, InvParts, KeepStep
<1>6. CASE DisplayData(p)
  <2>1. display' = DisplayCounts(d) /\ Answer(p, display.s, "DATA", "master")
    BY <1>6 DEF DisplayData
  <2> HIDE DEF d
  <2>2. /\ DisplayKeeps
        /\ display'.s.conn => /\ display'.s.server = display.s.server
                              /\ display'.s.rx = d.s.rx
        /\ ~display'.s.conn => display'.s.client = 0
    BY <1>1, <1>3, <2>1, CountsKeeps
  <2>3. Spent(p)
    BY <1>2, <1>3, <2>2 DEF Spent
  <2>4. PendingIsFresh'
    BY <1>1, <2>2, PendingStays
  <2>5. master'.pending.server # 0 => display.s.server # master'.pending.server
    BY <1>1 DEF SessionInv, PendingIsFresh
  <2>6. display.s.client \in Nonces /\ "DATA" \in Counted
    BY <1>1, InvParts DEF Counted
  <2>7. NetSound' /\ \A q \in net' : q \in net \/ (q \in Packets /\ PacketOK(q)')
    BY <1>1, <1>2, <1>4, <2>1, <2>2, <2>3, <2>5, <2>6, AnswerOK
  <2> QED
    BY <1>1, <1>4, <2>2, <2>4, <2>7, InvParts, KeepStep
<1>7. CASE DisplayLeaves(p)
  <2> DEFINE e == [display EXCEPT !.wired = TRUE]
  <2>1. display' = Reset(e) /\ e \in Displays /\ Take(p)
    BY <1>7, InvParts DEF DisplayLeaves, Reset, Displays
  <2> HIDE DEF e
  <2>2. DisplayKeeps /\ ~display'.s.conn /\ display'.s.client = 0
    BY <2>1, ResetKeeps
  <2>3. Spent(p)
    BY <2>2 DEF Spent
  <2>4. PendingIsFresh'
    BY <1>1, <2>2, PendingStays
  <2> QED
    BY <1>1, <1>4, <2>1, <2>2, <2>3, <2>4, TakeOK, InvParts, KeepStep
<1> QED
  BY <1>5, <1>6, <1>7

\* The timers of the master.
LEMMA MasterTimerStep ==
  SessionInv /\ (PendingAges \/ MasterExpires) => SessionInv'
<1> SUFFICES ASSUME SessionInv, PendingAges \/ MasterExpires PROVE SessionInv'
  OBVIOUS
<1>1. UNCHANGED <<mode, cable, display, net, faults, answered>>
  BY DEF PendingAges, MasterExpires
<1>2. /\ MasterKeeps
      /\ master'.s.server \in {0, master.s.server}
      /\ master'.pending.server \in {0, master.pending.server}
  <2>1. CASE PendingAges
    <3>1. /\ master' = [master EXCEPT !.pending = NotPending]
          /\ master' \in Masters /\ master'.s = master.s /\ master'.pending.server = 0
      BY <2>1, InvParts DEF PendingAges, NotPending, Masters
    <3>2. Resumes(master.s, master'.s)
      BY <3>1, InvParts DEF Resumes, Masters, Session
    <3> QED
      BY <3>1, <3>2, InvParts DEF MasterKeeps
  <2>2. CASE MasterExpires
    BY <2>2, InvParts, DisconnectedKeeps DEF MasterExpires
  <2> QED
    BY <2>1, <2>2
<1>3. DisplayKeeps
  BY <1>1, InvParts, DisplaySame
<1>4. PendingIsFresh'
  BY <1>1, <1>2, PendingStays
<1>5. NetSound' /\ \A q \in net' : q \in net
  BY <1>1, SameNet DEF SessionInv
<1> QED
  BY <1>1, <1>2, <1>3, <1>4, <1>5, InvParts, KeepStep

\* A new handshake gets a server number of its own.
LEMMA MasterHelloStep ==
  ASSUME SessionInv, NEW p \in net, MasterHello(p)
  PROVE  SessionInv'
<1> DEFINE pending == IF master.pending.client # p.client
                      THEN [client |-> p.client, server |-> serverNonce] ELSE master.pending
<1>1. /\ p.kind = "HELLO" /\ master' = [master EXCEPT !.pending = pending]
      /\ Reply(p, Packet("CHALLENGE", "display", pending, 0))
      /\ UNCHANGED <<mode, cable, display, answered>>
  BY DEF MasterHello
<1>2. p.client \in Nonces /\ p.counter = 0
  BY <1>1, InvParts DEF Packets, PacketOK, Handshake
<1>3. /\ serverNonce \in Nonces /\ \A q \in net : q.server # serverNonce
      /\ serverNonce # master.s.server /\ serverNonce # display.s.server
  BY ServerNonceIsFresh DEF SessionInv
<1>4. /\ pending \in [client : Nonces \cup {0}, server : Nonces \cup {0}]
      /\ pending.client = p.client
      /\ \/ pending.server = master.pending.server
         \/ pending.server = serverNonce
  BY <1>2, <1>3, InvParts DEF Masters
<1> HIDE DEF pending
<1>5. master' \in Masters /\ master'.s = master.s /\ master'.pending = pending
  BY <1>1, <1>4, InvParts DEF Masters
<1>6. MasterKeeps
  <2>1. Resumes(master.s, master'.s)
    BY <1>5, InvParts DEF Resumes, Masters, Session
  <2> QED
    BY <1>3, <1>4, <1>5, <2>1, InvParts DEF MasterKeeps
<1>7. DisplayKeeps
  BY <1>1, InvParts, DisplaySame
<1>8. PendingIsFresh'
  BY <1>1, <1>3, <1>4, <1>5 DEF SessionInv, PendingIsFresh
<1>9. NetSound' /\ \A q \in net' : q \in net \/ (q \in Packets /\ PacketOK(q)')
  <2>1. pending.client \in Nonces /\ pending.server \in Nonces \cup {0}
    BY <1>2, <1>4
  <2> QED
    BY <1>1, <1>2, <1>6, <1>7, <2>1, HandshakeOK
<1> QED
  BY <1>1, <1>6, <1>7, <1>8, <1>9, InvParts, KeepStep

\* The master enters a session of which nothing has been received: its server number
\* is that of the handshake.
LEMMA ProofStep ==
  ASSUME SessionInv, NEW p \in net, Proof(p)
  PROVE  SessionInv'
<1>1. /\ p.kind = "PROOF"
      /\ p.client = master.pending.client /\ p.server = master.pending.server /\ p.server # 0
      /\ master' = [s |-> [Unconnected EXCEPT !.conn = TRUE, !.client = p.client,
                                              !.server = p.server],
                    pending |-> NotPending, probes |-> 0]
      /\ Reply(p, Packet("READY", "display", p, 0))
      /\ UNCHANGED <<mode, cable, display, answered>>
  BY DEF Proof, Proves
<1>2. p.client \in Nonces /\ p.client # 0 /\ p.server \in Nonces \cup {0} /\ p.counter = 0
  BY <1>1, InvParts DEF Packets, PacketOK, Handshake
<1>3. /\ master'.s = [conn |-> TRUE, client |-> p.client, server |-> p.server,
                      rx |-> 0, tx |-> 0]
      /\ master'.pending = [client |-> 0, server |-> 0]
  BY <1>1 DEF Unconnected, NotPending
<1>4. master' \in Masters
  <2>1. 0 \in 0 .. MaxCounter
    BY InvParts
  <2>2. [conn |-> TRUE, client |-> p.client, server |-> p.server, rx |-> 0, tx |-> 0] \in Session
    BY <1>2, <2>1 DEF Session
  <2>3. [client |-> 0, server |-> 0] \in [client : Nonces \cup {0}, server : Nonces \cup {0}]
    OBVIOUS
  <2>4. PICK t \in Session, h \in [client : Nonces \cup {0}, server : Nonces \cup {0}] :
          t = master'.s /\ h = master'.pending
    BY <1>3, <2>2, <2>3
  <2>5. master' = [s |-> t, pending |-> h, probes |-> 0]
    BY <1>1, <2>4
  <2> QED
    BY <2>5 DEF Masters
<1>5. MasterKeeps
  <2>1. \A q \in net : q.server = p.server => q.counter = 0
    BY <1>1, InvParts DEF PacketOK, Unconfirmed
  <2> QED
    BY <1>2, <1>3, <1>4, <2>1 DEF MasterKeeps
<1>6. DisplayKeeps
  BY <1>1, InvParts, DisplaySame
<1>7. PendingIsFresh'
  BY <1>3 DEF PendingIsFresh
<1>8. NetSound' /\ \A q \in net' : q \in net \/ (q \in Packets /\ PacketOK(q)')
  <2>1. master'.pending.server = 0
    BY <1>3
  <2> QED
    BY <1>1, <1>2, <1>5, <1>6, <2>1, HandshakeOK
<1> QED
  BY <1>1, <1>5, <1>6, <1>7, <1>8, InvParts, KeepStep

\* A PROOF that comes again, and a HELLO too early.
LEMMA ProofAgainStep ==
  ASSUME SessionInv, NEW p \in net, ProofAgain(p) \/ HelloRefused(p)
  PROVE  SessionInv'
<1>1. UNCHANGED <<mode, cable, master, display, answered>>
  BY DEF ProofAgain, HelloRefused
<1>2. MasterKeeps /\ DisplayKeeps
  BY <1>1, InvParts, MasterSame, DisplaySame
<1>3. PendingIsFresh'
  BY <1>1, PendingStays
<1>4. p.client \in Nonces /\ p.server \in Nonces \cup {0} /\ p.counter = 0
  BY InvParts DEF ProofAgain, Repeated, HelloRefused, Packets, PacketOK, Handshake
<1>5. NetSound' /\ \A q \in net' : q \in net \/ (q \in Packets /\ PacketOK(q)')
  <2>1. CASE ProofAgain(p)
    <3>1. Reply(p, Packet("READY", "display", p, 0)) /\ p.server = master.s.server
      BY <2>1 DEF ProofAgain, Repeated
    <3>2. master'.pending.server # 0 => p.server # master'.pending.server
      BY <1>1, <3>1 DEF SessionInv, PendingIsFresh
    <3> QED
      BY <1>1, <1>2, <1>4, <3>1, <3>2, HandshakeOK
  <2>2. CASE HelloRefused(p)
    BY <1>1, <1>2, <1>4, <2>2, TakeOK DEF HelloRefused, Spent
  <2> QED
    BY <2>1, <2>2
<1> QED
  BY <1>1, <1>2, <1>3, <1>5, InvParts, KeepStep

\* What the master receives of a session.
LEMMA MasterReceivesStep ==
  ASSUME SessionInv, NEW p \in net, p.to = "master",
         MasterAlive(p) \/ MasterData(p) \/ MasterLeaves(p)
  PROVE  SessionInv'
<1> DEFINE m == [master EXCEPT !.s.rx = p.counter]
<1>1. /\ InSession(p, master.s) /\ master.s.conn /\ p.counter > master.s.rx
      /\ UNCHANGED <<mode, cable, display>> /\ answered' \in BOOLEAN
  BY InvParts DEF MasterAlive, MasterData, MasterLeaves, InSession
<1>2. p.counter \in 0 .. MaxCounter /\ master.s \in Session /\ master.s.rx \in Nat
  BY InvParts DEF Packets, Masters, Session
<1>3. /\ m \in Masters /\ m.s.conn /\ m.s.rx = p.counter /\ Resumes(master.s, m.s)
      /\ m.s.server = master.s.server /\ m.pending = master.pending
  BY <1>1, <1>2, InvParts DEF Masters, Session, Resumes
<1>4. DisplayKeeps
  BY <1>1, InvParts, DisplaySame
<1>5. CASE MasterAlive(p)
  <2>1. master' = MasterCounts(m) /\ Answer(p, master.s, "KEEPALIVE", "display")
    BY <1>5 DEF MasterAlive
  <2> HIDE DEF m
  <2>2. /\ MasterKeeps /\ master'.pending = master.pending
        /\ master'.s.server \in {0, master.s.server}
        /\ master'.s.conn => master'.s.rx = m.s.rx
    BY <1>1, <1>3, <2>1, MasterCountsKeeps
  <2>3. Spent(p)
    BY <1>2, <1>3, <2>2 DEF Spent
  <2>4. PendingIsFresh'
    BY <1>1, <2>2, PendingStays
  <2>5. master'.pending.server # 0 => master.s.server # master'.pending.server
    BY <2>2 DEF SessionInv, PendingIsFresh
  <2>6. master.s.client \in Nonces /\ "KEEPALIVE" \in Counted
    BY <1>1, InvParts DEF Counted
  <2>7. NetSound' /\ \A q \in net' : q \in net \/ (q \in Packets /\ PacketOK(q)')
    BY <1>1, <1>2, <1>4, <2>1, <2>2, <2>3, <2>5, <2>6, AnswerOK
  <2> QED
    BY <1>1, <1>4, <2>2, <2>4, <2>7, KeepStep
<1>6. CASE MasterData(p)
  <2>1. master' = m /\ Take(p)
    BY <1>6 DEF MasterData
  <2>2. MasterKeeps
    BY <1>1, <1>3, <2>1, InvParts DEF MasterKeeps, Resumes
  <2>3. Spent(p)
    BY <1>2, <1>3, <2>1 DEF Spent
  <2>4. PendingIsFresh'
    BY <1>1, <1>3, <2>1, PendingStays
  <2> QED
    BY <1>1, <1>4, <2>1, <2>2, <2>3, <2>4, TakeOK, KeepStep
<1>7. CASE MasterLeaves(p)
  <2>1. master' = Disconnected(master) /\ Take(p)
    BY <1>7 DEF MasterLeaves
  <2>2. /\ MasterKeeps /\ ~master'.s.conn /\ master'.s.server = 0
        /\ master'.pending = master.pending
    BY <2>1, InvParts, DisconnectedKeeps
  <2>3. Spent(p)
    BY <2>2 DEF Spent
  <2>4. PendingIsFresh'
    BY <1>1, <2>2, PendingStays
  <2> QED
    BY <1>1, <1>4, <2>1, <2>2, <2>3, <2>4, TakeOK, KeepStep
<1> QED
  BY <1>5, <1>6, <1>7

\* A request over the WLAN.
LEMMA AskByWlanStep == SessionInv /\ AskByWlan => SessionInv'
<1> SUFFICES ASSUME SessionInv, AskByWlan PROVE SessionInv'
  OBVIOUS
<1>1. /\ master.s.conn /\ master' = MasterCounts(master)
      /\ Send(master.s, "DATA", "display")
      /\ display' = [display EXCEPT !.beat = display.s.conn]
      /\ UNCHANGED <<mode, cable>> /\ answered' \in BOOLEAN
  BY DEF AskByWlan
<1>2. /\ master.s \in Session /\ master.s.client \in Nonces
      /\ Resumes(master.s, master.s) /\ "DATA" \in Counted
  BY <1>1, InvParts DEF Masters, Session, Resumes, Counted
<1>3. /\ MasterKeeps /\ master'.pending = master.pending
      /\ master'.s.server \in {0, master.s.server}
  BY <1>1, <1>2, InvParts, MasterCountsKeeps
<1>4. display' \in Displays /\ display'.s = display.s
  BY <1>1, InvParts DEF Displays, Session
<1>5. DisplayKeeps /\ PendingIsFresh'
  BY <1>3, <1>4, DisplaySame, PendingStays
<1>6. master'.pending.server # 0 => master.s.server # master'.pending.server
  BY <1>3 DEF SessionInv, PendingIsFresh
<1>7. NetSound' /\ \A q \in net' : q \in net \/ (q \in Packets /\ PacketOK(q)')
  BY <1>1, <1>2, <1>6, SendOK
<1> QED
  BY <1>1, <1>3, <1>5, <1>7, KeepStep

\* A request over the cable.
LEMMA AskByCableStep == SessionInv /\ AskByCable => SessionInv'
<1> SUFFICES ASSUME SessionInv, AskByCable PROVE SessionInv'
  OBVIOUS
<1>1. /\ master' = Disconnected(master) /\ UNCHANGED <<mode, cable>> /\ answered' \in BOOLEAN
  BY DEF AskByCable
<1>2. /\ MasterKeeps /\ master'.s.server = 0 /\ master'.pending = master.pending
  BY <1>1, InvParts, DisconnectedKeeps
<1>3. CASE UNCHANGED <<display, net, faults>>
  <2>1. DisplayKeeps /\ PendingIsFresh'
    BY <1>2, <1>3, InvParts, DisplaySame, PendingStays
  <2>2. NetSound' /\ \A q \in net' : q \in net
    BY <1>1, <1>3, SameNet DEF SessionInv
  <2> QED
    BY <1>1, <1>2, <2>1, <2>2, KeepStep
<1>4. CASE /\ display' = [(IF display.s.conn THEN Reset(display) ELSE display)
                          EXCEPT !.wired = TRUE]
           /\ IF display.s.conn THEN Send(display.s, "LEAVE", "master")
                                ELSE UNCHANGED <<net, faults>>
  <2>1. CASE display.s.conn
    <3> DEFINE d == [display EXCEPT !.wired = TRUE]
    <3>1. display' = Reset(d) /\ d \in Displays
      BY <1>4, <2>1, InvParts DEF Reset, Displays
    <3> HIDE DEF d
    <3>2. DisplayKeeps /\ ~display'.s.conn
      BY <3>1, ResetKeeps
    <3>3. PendingIsFresh'
      BY <1>2, <3>2, PendingStays
    <3>4. display.s \in Session /\ display.s.client \in Nonces /\ "LEAVE" \in Counted
      BY <2>1, InvParts DEF Displays, Counted
    <3>5. master'.pending.server # 0 => display.s.server # master'.pending.server
      BY <1>2, <2>1 DEF SessionInv, PendingIsFresh
    <3>6. NetSound' /\ \A q \in net' : q \in net \/ (q \in Packets /\ PacketOK(q)')
      BY <1>1, <1>4, <2>1, <3>4, <3>5, SendOK
    <3> QED
      BY <1>1, <1>2, <3>2, <3>3, <3>6, KeepStep
  <2>2. CASE ~display.s.conn
    <3>1. display' \in Displays /\ display'.s = display.s
      BY <1>4, <2>2, InvParts DEF Displays
    <3>2. DisplayKeeps /\ PendingIsFresh'
      BY <1>2, <3>1, DisplaySame, PendingStays
    <3>3. NetSound' /\ \A q \in net' : q \in net
      BY <1>1, <1>4, <2>2, SameNet DEF SessionInv
    <3> QED
      BY <1>1, <1>2, <3>2, <3>3, KeepStep
  <2> QED
    BY <2>1, <2>2
<1> QED
  BY <1>3, <1>4 DEF AskByCable

\* A probe of the cable.
LEMMA ProbeStep == SessionInv /\ Probe => SessionInv'
<1> SUFFICES ASSUME SessionInv, Probe PROVE SessionInv'
  OBVIOUS
<1>1. master.s.conn /\ UNCHANGED <<mode, cable, answered>>
  BY DEF Probe
<1>2. PICK heard \in Heard :
        /\ display' = [display EXCEPT !.wired = @ \/ (heard /\ ~display.s.conn)]
        /\ IF ~heard \/ master.probes = 0
           THEN /\ master' = [master EXCEPT !.probes = IF heard THEN 1 ELSE 0]
                /\ UNCHANGED <<net, faults>>
           ELSE /\ master' = [Disconnected(master) EXCEPT !.probes = 0]
                /\ Send(master.s, "LEAVE", "display")
  BY DEF Probe
<1>3. display' \in Displays /\ display'.s = display.s
  BY <1>2, InvParts DEF Displays
<1>4. DisplayKeeps
  BY <1>3, DisplaySame
<1>5. CASE ~heard \/ master.probes = 0
  <2>1. master' \in Masters /\ master'.s = master.s /\ master'.pending = master.pending
    BY <1>2, <1>5, InvParts DEF Masters
  <2>2. Resumes(master.s, master'.s)
    BY <2>1, InvParts DEF Resumes, Masters, Session
  <2>3. MasterKeeps /\ PendingIsFresh'
    BY <1>3, <2>1, <2>2, InvParts, PendingStays DEF MasterKeeps
  <2>4. NetSound' /\ \A q \in net' : q \in net
    BY <1>1, <1>2, <1>5, SameNet DEF SessionInv
  <2> QED
    BY <1>1, <1>4, <2>3, <2>4, InvParts, KeepStep
<1>6. CASE ~ (~heard \/ master.probes = 0)
  <2> DEFINE m == [master EXCEPT !.probes = 0]
  <2>1. m \in Masters /\ m.pending = master.pending /\ master' = Disconnected(m)
    <3>1. m \in Masters /\ m.pending = master.pending
      BY InvParts DEF Masters
    <3>2. master = [s |-> master.s, pending |-> master.pending, probes |-> master.probes]
      BY InvParts DEF Masters
    <3>3. master' = [s |-> Unconnected, pending |-> master.pending, probes |-> 0]
      BY <1>2, <1>6, <3>2 DEF Disconnected
    <3>4. Disconnected(m) = [s |-> Unconnected, pending |-> master.pending, probes |-> 0]
      <4>1. m = [s |-> master.s, pending |-> master.pending, probes |-> 0]
        BY <3>2
      <4> HIDE DEF m
      <4> QED
        BY <4>1 DEF Disconnected
    <3> QED
      BY <3>1, <3>3, <3>4
  <2> HIDE DEF m
  <2>2. MasterKeeps /\ master'.s.server = 0 /\ master'.pending = master.pending
    BY <2>1, DisconnectedKeeps
  <2>3. PendingIsFresh'
    BY <1>3, <2>2, PendingStays
  <2>4. master.s \in Session /\ master.s.client \in Nonces /\ "LEAVE" \in Counted
    BY <1>1, InvParts DEF Masters, Counted
  <2>5. master'.pending.server # 0 => master.s.server # master'.pending.server
    BY <2>2 DEF SessionInv, PendingIsFresh
  <2>6. NetSound' /\ \A q \in net' : q \in net \/ (q \in Packets /\ PacketOK(q)')
    BY <1>1, <1>2, <1>6, <2>4, <2>5, SendOK
  <2> QED
    BY <1>1, <1>4, <2>2, <2>3, <2>6, InvParts, KeepStep
<1> QED
  BY <1>5, <1>6

\* What the WLAN does.
LEMMA WlanStep ==
  ASSUME SessionInv, (\E p \in net : Drop(p)) \/ Break
  PROVE  SessionInv'
<1>1. UNCHANGED <<mode, cable, answered>>
  BY DEF Drop, Break
<1>2. ASSUME NEW p \in net, Drop(p) PROVE SessionInv'
  <2>1. UNCHANGED <<master, display>>
    BY <1>2 DEF Drop
  <2>2. MasterKeeps /\ DisplayKeeps /\ PendingIsFresh'
    BY <2>1, InvParts, MasterSame, DisplaySame, PendingStays
  <2>3. NetSound' /\ \A q \in net' : q \in net
    BY <1>1, <1>2, DropNet DEF SessionInv
  <2> QED
    BY <1>1, <2>2, <2>3, InvParts, KeepStep
<1>3. CASE Break
  <2>1. NetSound' /\ \A q \in net' : q \in net
    BY <1>1, <1>3, SameNet DEF SessionInv, Break
  <2>2. CASE display' = Reset(display) /\ UNCHANGED master
    <3>1. DisplayKeeps /\ ~display'.s.conn
      BY <2>2, InvParts, ResetKeeps
    <3>2. MasterKeeps /\ PendingIsFresh'
      BY <2>2, <3>1, MasterSame, PendingStays
    <3> QED
      BY <1>1, <2>1, <3>1, <3>2, InvParts, KeepStep
  <2>3. CASE master' = Disconnected(master) /\ UNCHANGED display
    <3>1. MasterKeeps /\ master'.s.server = 0 /\ master'.pending = master.pending
      BY <2>3, InvParts, DisconnectedKeeps
    <3>2. DisplayKeeps /\ PendingIsFresh'
      BY <2>3, <3>1, InvParts, DisplaySame, PendingStays
    <3> QED
      BY <1>1, <2>1, <3>1, <3>2, InvParts, KeepStep
  <2> QED
    BY <1>3, <2>2, <2>3 DEF Break
<1> QED
  BY <1>2, <1>3

\* Every action keeps the invariant.
LEMMA SessionStep == SessionInv /\ [Next]_vars => SessionInv'
<1> SUFFICES ASSUME SessionInv, [Next]_vars PROVE SessionInv'
  OBVIOUS
<1>1. ASSUME NEW p \in net, DisplayReceives(p) PROVE SessionInv'
  BY <1>1, ChallengeStep, ReadyStep, DisplayReceivesStep DEF DisplayReceives
<1>2. ASSUME NEW p \in net, MasterReceives(p) PROVE SessionInv'
  BY <1>2, MasterHelloStep, ProofStep, ProofAgainStep, MasterReceivesStep DEF MasterReceives
<1>3. CASE Receive
  BY <1>1, <1>2, <1>3, WlanStep DEF Receive
<1>4. CASE Hello \/ Heartbeat \/ AskByWlan \/ AskByCable \/ Probe
  BY <1>4, HelloStep, HeartbeatStep, AskByWlanStep, AskByCableStep, ProbeStep
<1>5. CASE Unblock \/ ChallengeAges \/ PendingAges \/ DisplayExpires \/ MasterExpires
  BY <1>5, DisplayTimerStep, MasterTimerStep
<1>6. CASE Break
  BY <1>6, WlanStep
<1>7. CASE UNCHANGED vars
  BY <1>7 DEF vars, SessionInv, Typed, TypeOK, PendingIsFresh, NetInv, PacketOK, Unconfirmed,
              UnknownToDisplay, Accepts, InSession
<1> QED
  BY <1>3, <1>4, <1>5, <1>6, <1>7 DEF Next

\* At the start nothing is under way.
LEMMA SessionInit == Init => SessionInv
<1> SUFFICES ASSUME Init PROVE SessionInv
  OBVIOUS
<1>1. /\ 0 \in 0 .. MaxCounter /\ MaxPackets \in Nat /\ MaxFaults[mode] \in Nat
      /\ 0 \in 0 .. MaxFaults[mode]
  BY BoundsAssumption DEF Init
<1>2. IsFiniteSet(net) /\ Cardinality(net) = 0 /\ net = {}
  BY FS_EmptySet DEF Init
<1>3. TypeOK
  <2>1. Unconnected \in Session
    BY <1>1 DEF Unconnected, Session
  <2>2. NotPending \in [client : Nonces \cup {0}, server : Nonces \cup {0}]
    BY DEF NotPending
  <2>3. master \in Masters /\ display \in Displays
    BY <2>1, <2>2 DEF Init, Masters, Displays
  <2>4. Cardinality(net) <= MaxPackets /\ \A p \in net : p.counter \in 0 .. MaxCounter
    BY <1>1, <1>2
  <2>5. faults \in 0 .. MaxFaults[mode] /\ mode \in Modes /\ cable \in Cables
        /\ answered \in BOOLEAN
    BY <1>1 DEF Init
  <2> QED
    BY <2>3, <2>4, <2>5 DEF TypeOK, Masters, Displays
<1>4. Typed
  BY <1>2, <1>3 DEF Typed, Init, Unconnected
<1> QED
  BY <1>2, <1>4 DEF SessionInv, PendingIsFresh, NetInv, Init, NotPending

(***************************************************************************)
(* Theorems.                                                               *)
(***************************************************************************)

\* Counters, numbers and the buffer of the WLAN stay in their ranges: no packet is
\* ever sent with a counter beyond the last one, neither by an end that has used it up
\* nor by one that answers then.
THEOREM TypeCorrect == Spec => []TypeOK
<1>1. SessionInv => TypeOK
  BY DEF SessionInv, Typed
<1> QED
  BY <1>1, SessionInit, SessionStep, PTL DEF Spec

\* No packet of a session is accepted a second time, whatever is lost, late or comes
\* again, and however often the two ends begin anew: a session begins with a server
\* number no packet of a session has yet, and a client number the display has received
\* none with.
THEOREM NoReplayCorrect == Spec => []NoReplay
<1>1. SessionInv => NoReplay
  BY DEF SessionInv, NetInv, PacketOK, NoReplay
<1> QED
  BY <1>1, SessionInit, SessionStep, PTL DEF Spec

================================================================================
