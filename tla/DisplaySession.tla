----------------------------- MODULE DisplaySession -----------------------------
(***************************************************************************)
(* The wireless session between the master (MasterDisplayWifi) and one     *)
(* display (OfeDisplayWifi): HELLO, CHALLENGE, PROOF and READY set it up,  *)
(* counters protect it from packets that come twice or late, heartbeats    *)
(* keep it alive, and a display in automatic mode changes over to its      *)
(* cable when the master can reach it there.                               *)
(*                                                                         *)
(* Times are left out: what is sent arrives before the next timer runs     *)
(* out, unless it is late, and a timeout after the peer's silence is over  *)
(* eventually.  A fault loses a packet, delays it for any time, lets it    *)
(* come a second time, or ends a session; there are at most MaxFaults.     *)
(* Nonces are the least ones nobody holds and no packet carries;           *)
(* MaxCounter stands for UINT32_MAX.                                       *)
(***************************************************************************)
EXTENDS Integers, FiniteSets

CONSTANTS Modes,        \* of the display, in {"automatic", "wireless"}
          Nonces,       \* of the display, and of the master; there is always a fresh one
          Cables,       \* how its cable works, in {"up", "down", "flaky"}
          MaxCounter,
          MaxPackets,   \* on the WLAN
          MaxFaults     \* for each mode

ASSUME ModesAssumption == /\ Modes \subseteq {"automatic", "wireless"}
                          /\ Cables \subseteq {"up", "down", "flaky"}
ASSUME BoundsAssumption == /\ Nonces \subseteq Nat \ {0}
                           /\ IsFiniteSet(Nonces) /\ Cardinality(Nonces) > MaxPackets + 3
                           /\ MaxCounter \in Nat \ {0} /\ MaxPackets \in Nat \ {0}
                           /\ MaxFaults \in [Modes -> Nat]

VARIABLES mode, cable,
          master,     \* its Peer
          display,
          net,        \* packets on the WLAN
          faults,     \* so far
          answered    \* the display has answered the last request of the master

vars == <<mode, cable, master, display, net, faults, answered>>

Unconnected == [conn |-> FALSE, client |-> 0, server |-> 0, rx |-> 0, tx |-> 0]
NotPending == [client |-> 0, server |-> 0]

\* stale: the challenge is older than 5 s.  beat: the heartbeat is due.  wired: the display
\* has been asked over its cable within the last 3.5 s.
Init == /\ mode \in Modes /\ cable \in Cables
        /\ mode = "wireless" => cable = "down"
        /\ master = [s |-> Unconnected, pending |-> NotPending, probes |-> 0]
        /\ display = [s |-> Unconnected, stale |-> FALSE, beat |-> FALSE, wired |-> FALSE]
        /\ net = {}
        /\ faults = 0
        /\ answered = FALSE

---------------------------------------------------------------------------------
\* Packets

Packet(kind, to, s, counter) ==
    [kind |-> kind, to |-> to, client |-> s.client, server |-> s.server, counter |-> counter,
     late |-> FALSE, used |-> FALSE]

Least(S) == CHOOSE n \in S : \A k \in S : n <= k

clientNonce == Least(Nonces \ ({master.s.client, master.pending.client, display.s.client}
                               \cup {p.client : p \in net}))
serverNonce == Least(Nonces \ ({master.s.server, master.pending.server, display.s.server}
                               \cup {p.server : p \in net}))

Fault == faults < MaxFaults[mode] /\ faults' = faults + 1

\* Sending p while others are under way; a full buffer drops it.
Post(others, p) ==
    \/ /\ net' = IF Cardinality(others) < MaxPackets THEN others \cup {p} ELSE others
       /\ UNCHANGED faults
    \/ /\ Cardinality(others) < MaxPackets
       /\ net' \in {others, others \cup {[p EXCEPT !.late = TRUE]}}
       /\ Fault

\* Receiving p; it may come again.
Take(p) == \/ net' = net \ {p} /\ UNCHANGED faults
           \/ net' = (net \ {p}) \cup {[p EXCEPT !.late = TRUE, !.used = TRUE]} /\ Fault

\* Receiving p and sending an answer.
Reply(p, answer) ==
    \/ Post(net \ {p}, answer)
    \/ /\ net' = (net \ {p}) \cup {answer, [p EXCEPT !.late = TRUE, !.used = TRUE]}
       /\ Cardinality(net') <= MaxPackets
       /\ Fault

InSession(p, s) == /\ s.conn /\ s.server # 0
                   /\ p.client = s.client /\ p.server = s.server
                   /\ p.counter > s.rx

\* poll() leaves the WLAN alone for 3.5 s after a request over the cable.
Listens == ~(mode = "automatic" /\ display.wired)

\* Nobody could use p any more.
Over(p) == p.kind # "HELLO" /\ p.client \notin {display.s.client, master.s.client, master.pending.client}

\* What is not late has arrived, and what is over has been dropped.
Quiet == \A p \in net : ~Over(p) /\ (p.late \/ (p.to = "display" /\ ~Listens))

InTouch == /\ master.s.conn /\ display.s.conn
           /\ master.s.client = display.s.client /\ master.s.server = display.s.server

\* send() gives a session up at the last counter.
Send(s, kind, to) ==
    IF s.tx = MaxCounter THEN UNCHANGED <<net, faults>> ELSE Post(net, Packet(kind, to, s, s.tx + 1))

Answer(p, s, kind, to) ==
    IF s.tx = MaxCounter THEN Take(p) ELSE Reply(p, Packet(kind, to, s, s.tx + 1))

---------------------------------------------------------------------------------
\* The display

Unblock == /\ display.wired
           /\ display' = [display EXCEPT !.wired = FALSE]
           /\ UNCHANGED <<mode, cable, master, net, faults, answered>>

Reset(d) == [d EXCEPT !.s = Unconnected, !.stale = FALSE, !.beat = FALSE]

DisplayCounts(d) == IF d.s.tx = MaxCounter THEN Reset(d) ELSE [d EXCEPT !.s.tx = @ + 1]

\* A challenge is never given up.
HelloKeepsServer ==
    /\ ~display.s.conn /\ Listens /\ Quiet
    /\ LET s == [display.s EXCEPT !.client = IF @ = 0 THEN clientNonce ELSE @]
       IN  /\ display' = [display EXCEPT !.s = s, !.stale = FALSE]
           /\ Post(net, Packet(IF s.server # 0 THEN "PROOF" ELSE "HELLO", "master", s, 0))
    /\ UNCHANGED <<mode, cable, master, answered>>

\* Once a second: HELLO with a client number, PROOF once challenged, until the challenge
\* is too old.
Hello ==
    /\ ~display.s.conn /\ Listens /\ Quiet
    /\ LET s == IF display.s.client = 0 \/ display.stale
                THEN [Unconnected EXCEPT !.client = clientNonce] ELSE display.s
       IN  /\ display' = [display EXCEPT !.s = s, !.stale = FALSE]
           /\ Post(net, Packet(IF s.server # 0 THEN "PROOF" ELSE "HELLO", "master", s, 0))
    /\ UNCHANGED <<mode, cable, master, answered>>

ChallengeAges ==
    /\ ~display.s.conn /\ display.s.server # 0 /\ ~display.stale /\ Quiet
    /\ display' = [display EXCEPT !.stale = TRUE]
    /\ UNCHANGED <<mode, cable, master, net, faults, answered>>

Challenges(p) == ~display.s.conn /\ p.client = display.s.client

Challenge(p) ==
    /\ p.kind = "CHALLENGE" /\ Listens /\ Challenges(p)
    /\ display' = [display EXCEPT !.s.server = p.server, !.stale = FALSE]
    /\ Reply(p, Packet("PROOF", "master", p, 0))
    /\ UNCHANGED <<mode, cable, master, answered>>

Confirms(p) == /\ ~display.s.conn /\ display.s.server # 0
               /\ p.client = display.s.client /\ p.server = display.s.server

Ready(p) ==
    /\ p.kind = "READY" /\ Listens /\ Confirms(p)
    /\ display' = [display EXCEPT !.s.conn = TRUE, !.s.rx = 0, !.s.tx = 0,
                                  !.stale = FALSE, !.beat = TRUE]
    /\ Take(p)
    /\ UNCHANGED <<mode, cable, master, answered>>

Heartbeat ==
    /\ display.s.conn /\ display.beat /\ Listens /\ Quiet
    /\ display' = DisplayCounts([display EXCEPT !.beat = FALSE])
    /\ Send(display.s, "KEEPALIVE", "master")
    /\ UNCHANGED <<mode, cable, master, answered>>

DisplayAlive(p) ==
    /\ p.kind = "KEEPALIVE" /\ Listens /\ InSession(p, display.s)
    /\ display' = [display EXCEPT !.s.rx = p.counter]
    /\ Take(p)
    /\ UNCHANGED <<mode, cable, master, answered>>

\* A request of the master, and its answer.
DisplayData(p) ==
    /\ p.kind = "DATA" /\ Listens /\ InSession(p, display.s)
    /\ display' = DisplayCounts([display EXCEPT !.s.rx = p.counter])
    /\ Answer(p, display.s, "DATA", "master")
    /\ UNCHANGED <<mode, cable, master, answered>>

DisplayLeaves(p) ==
    /\ p.kind = "LEAVE" /\ Listens /\ InSession(p, display.s)
    /\ display' = [Reset(display) EXCEPT !.wired = TRUE]
    /\ Take(p)
    /\ UNCHANGED <<mode, cable, master, answered>>

DisplayExpires ==
    /\ display.s.conn /\ Listens /\ Quiet /\ ~InTouch
    /\ display' = Reset(display)
    /\ UNCHANGED <<mode, cable, master, net, faults, answered>>

DisplayReceives(p) == /\ p.to = "display"
                      /\ \/ Challenge(p) \/ Ready(p)
                         \/ DisplayAlive(p) \/ DisplayData(p) \/ DisplayLeaves(p)

---------------------------------------------------------------------------------
\* The master

\* A session of which nothing was heard for 3 s does not keep its display from a new one.
MasterHello(p) ==
    /\ p.kind = "HELLO"
    /\ LET pending == IF master.pending.client # p.client
                      THEN [client |-> p.client, server |-> serverNonce] ELSE master.pending
       IN  /\ master' = [master EXCEPT !.pending = pending]
           /\ Reply(p, Packet("CHALLENGE", "display", pending, 0))
    /\ UNCHANGED <<mode, cable, display, answered>>

\* Within 3 s it does.
HelloRefused(p) ==
    /\ p.kind = "HELLO" /\ master.s.conn
    /\ Take(p)
    /\ UNCHANGED <<mode, cable, master, display, answered>>

\* The display has 5 s for its proof.
PendingAges ==
    /\ master.pending # NotPending /\ Quiet
    /\ master' = [master EXCEPT !.pending = NotPending]
    /\ UNCHANGED <<mode, cable, display, net, faults, answered>>

Proves(p) == /\ p.client = master.pending.client /\ p.server = master.pending.server
             /\ p.server # 0

\* The new session replaces the one there was.
Proof(p) ==
    /\ p.kind = "PROOF" /\ Proves(p)
    /\ master' = [s |-> [Unconnected EXCEPT !.conn = TRUE, !.client = p.client, !.server = p.server],
                  pending |-> NotPending, probes |-> 0]
    /\ Reply(p, Packet("READY", "display", p, 0))
    /\ UNCHANGED <<mode, cable, display, answered>>

Repeated(p) == /\ p.kind = "PROOF" /\ ~Proves(p)
               /\ master.s.conn /\ p.client = master.s.client /\ p.server = master.s.server

\* The session starts from the beginning.
ProofAgainResets(p) ==
    /\ Repeated(p)
    /\ master' = [master EXCEPT !.s.rx = 0, !.s.tx = 0]
    /\ Reply(p, Packet("READY", "display", p, 0))
    /\ UNCHANGED <<mode, cable, display, answered>>

\* READY was lost: only it is repeated.
ProofAgain(p) ==
    /\ Repeated(p)
    /\ Reply(p, Packet("READY", "display", p, 0))
    /\ UNCHANGED <<mode, cable, master, display, answered>>

Disconnected(m) == [m EXCEPT !.s = Unconnected]

\* The session is not given up at the last counter.
MasterCountsOn(m) == [m EXCEPT !.s.tx = @ + 1]

MasterCounts(m) == IF m.s.tx = MaxCounter THEN Disconnected(m) ELSE [m EXCEPT !.s.tx = @ + 1]

MasterAlive(p) ==
    /\ p.kind = "KEEPALIVE" /\ InSession(p, master.s)
    /\ master' = MasterCounts([master EXCEPT !.s.rx = p.counter])
    /\ Answer(p, master.s, "KEEPALIVE", "display")
    /\ UNCHANGED <<mode, cable, display, answered>>

MasterData(p) ==
    /\ p.kind = "DATA" /\ InSession(p, master.s)
    /\ master' = [master EXCEPT !.s.rx = p.counter]
    /\ answered' = TRUE
    /\ Take(p)
    /\ UNCHANGED <<mode, cable, display>>

MasterLeaves(p) ==
    /\ p.kind = "LEAVE" /\ InSession(p, master.s)
    /\ master' = Disconnected(master)
    /\ Take(p)
    /\ UNCHANGED <<mode, cable, display, answered>>

MasterExpires ==
    /\ master.s.conn /\ Quiet /\ ~InTouch
    /\ master' = Disconnected(master)
    /\ UNCHANGED <<mode, cable, display, net, faults, answered>>

MasterReceives(p) == /\ p.to = "master"
                     /\ \/ MasterHello(p) \/ HelloRefused(p) \/ Proof(p) \/ ProofAgain(p)
                        \/ MasterAlive(p) \/ MasterData(p) \/ MasterLeaves(p)

---------------------------------------------------------------------------------
\* Requests of the master: route() takes the WLAN while there is a session, and the bus
\* when there is none or its counter is used up.

\* Whether the display hears the bus, and is heard.
Heard == CASE cable = "up" -> {TRUE} [] cable = "down" -> {FALSE} [] OTHER -> BOOLEAN

AskByWlan ==
    /\ master.s.conn /\ master.s.tx < MaxCounter /\ Quiet
    /\ master' = MasterCounts(master)
    /\ Send(master.s, "DATA", "display")
    /\ display' = [display EXCEPT !.beat = display.s.conn]
    /\ answered' = FALSE
    /\ UNCHANGED <<mode, cable>>

\* serialHook: a request over the cable ends the session of a display in automatic mode.
AskByCable ==
    /\ ~master.s.conn \/ master.s.tx = MaxCounter
    /\ Quiet
    /\ master' = Disconnected(master)
    /\ \E heard \in Heard :
         IF heard
         THEN /\ display' = [(IF display.s.conn THEN Reset(display) ELSE display) EXCEPT !.wired = TRUE]
              /\ IF display.s.conn THEN Send(display.s, "LEAVE", "master") ELSE UNCHANGED <<net, faults>>
              /\ answered' = TRUE
         ELSE /\ answered' = FALSE
              /\ UNCHANGED <<display, net, faults>>
    /\ UNCHANGED <<mode, cable>>

\* Every 2 s the master tries with a PING whether the cable of a display in automatic mode
\* works; it takes over from no session.  After two answers probeResult leaves the WLAN.
Probe ==
    /\ master.s.conn /\ mode = "automatic" /\ Quiet
    /\ \E heard \in Heard :
         /\ display' = [display EXCEPT !.wired = @ \/ (heard /\ ~display.s.conn)]
         /\ IF ~heard \/ master.probes = 0
            THEN /\ master' = [master EXCEPT !.probes = IF heard THEN 1 ELSE 0]
                 /\ UNCHANGED <<net, faults>>
            ELSE /\ master' = [Disconnected(master) EXCEPT !.probes = 0]
                 /\ Send(master.s, "LEAVE", "display")
    /\ UNCHANGED <<mode, cable, answered>>

---------------------------------------------------------------------------------
\* The WLAN

Accepts(p) == InSession(p, IF p.to = "master" THEN master.s ELSE display.s)

Wanted(p) == CASE p.kind = "HELLO" -> TRUE
               [] p.kind = "PROOF" -> Proves(p) \/ Repeated(p)
               [] p.kind = "CHALLENGE" -> Challenges(p)
               [] p.kind = "READY" -> Confirms(p)
               [] OTHER -> Accepts(p)

\* A late packet may never arrive; of others the receiver has no use.
Drop(p) == /\ p.late \/ ~Wanted(p)
           /\ net' = net \ {p}
           /\ UNCHANGED <<mode, cable, master, display, faults, answered>>

\* One end loses its WLAN, or the heartbeats of 5 s get lost.
Break == /\ InTouch /\ Fault
         /\ \/ display' = Reset(display) /\ UNCHANGED master
            \/ master' = Disconnected(master) /\ UNCHANGED display
         /\ UNCHANGED <<mode, cable, net, answered>>

Receive == \E p \in net : DisplayReceives(p) \/ MasterReceives(p) \/ Drop(p)

---------------------------------------------------------------------------------
Next == \/ Receive \/ Hello \/ Heartbeat \/ AskByWlan \/ AskByCable \/ Probe
        \/ Unblock \/ ChallengeAges \/ PendingAges \/ DisplayExpires \/ MasterExpires
        \/ Break

\* Time goes on, and what the two tasks do every second they do again and again.
Spec == /\ Init /\ [][Next]_vars
        /\ WF_vars(Receive) /\ WF_vars(Unblock)
        /\ SF_vars(ChallengeAges) /\ SF_vars(DisplayExpires) /\ SF_vars(MasterExpires)
        /\ SF_vars(Hello) /\ SF_vars(AskByWlan) /\ WF_vars(AskByCable)

---------------------------------------------------------------------------------
Session == [conn : BOOLEAN, client : Nonces \cup {0}, server : Nonces \cup {0},
            rx : 0..MaxCounter, tx : 0..MaxCounter]

TypeOK ==
    /\ mode \in Modes
    /\ master \in [s : Session, pending : [client : Nonces \cup {0}, server : Nonces \cup {0}],
                   probes : 0..1]
    /\ display \in [s : Session, stale : BOOLEAN, beat : BOOLEAN, wired : BOOLEAN]
    /\ Cardinality(net) <= MaxPackets
    /\ \A p \in net : p.counter \in 0..MaxCounter
    /\ cable \in Cables /\ faults \in 0..MaxFaults[mode]
    /\ answered \in BOOLEAN

\* No packet of a session is accepted twice, however often it and the packets of the
\* handshake arrive, and in whatever order.
NoReplay == \A p \in net : p.used => ~Accepts(p)

\* However packets get lost, a display is reached again and again, by WLAN or on a cable that
\* works: "a lost datagram cannot strand the display".
Served == []<>answered
=================================================================================
