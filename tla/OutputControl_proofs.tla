------------------------- MODULE OutputControl_proofs -------------------------
(***************************************************************************)
(* What TLAPS proves about OutputControl, for any number of outputs and    *)
(* any count of unanswered requests that takes a module offline.           *)
(***************************************************************************)
EXTENDS OutputControl, SequenceTheorems, FiniteSetTheorems, WellFoundedInduction, TLAPS

(***************************************************************************)
(* The active output.                                                      *)
(***************************************************************************)

\* An action either leaves the roles and the registry alone or selects anew.
LEMMA ActiveStep ==
  ActiveIsSelected /\ [NextOutput]_outputVars => ActiveIsSelected'
<1> SUFFICES ASSUME ActiveIsSelected, [NextOutput]_outputVars
             PROVE  ActiveIsSelected'
  OBVIOUS
<1> USE DEF ActiveIsSelected, roles, registry
<1>1. ASSUME NEW on \in BOOLEAN, NEW power \in Powers \cup {0}, Decide(on, power)
      PROVE  ActiveIsSelected'
  BY <1>1 DEF Decide
<1>2. CASE MarkOutputDirty
  BY <1>2 DEF MarkOutputDirty
<1>3. ASSUME NEW o \in Outputs \cup {None}, SelectOutput(o)
      PROVE  ActiveIsSelected'
  BY <1>3 DEF SelectOutput, SelectRoles
<1>4. CASE Push
  BY <1>4 DEF Push
<1>5. ASSUME NEW active \in BOOLEAN, RuleSource(active) \/ AddRule(active)
      PROVE  ActiveIsSelected'
  BY <1>5 DEF RuleSource, AddRule
<1>6. CASE UpdateInputRouting \/ RemoveRule
  BY <1>6 DEF UpdateInputRouting, RemoveRule
<1>7. ASSUME NEW o \in Outputs, Reconnect(o)
      PROVE  ActiveIsSelected'
  BY <1>7 DEF Reconnect, SelectRoles
<1>8. ASSUME NEW o \in Outputs, ModuleFwBegin(o)
      PROVE  ActiveIsSelected'
  BY <1>8 DEF ModuleFwBegin
<1>9. CASE ModuleFwAbort
  BY <1>9 DEF ModuleFwAbort
<1>10. CASE ModuleFwEnd
  BY <1>10 DEF ModuleFwEnd, Invalidate
<1>11. ASSUME NEW o \in Outputs, PollAnswered(o)
       PROVE  ActiveIsSelected'
  BY <1>11 DEF PollAnswered
<1>12. ASSUME NEW o \in Outputs, PollUnanswered(o)
       PROVE  ActiveIsSelected'
  BY <1>12 DEF PollUnanswered, Missed
<1>13. CASE Answered
  BY <1>13 DEF Answered
<1>14. CASE Unanswered
  BY <1>14 DEF Unanswered, Missed
<1>15. CASE Refused \/ RuleWaits
  BY <1>15 DEF Refused, RuleWaits
<1>16. ASSUME NEW o \in Outputs, Reboot(o) \/ Failsafe(o)
       PROVE  ActiveIsSelected'
  BY <1>16 DEF Reboot, Failsafe
<1>17. CASE UNCHANGED outputVars
  BY <1>17 DEF outputVars
<1> QED
  BY <1>1, <1>2, <1>3, <1>4, <1>5, <1>6, <1>7, <1>8, <1>9, <1>10, <1>11, <1>12,
     <1>13, <1>14, <1>15, <1>16, <1>17 DEF NextOutput, Handler, Update, Request, Module

\* At the start no module is online and no output is active.
LEMMA ActiveInit == InitOutput => ActiveIsSelected
<1> SUFFICES ASSUME InitOutput PROVE ActiveIsSelected
  OBVIOUS
<1>1. {o \in Outputs : online[o]} = {}
  BY DEF InitOutput
<1> QED
  BY <1>1 DEF InitOutput, ActiveIsSelected, Selected

\* The decision always goes to the output selectRoles prefers among the modules
\* that are online now: no order of selections, losses, reconnections and updates
\* leaves active_output_addr_ behind.
THEOREM ActiveCorrect == Safety => []ActiveIsSelected
<1>1. InitOutput => ActiveIsSelected
  BY ActiveInit
<1>2. ActiveIsSelected /\ [NextOutput]_outputVars => ActiveIsSelected'
  BY ActiveStep
<1> QED
  BY <1>1, <1>2, PTL DEF Safety

(***************************************************************************)
(* Selections.                                                             *)
(***************************************************************************)

\* A set of addresses that is not empty has a least one.
LEMMA HasLeast ==
  ASSUME NEW S, S \subseteq Nat, S # {}
  PROVE  \E i \in S : \A j \in S : i <= j
<1> DEFINE Less == {p \in Nat \X Nat : p[1] < p[2]}
<1>1. IsWellFoundedOn(Less, Nat)
  BY NatLessThanWellFounded, Zenon DEF OpToRel
<1> HIDE DEF Less
<1>2. PICK i \in S : \A j \in S : ~ (<<j, i>> \in Less)
  BY <1>1, WFMin
<1>3. \A j \in S : ~ (j < i)
  BY <1>2 DEF Less
<1> QED
  BY <1>3

\* The least address of a set is in it.
LEMMA MinIsLeast ==
  ASSUME NEW S, S \subseteq Nat, S # {}
  PROVE  Min(S) \in S /\ \A j \in S : Min(S) <= j
<1>1. \E i \in S : \A j \in S : i <= j
  BY HasLeast
<1> QED
  BY <1>1 DEF Min

\* Taking another address away leaves the least one.
LEMMA MinStays ==
  ASSUME NEW S, S \subseteq Nat, NEW T, T \subseteq S, T # {}, Min(S) \in T
  PROVE  Min(T) = Min(S)
<1>1. S # {} /\ T \subseteq Nat
  OBVIOUS
<1>2. \A j \in S : Min(S) <= j
  BY <1>1, MinIsLeast
<1>3. Min(T) \in T /\ \A j \in T : Min(T) <= j
  BY <1>1, MinIsLeast
<1>4. Min(S) <= Min(T) /\ Min(T) <= Min(S) /\ Min(S) \in Nat /\ Min(T) \in Nat
  BY <1>1, <1>2, <1>3
<1> QED
  BY <1>4

\* What is selected is an output that is online, or none.
LEMMA SelectedIsOnline ==
  ASSUME NEW p \in Outputs \cup {None}, NEW on \in [Outputs -> BOOLEAN]
  PROVE  \/ Selected(p, on) = None
         \/ Selected(p, on) \in Outputs /\ on[Selected(p, on)]
<1> DEFINE available == {o \in Outputs : on[o]}
<1>0. available \subseteq Nat /\ available \cap Weller \subseteq Nat
  BY OutputAssumption
<1>1. CASE p # None
  BY <1>1 DEF Selected
<1>2. CASE p = None /\ available \cap Weller # {}
  <2>1. Selected(p, on) = Min(available \cap Weller)
    BY <1>2 DEF Selected
  <2>2. Min(available \cap Weller) \in available \cap Weller
    BY <1>0, <1>2, MinIsLeast
  <2> QED
    BY <2>1, <2>2
<1>3. CASE p = None /\ available \cap Weller = {}
  <2>1. Selected(p, on) = IF available = {} THEN None ELSE Min(available)
    BY <1>3 DEF Selected
  <2>2. available # {} => Min(available) \in available
    BY <1>0, MinIsLeast
  <2> QED
    BY <2>1, <2>2
<1> QED
  BY <1>1, <1>2, <1>3

\* The loss of an output that is not selected changes no selection.
LEMMA SelectedStays ==
  ASSUME NEW p \in Outputs \cup {None}, NEW on \in [Outputs -> BOOLEAN],
         NEW o \in Outputs, Selected(p, on) # o
  PROVE  Selected(p, [on EXCEPT ![o] = FALSE]) = Selected(p, on)
<1> DEFINE off == [on EXCEPT ![o] = FALSE]
           available == {q \in Outputs : on[q]}
           left == {q \in Outputs : off[q]}
<1>0. available \subseteq Nat /\ available \cap Weller \subseteq Nat /\ left = available \ {o}
  BY OutputAssumption
<1> HIDE DEF off, available, left
<1>s. \A q : Selected(q, on) =
        CASE q # None -> IF q \in available THEN q ELSE None
          [] q = None /\ available \cap Weller # {} -> Min(available \cap Weller)
          [] q = None /\ available \cap Weller = {} -> IF available = {} THEN None ELSE Min(available)
  BY DEF Selected, available
<1>t. \A q : Selected(q, off) =
        CASE q # None -> IF q \in left THEN q ELSE None
          [] q = None /\ left \cap Weller # {} -> Min(left \cap Weller)
          [] q = None /\ left \cap Weller = {} -> IF left = {} THEN None ELSE Min(left)
  BY DEF Selected, left
<1>1. CASE p # None
  BY <1>0, <1>1, <1>s, <1>t DEF off
<1>2. CASE p = None /\ available \cap Weller # {}
  <2>1. Selected(p, on) = Min(available \cap Weller)
    BY <1>2, <1>s
  <2>2. Min(available \cap Weller) \in left \cap Weller
    BY <1>0, <1>2, <2>1, MinIsLeast
  <2>3. Min(left \cap Weller) = Min(available \cap Weller)
    BY <1>0, <2>2, MinStays
  <2>4. Selected(p, off) = Min(left \cap Weller)
    BY <1>2, <1>t, <2>2
  <2> QED
    BY <2>1, <2>3, <2>4 DEF off
<1>3. CASE p = None /\ available \cap Weller = {}
  <2>1. left \cap Weller = {}
    BY <1>0, <1>3
  <2>2. CASE available = {}
    BY <1>0, <1>3, <2>1, <2>2, <1>s, <1>t DEF off
  <2>3. CASE available # {}
    <3>1. Selected(p, on) = Min(available)
      BY <1>3, <2>3, <1>s
    <3>2. Min(available) \in left
      BY <1>0, <2>3, <3>1, MinIsLeast
    <3>3. Min(left) = Min(available)
      BY <1>0, <3>2, MinStays
    <3>4. Selected(p, off) = Min(left)
      BY <1>3, <2>1, <3>2, <1>t
    <3> QED
      BY <3>1, <3>3, <3>4 DEF off
  <2> QED
    BY <2>2, <2>3
<1> QED
  BY <1>1, <1>2, <1>3

(***************************************************************************)
(* The writes that are left.                                               *)
(***************************************************************************)

Writes == [kind : Kinds, out : Outputs]

\* The turn of the rule, when there is one.
LEMMA RoutingIs ==
  ASSUME rule.enabled => RuleTarget \in Outputs
  PROVE  /\ Routing \in Seq(Writes) /\ Len(Routing) <= 1
         /\ Len(Routing) = 1 => rule.enabled /\ Routing[1] = Item("rule", RuleTarget)
         /\ ~rule.enabled => Routing = <<>>
<1>1. CASE rule.enabled
  <2>1. Routing = <<Item("rule", RuleTarget)>>
    BY <1>1 DEF Routing, When
  <2>2. Item("rule", RuleTarget) \in Writes
    BY <1>1 DEF Item, Writes, Kinds
  <2> QED
    BY <1>1, <2>1, <2>2
<1>2. CASE ~rule.enabled
  <2>1. Routing = <<>>
    BY <1>2 DEF Routing, When
  <2>2. <<>> \in Seq(Writes) /\ Len(<<>>) = 0
    OBVIOUS
  <2> QED
    BY <1>2, <2>1, <2>2
<1> QED
  BY <1>1, <1>2

\* t holds what is left of s from place f on, in its order, and otherwise only
\* turns of the rule.
Keeps(s, t, f) ==
  /\ t \in Seq(Writes) /\ Len(t) <= Len(s) + 2 - f
  /\ ~rule.enabled => Len(t) <= Len(s) + 1 - f
  /\ \A k \in 1 .. Len(t) :
       \/ t[k] = Item("rule", RuleTarget) /\ rule.enabled
       \/ \E m \in f .. Len(s) :
            t[k] = s[m] /\ \A j \in f .. m - 1 : \E l \in 1 .. k - 1 : t[l] = s[j]
  /\ \A m \in f .. Len(s) : \E k \in 1 .. Len(t) : t[k] = s[m]

\* The routing in front of what a handler has left.
LEMMA KeepsTail ==
  ASSUME NEW s \in Seq(Writes), s # <<>>,
         NEW p \in Seq(Writes), Len(p) <= 1,
         \A i \in 1 .. Len(p) : rule.enabled /\ p[i] = Item("rule", RuleTarget)
  PROVE  Keeps(s, p \o Tail(s), 2)
<1> DEFINE t == p \o Tail(s)
<1>1. /\ Len(s) \in Nat \ {0} /\ Tail(s) \in Seq(Writes) /\ Len(Tail(s)) = Len(s) - 1
      /\ \A i \in 1 .. Len(s) - 1 : Tail(s)[i] = s[i + 1]
  BY HeadTailProperties
<1>2. Len(p) \in Nat /\ Len(p) <= 1
  OBVIOUS
<1>3. /\ t \in Seq(Writes) /\ Len(t) = Len(p) + Len(s) - 1
      /\ \A i \in 1 .. Len(p) : t[i] = p[i]
      /\ \A i \in 2 .. Len(s) : t[i + Len(p) - 1] = s[i]
  <2>1. /\ t \in Seq(Writes) /\ Len(t) = Len(p) + Len(Tail(s))
        /\ \A i \in 1 .. Len(p) + Len(Tail(s)) :
             t[i] = IF i <= Len(p) THEN p[i] ELSE Tail(s)[i - Len(p)]
    BY <1>1, ConcatProperties
  <2>2. \A i \in 1 .. Len(p) : t[i] = p[i]
    BY <1>1, <1>2, <2>1
  <2>3. ASSUME NEW i \in 2 .. Len(s)
        PROVE  t[i + Len(p) - 1] = s[i]
    <3>1. /\ i + Len(p) - 1 \in 1 .. Len(p) + Len(Tail(s)) /\ ~(i + Len(p) - 1 <= Len(p))
          /\ (i + Len(p) - 1) - Len(p) = i - 1 /\ i - 1 \in 1 .. Len(s) - 1 /\ (i - 1) + 1 = i
      BY <1>1, <1>2
    <3> QED
      BY <1>1, <2>1, <3>1
  <2> QED
    BY <1>1, <1>2, <2>1, <2>2, <2>3
<1> HIDE DEF t
<1>4. ASSUME NEW k \in 1 .. Len(t)
      PROVE  \/ t[k] = Item("rule", RuleTarget) /\ rule.enabled
             \/ \E m \in 2 .. Len(s) :
                  t[k] = s[m] /\ \A j \in 2 .. m - 1 : \E l \in 1 .. k - 1 : t[l] = s[j]
  <2>1. CASE k <= Len(p)
    <3>1. k \in 1 .. Len(p)
      BY <1>1, <1>2, <1>3, <2>1
    <3>2. t[k] = p[k]
      BY <1>3, <3>1
    <3> QED
      BY <3>1, <3>2
  <2>2. CASE ~(k <= Len(p))
    <3> DEFINE m == k - Len(p) + 1
    <3>1. m \in 2 .. Len(s) /\ m + Len(p) - 1 = k
      BY <1>1, <1>2, <1>3, <2>2
    <3>2. t[k] = s[m]
      BY <1>3, <3>1
    <3>3. ASSUME NEW j \in 2 .. m - 1
          PROVE  \E l \in 1 .. k - 1 : t[l] = s[j]
      <4>1. j \in 2 .. Len(s) /\ j + Len(p) - 1 \in 1 .. k - 1
        BY <1>1, <1>2, <3>1
      <4> QED
        BY <1>3, <4>1
    <3> QED
      BY <3>1, <3>2, <3>3
  <2> QED
    BY <2>1, <2>2
<1>5. ASSUME NEW m \in 2 .. Len(s)
      PROVE  \E k \in 1 .. Len(t) : t[k] = s[m]
  <2>1. m + Len(p) - 1 \in 1 .. Len(t)
    BY <1>1, <1>2, <1>3
  <2> QED
    BY <1>3, <2>1
<1>6. Len(t) <= Len(s) + 2 - 2 /\ (~rule.enabled => Len(t) <= Len(s) + 1 - 2)
  <2>1. Len(t) = Len(p) + Len(s) - 1
    BY <1>3
  <2>2. Len(p) \in Nat /\ Len(p) <= 1 /\ Len(s) \in Nat
    BY <1>1, <1>2
  <2>3. ~rule.enabled => Len(p) = 0
    BY <2>2
  <2>4. /\ Len(p) + Len(s) - 1 <= Len(s) + 2 - 2
        /\ Len(p) = 0 => Len(p) + Len(s) - 1 <= Len(s) + 1 - 2
    BY <2>2
  <2> QED
    BY <2>1, <2>3, <2>4
<1> QED
  BY <1>3, <1>4, <1>5, <1>6 DEF Keeps, t

\* The routing of the web task among the writes of the loop.
LEMMA KeepsInterleaved ==
  ASSUME rule.enabled => RuleTarget \in Outputs,
         todo \in Seq(Writes), NEW t \in Interleaved(Routing)
  PROVE  Keeps(todo, t, 1)
<1>0. /\ Len(todo) \in Nat
      /\ Routing \in Seq(Writes) /\ Len(Routing) \in {0, 1}
      /\ Len(Routing) = 1 => rule.enabled /\ Routing[1] = Item("rule", RuleTarget)
      /\ ~rule.enabled => Len(Routing) = 0
  <2>1. Routing \in Seq(Writes) /\ Len(Routing) <= 1
    BY RoutingIs
  <2>2. Len(Routing) \in Nat /\ Len(<<>>) = 0
    BY <2>1
  <2> QED
    BY <2>1, <2>2, RoutingIs
<1>1. CASE t = todo
  BY <1>0, <1>1 DEF Keeps
<1>2. ASSUME NEW i \in 0 .. Len(todo),
             t = SubSeq(todo, 1, i) \o Routing \o SubSeq(todo, i + 1, Len(todo))
      PROVE  Keeps(todo, t, 1)
  <2> DEFINE a == SubSeq(todo, 1, i)
             b == SubSeq(todo, i + 1, Len(todo))
             n == Len(Routing)
  <2>1. /\ a \in Seq(Writes) /\ Len(a) = i
        /\ \A j \in 1 .. i : a[j] = todo[j]
    <3>1. \A j \in 1 .. i : todo[j] \in Writes
      BY <1>0
    <3>2. /\ a \in Seq(Writes) /\ Len(a) = IF 1 <= i THEN i - 1 + 1 ELSE 0
          /\ \A j \in 1 .. i - 1 + 1 : a[j] = todo[1 + j - 1]
      BY <3>1, SubSeqProperties
    <3> QED
      BY <1>0, <3>2
  <2>2. /\ b \in Seq(Writes) /\ Len(b) = Len(todo) - i
        /\ \A j \in 1 .. Len(todo) - i : b[j] = todo[i + j]
    <3>1. i + 1 \in Int /\ Len(todo) \in Int /\ \A j \in i + 1 .. Len(todo) : todo[j] \in Writes
      BY <1>0
    <3>2. /\ b \in Seq(Writes)
          /\ Len(b) = IF i + 1 <= Len(todo) THEN Len(todo) - (i + 1) + 1 ELSE 0
          /\ \A j \in 1 .. Len(todo) - (i + 1) + 1 : b[j] = todo[(i + 1) + j - 1]
      BY <3>1, SubSeqProperties
    <3> QED
      BY <1>0, <3>2
  <2> HIDE DEF a, b
  <2> DEFINE c == a \o Routing
  <2>3. /\ c \in Seq(Writes) /\ Len(c) = i + n
        /\ \A j \in 1 .. i + n : c[j] = IF j <= i THEN a[j] ELSE Routing[j - i]
    <3>0. a \in Seq(Writes) /\ Routing \in Seq(Writes)
      BY <1>0, <2>1
    <3>1. /\ c \in Seq(Writes) /\ Len(c) = Len(a) + Len(Routing)
          /\ \A j \in 1 .. Len(a) + Len(Routing) :
               c[j] = IF j <= Len(a) THEN a[j] ELSE Routing[j - Len(a)]
      BY <3>0, ConcatProperties
    <3> QED
      BY <2>1, <3>1
  <2>t. t = c \o b
    BY <1>2 DEF a, b
  <2> HIDE DEF c
  <2>4. /\ t \in Seq(Writes) /\ Len(t) = (i + n) + (Len(todo) - i)
        /\ \A j \in 1 .. (i + n) + (Len(todo) - i) :
             t[j] = IF j <= i + n THEN c[j] ELSE b[j - (i + n)]
    <3>1. /\ c \o b \in Seq(Writes) /\ Len(c \o b) = Len(c) + Len(b)
          /\ \A j \in 1 .. Len(c) + Len(b) :
               (c \o b)[j] = IF j <= Len(c) THEN c[j] ELSE b[j - Len(c)]
      BY <2>2, <2>3, ConcatProperties
    <3> QED
      BY <2>2, <2>3, <2>t, <3>1
  <2>5. Len(t) = n + Len(todo) /\ n \in {0, 1}
    BY <1>0, <2>4
  <2>6. ASSUME NEW j \in 1 .. i
        PROVE  t[j] = todo[j]
    <3>1. j \in 1 .. i + n /\ j <= i /\ j <= i + n /\ j \in 1 .. (i + n) + (Len(todo) - i)
      BY <1>0, <2>5
    <3> QED
      BY <2>1, <2>3, <2>4, <3>1
  <2>7. n = 1 => t[i + 1] = Item("rule", RuleTarget) /\ rule.enabled
    BY <1>0, <2>3, <2>4
  <2>8. ASSUME NEW j \in i + 1 .. Len(todo)
        PROVE  t[j + n] = todo[j]
    <3>1. /\ j + n \in 1 .. (i + n) + (Len(todo) - i) /\ ~(j + n <= i + n)
          /\ (j + n) - (i + n) = j - i /\ j - i \in 1 .. Len(todo) - i /\ i + (j - i) = j
      BY <1>0, <2>5
    <3> QED
      BY <2>2, <2>4, <3>1
  <2> HIDE DEF n
  <2>9. ASSUME NEW j \in 1 .. Len(todo)
        PROVE  \E k \in 1 .. Len(t) : k <= j + n /\ (j <= i => k <= j) /\ t[k] = todo[j]
    <3>1. CASE j <= i
      <4>1. j \in 1 .. i /\ j \in 1 .. Len(t) /\ j <= j + n
        BY <1>0, <2>5, <3>1
      <4> QED
        BY <2>6, <4>1
    <3>2. CASE ~(j <= i)
      <4>1. j \in i + 1 .. Len(todo) /\ j + n \in 1 .. Len(t)
        BY <1>0, <2>5, <3>2
      <4> QED
        BY <2>8, <3>2, <4>1
    <3> QED
      BY <3>1, <3>2
  <2>10. ASSUME NEW k \in 1 .. Len(t)
         PROVE  \/ t[k] = Item("rule", RuleTarget) /\ rule.enabled
                \/ \E m \in 1 .. Len(todo) :
                     t[k] = todo[m] /\ \A j \in 1 .. m - 1 : \E l \in 1 .. k - 1 : t[l] = todo[j]
    <3>1. CASE k <= i
      <4>1. k \in 1 .. i /\ k \in 1 .. Len(todo)
        BY <1>0, <3>1
      <4>2. \A j \in 1 .. k - 1 : j \in 1 .. i /\ j \in 1 .. k - 1
        BY <1>0, <4>1
      <4> QED
        BY <2>6, <4>1, <4>2
    <3>2. CASE n = 1 /\ k = i + 1
      BY <2>7, <3>2
    <3>3. CASE k > i + n
      <4> DEFINE m == k - n
      <4>1. m \in i + 1 .. Len(todo) /\ m \in 1 .. Len(todo) /\ m + n = k
        BY <1>0, <2>5, <3>3
      <4>2. t[k] = todo[m]
        BY <2>8, <4>1
      <4>3. ASSUME NEW j \in 1 .. m - 1
            PROVE  \E l \in 1 .. k - 1 : t[l] = todo[j]
        <5>1. j \in 1 .. Len(todo) /\ j + n <= k - 1
          BY <1>0, <2>5, <4>1
        <5>2. PICK l \in 1 .. Len(t) : l <= j + n /\ t[l] = todo[j]
          BY <2>9, <5>1
        <5>3. l \in 1 .. k - 1
          BY <2>5, <5>1, <5>2
        <5> QED
          BY <5>2, <5>3
      <4> QED
        BY <4>1, <4>2, <4>3
    <3>4. k <= i \/ (n = 1 /\ k = i + 1) \/ k > i + n
      BY <1>0, <2>5
    <3> QED
      BY <3>1, <3>2, <3>3, <3>4, Zenon
  <2>11. Len(t) <= Len(todo) + 2 - 1 /\ (n = 0 => Len(t) <= Len(todo) + 1 - 1)
    BY <1>0, <2>5
  <2>12. ~rule.enabled => n = 0
    BY <1>0 DEF n
  <2> QED
    BY <2>4, <2>9, <2>10, <2>11, <2>12 DEF Keeps
<1> QED
  BY <1>1, <1>2 DEF Interleaved

(***************************************************************************)
(* The invariant.                                                          *)
(***************************************************************************)

\* The module under update is online, and what its fan does is nobody's decision.
TargetHeld ==
  module_fw_target # None => online[module_fw_target] /\ module_fw_target \in disturbed

\* One miss more takes a module offline at the latest when it reaches the limit.
MissesCounted == \A o \in Outputs : online[o] => consecutive_timeouts[o] < MaxMisses

RuleExists == rule.enabled => RuleTarget \in Outputs

\* A handler leaves three writes at most; each that is added takes a module offline.
WritesBounded ==
  Len(todo) + Cardinality({o \in Outputs : online[o]}) <= 3 + Cardinality(Outputs)

\* A fan that is wanted has a set point.
DecisionWhole == desired.on <=> desired.power > 0

Registry == TargetHeld /\ MissesCounted /\ RuleExists /\ WritesBounded /\ DecisionWhole

\* What holds of a write as long as it is left.  A push is for the active output,
\* unless that has gone offline; a set point is only written while extraction is
\* wanted; no push stops a fan that the rule owns; an OFF that would reach the
\* active output is one that disturbed records; the rule's turns are for its target.
WriteOK(w) ==
  /\ w.kind \in PushKinds => w.out = active_output_addr \/ ~online[w.out]
  /\ w.kind = "power" => desired.on
  /\ w.kind = "enable" /\ ~desired.on => ~RuleOwns(w.out)
  /\ w.kind \in {"dropPower", "dropEnable"} /\ w.out = active_output_addr => w.out \in disturbed
  /\ w.kind = "rule" => rule.enabled /\ w.out = RuleTarget
  /\ w.kind = "ruleOff" =>
       /\ ~rule.enabled /\ w.out = RuleTarget
       /\ w.out = active_output_addr /\ desired.on => w.out \in disturbed

WritesOK == \A i \in 1 .. Len(todo) : WriteOK(todo[i])

\* A request that stays unanswered either changes nothing but its count or takes its
\* module offline, with a new selection, dirty flags and the routing.
Kept(o) ==
  /\ UNCHANGED <<online, active_output_addr, dirty>>
  /\ consecutive_timeouts' = [consecutive_timeouts EXCEPT ![o] = consecutive_timeouts[o] + 1]
  /\ consecutive_timeouts[o] + 1 < MaxMisses
Gone(o) ==
  /\ online' = [online EXCEPT ![o] = FALSE]
  /\ consecutive_timeouts' = [consecutive_timeouts EXCEPT ![o] = MaxMisses]
  /\ active_output_addr' = Selected(preferred_output_addr, online')
  /\ active_output_addr # o => active_output_addr' = active_output_addr
  /\ enable_dirty' = TRUE /\ power_dirty' = TRUE

\* A request that stays unanswered is one of the two, and leaves the rest of the writes.
LEMMA MissedCases ==
  ASSUME TypeOK, MissesCounted, ActiveIsSelected,
         NEW o \in Outputs, online[o], NEW rest \in Seq(Writes), NEW routed \in BOOLEAN,
         Missed(o, rest, routed)
  PROVE  /\ Kept(o) \/ Gone(o)
         /\ \E p \in {<<>>, Routing} : todo' = p \o rest
<1> DEFINE count == consecutive_timeouts[o] + 1
           gone == count >= MaxMisses
           on == [online EXCEPT ![o] = ~gone]
<1>0. /\ preferred_output_addr \in Outputs \cup {None}
      /\ online \in [Outputs -> BOOLEAN]
      /\ enable_dirty \in BOOLEAN /\ power_dirty \in BOOLEAN
      /\ consecutive_timeouts[o] \in Nat /\ consecutive_timeouts[o] < MaxMisses
      /\ MaxMisses \in Nat \ {0}
  BY OutputAssumption DEF TypeOK, MissesCounted
<1>1. /\ consecutive_timeouts' = [consecutive_timeouts EXCEPT ![o] = count]
      /\ online' = on
      /\ active_output_addr' = Selected(preferred_output_addr, on)
      /\ enable_dirty' = (enable_dirty \/ gone)
      /\ power_dirty' = (power_dirty \/ gone)
      /\ todo' = When(gone /\ routed, Routing) \o rest
  BY <1>0 DEF Missed
<1>d. /\ gone => count = MaxMisses /\ on = [online EXCEPT ![o] = FALSE]
      /\ ~gone => count < MaxMisses /\ on = online
  <2>1. CASE gone
    <3>1. count = MaxMisses
      BY <1>0, <2>1
    <3>2. on = [online EXCEPT ![o] = FALSE]
      BY <2>1
    <3> QED
      BY <2>1, <3>1, <3>2
  <2>2. CASE ~gone
    <3>1. count < MaxMisses
      BY <1>0, <2>2
    <3>2. on = [online EXCEPT ![o] = TRUE]
      BY <2>2
    <3>3. on = online
      BY <1>0, <3>2
    <3> QED
      BY <2>2, <3>1, <3>3
  <2> QED
    BY <2>1, <2>2
<1> HIDE DEF gone, on
<1>2. ASSUME gone PROVE Gone(o)
  <2>1. on = [online EXCEPT ![o] = FALSE] /\ count = MaxMisses
    BY <1>2, <1>d
  <2>2. active_output_addr # o => active_output_addr' = active_output_addr
    BY <1>0, <1>1, <2>1, SelectedStays DEF ActiveIsSelected
  <2>3. enable_dirty' = TRUE /\ power_dirty' = TRUE
    BY <1>1, <1>2, Zenon
  <2> QED
    BY <1>1, <2>1, <2>2, <2>3 DEF Gone
<1>3. ASSUME ~gone PROVE Kept(o)
  <2>1. on = online /\ count < MaxMisses
    BY <1>3, <1>d
  <2>2. active_output_addr' = active_output_addr
    BY <1>1, <2>1 DEF ActiveIsSelected
  <2>3. enable_dirty' = enable_dirty /\ power_dirty' = power_dirty
    BY <1>0, <1>1, <1>3, Zenon
  <2> QED
    BY <1>1, <2>1, <2>2, <2>3 DEF Kept, dirty
<1>4. When(gone /\ routed, Routing) \in {<<>>, Routing}
  BY DEF When
<1> QED
  BY <1>1, <1>2, <1>3, <1>4, Zenon

\* Nothing but turns of the rule.
OnlyRule(t) ==
  /\ t \in Seq(Writes) /\ Len(t) <= 1
  /\ \A i \in 1 .. Len(t) : rule.enabled /\ t[i] = Item("rule", RuleTarget)

\* The routing is at most one turn of the rule.
LEMMA RoutingOnlyRule ==
  ASSUME RuleExists, NEW c \in BOOLEAN
  PROVE  OnlyRule(When(c, Routing)) /\ OnlyRule(Routing) /\ OnlyRule(<<>>)
<1>1. OnlyRule(<<>>)
  <2>1. <<>> \in Seq(Writes) /\ Len(<<>>) = 0
    OBVIOUS
  <2> QED
    BY <2>1 DEF OnlyRule
<1>2. OnlyRule(Routing)
  <2>1. CASE ~rule.enabled
    <3>1. Routing = <<>>
      BY <2>1, RoutingIs DEF RuleExists
    <3> QED
      BY <1>1, <3>1
  <2>2. CASE rule.enabled
    <3>1. Routing = <<Item("rule", RuleTarget)>>
      BY <2>2 DEF Routing, When
    <3>2. Routing \in Seq(Writes)
      BY RoutingIs DEF RuleExists
    <3>3. Len(Routing) = 1 /\ Routing[1] = Item("rule", RuleTarget)
      BY <3>1
    <3> QED
      BY <2>2, <3>2, <3>3 DEF OnlyRule
  <2> QED
    BY <2>1, <2>2
<1> QED
  BY <1>1, <1>2 DEF When

\* What a request leaves: a push ends with a write that failed, everything else goes on.
Left(item) ==
  IF item.kind \in PushKinds THEN OnlyRule(todo') ELSE Keeps(todo, todo', 2)

\* What a failed write leaves, with the routing of a module that was lost in front.
LEMMA RemainingLeft ==
  ASSUME TypeOK, RuleExists, ~Idle, NEW p \in {<<>>, Routing},
         todo' = p \o Remaining(Head(todo))
  PROVE  Left(Head(todo))
<1>1. todo \in Seq(Writes) /\ todo # <<>>
  BY DEF TypeOK, Writes, Idle
<1>2. OnlyRule(p)
  BY RoutingOnlyRule
<1>3. CASE Head(todo).kind \in PushKinds
  <2>1. todo' = p
    BY <1>2, <1>3 DEF Remaining, OnlyRule
  <2> QED
    BY <1>2, <1>3, <2>1 DEF Left
<1>4. CASE Head(todo).kind \notin PushKinds
  <2>1. todo' = p \o Tail(todo)
    BY <1>4 DEF Remaining
  <2>2. Keeps(todo, p \o Tail(todo), 2)
    BY <1>1, <1>2, KeepsTail DEF OnlyRule
  <2>3. Keeps(todo, todo', 2)
    BY <2>1, <2>2
  <2> QED
    BY <1>4, <2>3, Zenon DEF Left
<1> QED
  BY <1>3, <1>4

\* An answered write leaves the rest.
LEMMA TailLeft ==
  ASSUME TypeOK, ~Idle, todo' = Tail(todo)
  PROVE  Keeps(todo, todo', 2)
<1>1. todo \in Seq(Writes) /\ todo # <<>>
  BY DEF TypeOK, Writes, Idle
<1>2. <<>> \in Seq(Writes) /\ Len(<<>>) <= 1 /\ \A i \in 1 .. Len(<<>>) : FALSE
  OBVIOUS
<1>3. Keeps(todo, <<>> \o Tail(todo), 2)
  BY <1>1, <1>2, KeepsTail
<1>4. Tail(todo) \in Seq(Writes)
  BY <1>1
<1>5. <<>> \o Tail(todo) = Tail(todo)
  BY <1>4
<1> QED
  BY <1>3, <1>5

\* What a step of the loop that sends the first write does to the rest of the state.
LEMMA UnansweredIs ==
  ASSUME TypeOK, Registry, ActiveIsSelected, Unanswered
  PROVE  /\ Left(Head(todo)) /\ Head(todo) \in Writes
         /\ Kept(Head(todo).out) \/ Gone(Head(todo).out)
         /\ IsWrite(Head(todo)) /\ Sendable(Head(todo))
         /\ fan' \in {fan, Effect(Head(todo))}
         /\ Failed(Head(todo))
         /\ disturbed' = disturbed \cup Forgotten(Head(todo)) \cup Overtaken
         /\ UNCHANGED <<preferred_output_addr, desired, module_fw_target>>
<1> DEFINE item == Head(todo)
<1>1. /\ ~Idle /\ IsWrite(item) /\ Sendable(item)
      /\ fan' \in {fan, Effect(item)}
      /\ Missed(item.out, Remaining(item), item.kind # "rule")
      /\ Failed(item)
      /\ disturbed' = disturbed \cup Forgotten(item) \cup Overtaken
      /\ UNCHANGED <<preferred_output_addr, desired, module_fw_target>>
  BY DEF Unanswered
<1>2. todo \in Seq(Writes) /\ todo # <<>>
  BY <1>1 DEF TypeOK, Writes, Idle
<1>3. item \in Writes /\ Tail(todo) \in Seq(Writes)
  BY <1>2
<1>4. item.out \in Outputs /\ online[item.out]
  BY <1>1, <1>3 DEF Writes, Sendable
<1>5. Remaining(item) \in Seq(Writes)
  <2>1. <<>> \in Seq(Writes)
    OBVIOUS
  <2> QED
    BY <1>3, <2>1 DEF Remaining
<1>6. /\ Kept(item.out) \/ Gone(item.out)
      /\ \E p \in {<<>>, Routing} : todo' = p \o Remaining(item)
  <2>1. (item.kind # "rule") \in BOOLEAN /\ MissesCounted
    BY DEF Registry
  <2> QED
    BY <1>1, <1>4, <1>5, <2>1, MissedCases
<1>7. Left(item)
  BY <1>1, <1>6, RemainingLeft DEF Registry
<1> QED
  BY <1>1, <1>3, <1>6, <1>7

\* The same for a request that is answered.
LEMMA AnsweredIs ==
  ASSUME TypeOK, Answered
  PROVE  /\ Keeps(todo, todo', 2) /\ Head(todo) \in Writes
         /\ IsWrite(Head(todo)) /\ Sendable(Head(todo))
         /\ fan' = Effect(Head(todo))
         /\ consecutive_timeouts' = [consecutive_timeouts EXCEPT ![Head(todo).out] = 0]
         /\ Accepted(Head(todo))
         /\ UNCHANGED <<online, roles, desired, module_fw_target, disturbed>>
<1>1. ~Idle /\ todo' = Tail(todo)
  BY DEF Answered
<1>2. todo \in Seq(Writes) /\ todo # <<>>
  BY <1>1 DEF TypeOK, Writes, Idle
<1>3. Head(todo) \in Writes
  BY <1>2
<1> QED
  BY <1>1, <1>3, TailLeft DEF Answered

\* The same for a request that is given up at once.
LEMMA RefusedIs ==
  ASSUME TypeOK, Registry, Refused
  PROVE  /\ Left(Head(todo)) /\ Head(todo) \in Writes
         /\ IsWrite(Head(todo)) /\ ~Sendable(Head(todo))
         /\ Failed(Head(todo))
         /\ disturbed' = disturbed \cup Forgotten(Head(todo))
         /\ UNCHANGED <<registry, roles, desired, dirty, module_fw_target, fan>>
<1>1. ~Idle /\ todo' = Remaining(Head(todo))
  BY DEF Refused
<1>2. todo \in Seq(Writes) /\ todo # <<>>
  BY <1>1 DEF TypeOK, Writes, Idle
<1>3. Head(todo) \in Writes /\ Tail(todo) \in Seq(Writes)
  BY <1>2
<1>4. todo' = <<>> \o Remaining(Head(todo))
  <2>1. <<>> \in Seq(Writes)
    OBVIOUS
  <2>2. Remaining(Head(todo)) \in Seq(Writes)
    BY <1>3, <2>1 DEF Remaining
  <2> QED
    BY <1>1, <2>2
<1>5. Left(Head(todo))
  BY <1>1, <1>4, RemainingLeft DEF Registry
<1> QED
  BY <1>3, <1>5 DEF Refused

\* The same for a turn of the rule that needs no command.
LEMMA RuleWaitsIs ==
  ASSUME TypeOK, RuleWaits
  PROVE  /\ Keeps(todo, todo', 2) /\ Head(todo) \in Writes
         /\ Head(todo).kind = "rule" /\ ~RuleWrites
         /\ rule' = CASE ~online[RuleTarget] -> [rule EXCEPT !.target_sync_valid = FALSE]
                      [] online[RuleTarget] /\ RuleSynced -> rule
                      [] OTHER -> [rule EXCEPT !.last_active = FALSE, !.target_sync_valid = TRUE]
         /\ UNCHANGED <<registry, roles, desired, dirty, module_fw_target, fan, disturbed>>
<1>1. ~Idle /\ todo' = Tail(todo) /\ ~IsWrite(Head(todo))
  BY DEF RuleWaits
<1>2. todo \in Seq(Writes) /\ todo # <<>>
  BY <1>1 DEF TypeOK, Writes, Idle
<1>3. Head(todo) \in Writes
  BY <1>2
<1>4. Keeps(todo, todo', 2)
  BY <1>1, TailLeft
<1>5. Head(todo).kind = "rule" /\ ~RuleWrites
  BY <1>1 DEF IsWrite
<1> QED
  BY <1>3, <1>4, <1>5, Zenon DEF RuleWaits

(***************************************************************************)
(* Types and the registry.                                                 *)
(***************************************************************************)

\* TypeOK without the writes that are left.
RestTyped ==
  /\ preferred_output_addr \in Outputs \cup {None}
  /\ active_output_addr \in Outputs \cup {None}
  /\ online \in [Outputs -> BOOLEAN]
  /\ consecutive_timeouts \in [Outputs -> 0 .. MaxMisses]
  /\ desired \in [on : BOOLEAN, power : Powers \cup {0}]
  /\ enable_dirty \in BOOLEAN /\ power_dirty \in BOOLEAN
  /\ module_fw_target \in Outputs \cup {None}
  /\ rule \in [enabled : BOOLEAN, source : BOOLEAN,
               last_active : BOOLEAN, target_sync_valid : BOOLEAN]
  /\ fan \in [Outputs -> [on : BOOLEAN, power : Powers]]
  /\ disturbed \subseteq Outputs

Typed == TypeOK /\ Registry /\ ActiveIsSelected /\ WritesOK
RestOK == RestTyped /\ TargetHeld /\ MissesCounted /\ RuleExists

\* What TypeOK and the registry say, without the writes.
LEMMA TypedRest == Typed => RestOK /\ todo \in Seq(Writes) /\ WritesBounded
BY DEF Typed, TypeOK, Registry, RestOK, RestTyped, Writes

\* The requests keep the registry: a module that is lost is not under update.
LEMMA MissedRest ==
  ASSUME Typed, NEW o \in Outputs, online[o], o # module_fw_target,
         Kept(o) \/ Gone(o), UNCHANGED <<preferred_output_addr, module_fw_target>>
  PROVE  /\ online' \in [Outputs -> BOOLEAN]
         /\ consecutive_timeouts' \in [Outputs -> 0 .. MaxMisses]
         /\ active_output_addr' \in Outputs \cup {None}
         /\ enable_dirty' \in BOOLEAN /\ power_dirty' \in BOOLEAN
         /\ MissesCounted'
         /\ module_fw_target' # None => online'[module_fw_target']
         /\ {p \in Outputs : online'[p]} \subseteq {p \in Outputs : online[p]}
<1>0. RestOK
  BY TypedRest
<1>1. CASE Kept(o)
  <2>1. /\ online' = online /\ active_output_addr' = active_output_addr
        /\ enable_dirty' = enable_dirty /\ power_dirty' = power_dirty
    BY <1>1 DEF Kept, dirty
  <2>2. /\ consecutive_timeouts' \in [Outputs -> 0 .. MaxMisses]
        /\ MissesCounted'
    <3>1. /\ consecutive_timeouts' = [consecutive_timeouts EXCEPT ![o] = consecutive_timeouts[o] + 1]
          /\ consecutive_timeouts[o] + 1 < MaxMisses
          /\ consecutive_timeouts \in [Outputs -> 0 .. MaxMisses]
          /\ MaxMisses \in Nat
      BY <1>0, <1>1, OutputAssumption DEF Kept, RestOK, RestTyped
    <3>2. consecutive_timeouts[o] + 1 \in 0 .. MaxMisses
      BY <3>1
    <3> QED
      BY <1>0, <2>1, <3>1, <3>2 DEF MissesCounted, RestOK
  <2> QED
    BY <1>0, <2>1, <2>2 DEF RestOK, RestTyped, TargetHeld
<1>2. CASE Gone(o)
  <2>1. /\ online' = [online EXCEPT ![o] = FALSE]
        /\ consecutive_timeouts' = [consecutive_timeouts EXCEPT ![o] = MaxMisses]
        /\ active_output_addr' = Selected(preferred_output_addr, online')
        /\ enable_dirty' = TRUE /\ power_dirty' = TRUE
    BY <1>2 DEF Gone
  <2>2. online' \in [Outputs -> BOOLEAN] /\ preferred_output_addr \in Outputs \cup {None}
    BY <1>0, <2>1 DEF RestOK, RestTyped
  <2>3. active_output_addr' \in Outputs \cup {None}
    BY <2>1, <2>2, SelectedIsOnline
  <2>4. MaxMisses \in 0 .. MaxMisses
    BY OutputAssumption
  <2>5. consecutive_timeouts' \in [Outputs -> 0 .. MaxMisses] /\ MissesCounted'
    BY <1>0, <2>1, <2>4 DEF RestOK, RestTyped, MissesCounted
  <2>6. module_fw_target' # None => online'[module_fw_target']
    BY <1>0, <2>1 DEF RestOK, RestTyped, TargetHeld
  <2> QED
    BY <1>0, <2>1, <2>2, <2>3, <2>5, <2>6 DEF RestOK, RestTyped
<1> QED
  BY <1>1, <1>2

\* A command changes one fan, and that to a value it may have.
LEMMA EffectTyped ==
  ASSUME RestTyped, NEW item \in Writes,
         item.kind = "power" => desired.power # 0
  PROVE  Effect(item) \in [Outputs -> [on : BOOLEAN, power : Powers]]
<1>1. item.out \in Outputs /\ fan[item.out] \in [on : BOOLEAN, power : Powers]
  BY DEF Writes, RestTyped
<1>2. /\ desired.on \in BOOLEAN /\ rule.source \in BOOLEAN
      /\ item.kind = "power" => desired.power \in Powers
  BY DEF RestTyped
<1> QED
  BY <1>1, <1>2 DEF Effect, RestTyped

\* The command of the first write that is left leaves every fan with its type.
LEMMA HeadEffectTyped ==
  ASSUME Typed, Head(todo) \in Writes, ~Idle
  PROVE  Effect(Head(todo)) \in [Outputs -> [on : BOOLEAN, power : Powers]]
<1>1. RestTyped /\ todo \in Seq(Writes) /\ DecisionWhole
  BY TypedRest DEF RestOK, Typed, Registry
<1>2. 1 \in 1 .. Len(todo) /\ Head(todo) = todo[1]
  BY <1>1 DEF Idle
<1>3. Head(todo).kind = "power" => desired.power # 0
  BY <1>1, <1>2 DEF DecisionWhole, WritesOK, WriteOK, Typed
<1> QED
  BY <1>1, <1>3, EffectTyped

\* Only outputs have an OFF to come.
LEMMA PendingOutputs ==
  ASSUME todo \in Seq(Writes)
  PROVE  \A o : OffPending(o) => o \in Outputs
<1>1. \A i \in 1 .. Len(todo) : todo[i] \in Writes
  OBVIOUS
<1>2. \A w \in Writes : w.out \in Outputs
  BY DEF Writes
<1> QED
  BY <1>1, <1>2 DEF OffPending

\* Every handler, request, update and module keeps the types and the registry.
LEMMA RestStep ==
  Typed /\ [NextOutput]_outputVars => RestOK'
<1> SUFFICES ASSUME Typed, [NextOutput]_outputVars
             PROVE  RestOK'
  OBVIOUS
<1>0. RestOK /\ todo \in Seq(Writes)
  BY TypedRest
<1>s. \A p \in Outputs \cup {None}, on \in [Outputs -> BOOLEAN] :
        Selected(p, on) \in Outputs \cup {None}
  BY SelectedIsOnline
<1>r. todo # <<>> => Head(todo) \in Writes
  BY <1>0
<1>m. MaxMisses \in Nat \ {0} /\ 0 \in 0 .. MaxMisses /\ MaxMisses \in 0 .. MaxMisses
  BY OutputAssumption
<1> USE DEF RestOK, RestTyped, roles, registry, dirty
<1>1. ASSUME NEW on \in BOOLEAN, NEW power \in Powers \cup {0}, Decide(on, power)
      PROVE  RestOK'
  BY <1>0, <1>1 DEF Decide, TargetHeld, MissesCounted, RuleExists
<1>2. CASE MarkOutputDirty
  BY <1>0, <1>2 DEF MarkOutputDirty, TargetHeld, MissesCounted, RuleExists
<1>3. ASSUME NEW o \in Outputs \cup {None}, SelectOutput(o)
      PROVE  RestOK'
  BY <1>0, <1>s, <1>3 DEF SelectOutput, SelectRoles, TargetHeld, MissesCounted, RuleExists
<1>4. CASE Push
  BY <1>0, <1>4 DEF Push, TargetHeld, MissesCounted, RuleExists
<1>5. ASSUME NEW active \in BOOLEAN, RuleSource(active)
      PROVE  RestOK'
  BY <1>0, <1>5 DEF RuleSource, TargetHeld, MissesCounted, RuleExists
<1>6. CASE UpdateInputRouting
  BY <1>0, <1>6 DEF UpdateInputRouting, TargetHeld, MissesCounted, RuleExists
<1>7. ASSUME NEW active \in BOOLEAN, AddRule(active)
      PROVE  RestOK'
  <2>1. RuleTarget \in Outputs
    BY <1>7, OutputAssumption DEF AddRule
  <2> QED
    BY <1>0, <1>7, <2>1 DEF AddRule, TargetHeld, MissesCounted, RuleExists
<1>8. CASE RemoveRule
  BY <1>0, <1>8 DEF RemoveRule, TargetHeld, MissesCounted, RuleExists
<1>9. ASSUME NEW o \in Outputs, Reconnect(o)
      PROVE  RestOK'
  <2> DEFINE on == [online EXCEPT ![o] = TRUE]
  <2>1. /\ online' = on /\ on \in [Outputs -> BOOLEAN]
        /\ consecutive_timeouts' = [consecutive_timeouts EXCEPT ![o] = 0]
        /\ active_output_addr' = Selected(preferred_output_addr, on)
        /\ enable_dirty' = TRUE /\ power_dirty' = TRUE
        /\ UNCHANGED <<preferred_output_addr, desired, module_fw_target, rule, fan, disturbed>>
    BY <1>0, <1>9 DEF Reconnect, SelectRoles
  <2>2. active_output_addr' \in Outputs \cup {None}
    BY <1>0, <1>s, <2>1
  <2>3. MissesCounted' /\ TargetHeld' /\ RuleExists'
    BY <1>0, <1>m, <2>1 DEF TargetHeld, MissesCounted, RuleExists
  <2>4. consecutive_timeouts' \in [Outputs -> 0 .. MaxMisses]
    BY <1>0, <1>m, <2>1
  <2> HIDE DEF on
  <2> QED
    BY <1>0, <2>1, <2>2, <2>3, <2>4
<1>10. ASSUME NEW o \in Outputs, ModuleFwBegin(o)
       PROVE  RestOK'
  <2>1. /\ online[o] /\ module_fw_target' = o /\ disturbed' = disturbed \cup {o}
        /\ fan' \in {fan, [fan EXCEPT ![o].on = FALSE]}
        /\ UNCHANGED <<online, consecutive_timeouts, preferred_output_addr,
                       active_output_addr, desired, enable_dirty, power_dirty, rule>>
    BY <1>10 DEF ModuleFwBegin
  <2>2. fan' \in [Outputs -> [on : BOOLEAN, power : Powers]]
    <3>1. [fan EXCEPT ![o].on = FALSE] \in [Outputs -> [on : BOOLEAN, power : Powers]]
      BY <1>0
    <3> QED
      BY <1>0, <2>1, <3>1
  <2>3. disturbed' \subseteq Outputs /\ module_fw_target' \in Outputs \cup {None}
    BY <1>0, <2>1
  <2>4. MissesCounted' /\ TargetHeld' /\ RuleExists'
    BY <1>0, <2>1 DEF TargetHeld, MissesCounted, RuleExists
  <2> QED
    BY <1>0, <2>1, <2>2, <2>3, <2>4
<1>11. CASE ModuleFwAbort
  BY <1>0, <1>11 DEF ModuleFwAbort, TargetHeld, MissesCounted, RuleExists
<1>12. CASE ModuleFwEnd
  <2> DEFINE on == [online EXCEPT ![module_fw_target] = FALSE]
  <2>1. /\ module_fw_target \in Outputs /\ module_fw_target' = None
        /\ online' = on /\ on \in [Outputs -> BOOLEAN]
        /\ consecutive_timeouts' = [consecutive_timeouts EXCEPT ![module_fw_target] = MaxMisses]
        /\ active_output_addr' = Selected(preferred_output_addr, on)
        /\ enable_dirty' = TRUE /\ power_dirty' = TRUE
        /\ fan' = [fan EXCEPT ![module_fw_target].on = FALSE]
        /\ disturbed' = disturbed \cup Overtaken
        /\ UNCHANGED <<preferred_output_addr, desired, rule>>
    BY <1>0, <1>12 DEF ModuleFwEnd, Invalidate
  <2>2. active_output_addr' \in Outputs \cup {None}
    BY <1>0, <1>s, <2>1
  <2>3. MissesCounted' /\ TargetHeld' /\ RuleExists'
    BY <1>0, <1>m, <2>1 DEF TargetHeld, MissesCounted, RuleExists
  <2>4. consecutive_timeouts' \in [Outputs -> 0 .. MaxMisses]
    BY <1>0, <1>m, <2>1
  <2>5. fan' \in [Outputs -> [on : BOOLEAN, power : Powers]]
    BY <1>0, <2>1
  <2>6. disturbed' \subseteq Outputs
    BY <1>0, <2>1, PendingOutputs DEF Overtaken
  <2> HIDE DEF on
  <2> QED
    BY <1>0, <2>1, <2>2, <2>3, <2>4, <2>5, <2>6
<1>13. ASSUME NEW o \in Outputs, PollAnswered(o)
       PROVE  RestOK'
  BY <1>0, <1>m, <1>13 DEF PollAnswered, TargetHeld, MissesCounted, RuleExists
<1>14. ASSUME NEW o \in Outputs, PollUnanswered(o)
       PROVE  RestOK'
  <2>1. /\ online[o] /\ o # module_fw_target /\ Missed(o, <<>>, TRUE)
        /\ UNCHANGED <<preferred_output_addr, desired, module_fw_target, rule, fan, disturbed>>
    BY <1>14 DEF PollUnanswered
  <2>2. <<>> \in Seq(Writes)
    OBVIOUS
  <2>3. Kept(o) \/ Gone(o)
    BY <2>1, <2>2, MissedCases DEF Typed, Registry
  <2> QED
    BY <1>0, <2>1, <2>3, MissedRest DEF TargetHeld, RuleExists
<1>15. CASE Answered
  <2>1. /\ Head(todo) \in Writes /\ fan' = Effect(Head(todo))
        /\ consecutive_timeouts' = [consecutive_timeouts EXCEPT ![Head(todo).out] = 0]
        /\ Accepted(Head(todo))
        /\ UNCHANGED <<online, preferred_output_addr, active_output_addr, desired,
                       module_fw_target, disturbed>>
    BY <1>15, AnsweredIs DEF Typed
  <2>2. fan' \in [Outputs -> [on : BOOLEAN, power : Powers]]
    BY <1>15, <2>1, HeadEffectTyped DEF Answered
  <2>3. enable_dirty' \in BOOLEAN /\ power_dirty' \in BOOLEAN
    BY <2>1, Zenon DEF Accepted
  <2>4. /\ rule' \in [enabled : BOOLEAN, source : BOOLEAN,
                      last_active : BOOLEAN, target_sync_valid : BOOLEAN]
        /\ RuleExists'
    BY <1>0, <2>1 DEF Accepted, RuleExists
  <2>5. consecutive_timeouts' \in [Outputs -> 0 .. MaxMisses] /\ MissesCounted'
    <3>1. Head(todo).out \in Outputs
      BY <2>1 DEF Writes
    <3> QED
      BY <1>0, <1>m, <2>1, <3>1 DEF MissesCounted
  <2> QED
    BY <1>0, <2>1, <2>2, <2>3, <2>4, <2>5 DEF TargetHeld
<1>16. CASE Unanswered
  <2> DEFINE item == Head(todo)
  <2>1. /\ item \in Writes /\ (Kept(item.out) \/ Gone(item.out))
        /\ Sendable(item) /\ fan' \in {fan, Effect(item)}
        /\ Failed(item)
        /\ disturbed' = disturbed \cup Forgotten(item) \cup Overtaken
        /\ UNCHANGED <<preferred_output_addr, desired, module_fw_target>>
    BY <1>16, UnansweredIs DEF Typed
  <2>2. fan' \in [Outputs -> [on : BOOLEAN, power : Powers]]
    BY <1>0, <1>16, <2>1, HeadEffectTyped DEF Unanswered
  <2>3. /\ rule' \in [enabled : BOOLEAN, source : BOOLEAN,
                      last_active : BOOLEAN, target_sync_valid : BOOLEAN]
        /\ RuleExists'
    BY <1>0, <2>1 DEF Failed, RuleExists
  <2>4. disturbed' \subseteq Outputs
    <3>1. Forgotten(item) \subseteq Outputs
      BY <2>1 DEF Forgotten, Writes
    <3>2. Overtaken \subseteq Outputs
      BY <1>0, PendingOutputs DEF Overtaken
    <3> QED
      BY <1>0, <2>1, <3>1, <3>2
  <2>5. item.out \in Outputs /\ online[item.out] /\ item.out # module_fw_target
    BY <2>1 DEF Writes, Sendable
  <2> HIDE DEF item
  <2>6. /\ online' \in [Outputs -> BOOLEAN]
        /\ consecutive_timeouts' \in [Outputs -> 0 .. MaxMisses]
        /\ active_output_addr' \in Outputs \cup {None}
        /\ enable_dirty' \in BOOLEAN /\ power_dirty' \in BOOLEAN
        /\ MissesCounted'
        /\ module_fw_target' # None => online'[module_fw_target]
    BY <2>1, <2>5, MissedRest
  <2> QED
    BY <1>0, <2>1, <2>2, <2>3, <2>4, <2>6 DEF TargetHeld
<1>17. CASE Refused
  <2>1. /\ Head(todo) \in Writes /\ Failed(Head(todo))
        /\ disturbed' = disturbed \cup Forgotten(Head(todo))
        /\ UNCHANGED <<registry, roles, desired, dirty, module_fw_target, fan>>
    BY <1>17, RefusedIs DEF Typed
  <2>2. /\ rule' \in [enabled : BOOLEAN, source : BOOLEAN,
                      last_active : BOOLEAN, target_sync_valid : BOOLEAN]
        /\ RuleExists'
    BY <1>0, <2>1 DEF Failed, RuleExists
  <2>3. disturbed' \subseteq Outputs
    BY <1>0, <2>1 DEF Forgotten, Writes
  <2> QED
    BY <1>0, <2>1, <2>2, <2>3 DEF TargetHeld, MissesCounted
<1>18. CASE RuleWaits
  <2>1. /\ rule' = CASE ~online[RuleTarget] -> [rule EXCEPT !.target_sync_valid = FALSE]
                     [] online[RuleTarget] /\ RuleSynced -> rule
                     [] OTHER -> [rule EXCEPT !.last_active = FALSE, !.target_sync_valid = TRUE]
        /\ UNCHANGED <<registry, roles, desired, dirty, module_fw_target, fan, disturbed>>
    BY <1>18, RuleWaitsIs DEF Typed
  <2>2. /\ rule' \in [enabled : BOOLEAN, source : BOOLEAN,
                      last_active : BOOLEAN, target_sync_valid : BOOLEAN]
        /\ rule'.enabled = rule.enabled
    BY <1>0, <2>1
  <2> QED
    BY <1>0, <2>1, <2>2 DEF TargetHeld, MissesCounted, RuleExists
<1>19. ASSUME NEW o \in Outputs, Reboot(o) \/ Failsafe(o)
       PROVE  RestOK'
  <2>1. /\ disturbed' = disturbed \cup {o}
        /\ UNCHANGED <<online, consecutive_timeouts, preferred_output_addr,
                       active_output_addr, desired, enable_dirty, power_dirty,
                       module_fw_target, rule>>
    BY <1>19 DEF Reboot, Failsafe
  <2>2. CASE Reboot(o)
    <3>1. PICK power \in Powers : fan' = [fan EXCEPT ![o] = [on |-> FALSE, power |-> power]]
      BY <2>2 DEF Reboot
    <3>2. fan' \in [Outputs -> [on : BOOLEAN, power : Powers]]
      BY <1>0, <3>1
    <3> QED
      BY <1>0, <2>1, <3>2 DEF TargetHeld, MissesCounted, RuleExists
  <2>3. CASE Failsafe(o)
    <3>1. fan' = [fan EXCEPT ![o].on = FALSE]
      BY <2>3 DEF Failsafe
    <3>2. fan' \in [Outputs -> [on : BOOLEAN, power : Powers]]
      BY <1>0, <3>1
    <3> QED
      BY <1>0, <2>1, <3>2 DEF TargetHeld, MissesCounted, RuleExists
  <2> QED
    BY <1>19, <2>2, <2>3
<1>20. CASE UNCHANGED outputVars
  BY <1>0, <1>20 DEF outputVars, TargetHeld, MissesCounted, RuleExists
<1> QED
  BY <1>1, <1>2, <1>3, <1>4, <1>5, <1>6, <1>7, <1>8, <1>9, <1>10, <1>11, <1>12,
     <1>13, <1>14, <1>15, <1>16, <1>17, <1>18, <1>19, <1>20
     DEF NextOutput, Handler, Update, Request, Module

\* The modules that are online are finitely many.
LEMMA OnlineCount ==
  ASSUME NEW on \in [Outputs -> BOOLEAN]
  PROVE  /\ IsFiniteSet({o \in Outputs : on[o]})
         /\ Cardinality({o \in Outputs : on[o]}) \in Nat
         /\ Cardinality({o \in Outputs : on[o]}) <= Cardinality(Outputs)
         /\ Cardinality(Outputs) \in Nat
<1>1. IsFiniteSet(Outputs) /\ {o \in Outputs : on[o]} \subseteq Outputs
  BY OutputAssumption
<1> HIDE DEF None
<1>2. /\ IsFiniteSet({o \in Outputs : on[o]})
      /\ Cardinality({o \in Outputs : on[o]}) <= Cardinality(Outputs)
  BY <1>1, FS_Subset
<1>3. Cardinality(Outputs) \in Nat /\ Cardinality({o \in Outputs : on[o]}) \in Nat
  BY <1>1, <1>2, FS_CardinalityType
<1> QED
  BY <1>2, <1>3

\* The OFF commands to a former output, with or without the routing.
LEMMA DropsIs ==
  ASSUME RestOK, NEW next, NEW on, NEW routes \in BOOLEAN,
         NEW t, t = Drops(next, on) \o When(routes, Routing)
  PROVE  /\ t \in Seq(Writes) /\ Len(t) <= 3
         /\ \A i \in 1 .. Len(t) :
              \/ t[i] = Item("rule", RuleTarget) /\ rule.enabled
              \/ /\ t[i].kind \in {"dropPower", "dropEnable"}
                 /\ t[i].out = active_output_addr /\ next # active_output_addr
<1> DEFINE r == When(routes, Routing)
           d == Drops(next, on)
<1>1. /\ r \in Seq(Writes) /\ Len(r) \in Nat /\ Len(r) <= 1
      /\ \A i \in 1 .. Len(r) : rule.enabled /\ r[i] = Item("rule", RuleTarget)
  <2>1. OnlyRule(r)
    BY RoutingOnlyRule DEF RestOK
  <2> QED
    BY <2>1 DEF OnlyRule
<1>2. CASE d = <<>>
  <2>1. d \o r = r
    BY <1>1, <1>2
  <2> QED
    BY <1>1, <2>1
<1>3. CASE d # <<>>
  <2>1. /\ d = <<Item("dropPower", active_output_addr), Item("dropEnable", active_output_addr)>>
        /\ next # active_output_addr /\ active_output_addr # None
    BY <1>3 DEF Drops, When
  <2>2. /\ d \in Seq(Writes) /\ Len(d) = 2
        /\ \A i \in 1 .. 2 : /\ d[i].kind \in {"dropPower", "dropEnable"}
                             /\ d[i].out = active_output_addr
    BY <2>1 DEF Item, Writes, Kinds, RestOK, RestTyped
  <2> HIDE DEF d, r
  <2>3. /\ d \o r \in Seq(Writes) /\ Len(d \o r) = 2 + Len(r)
        /\ \A i \in 1 .. 2 + Len(r) : (d \o r)[i] = IF i <= 2 THEN d[i] ELSE r[i - 2]
    <3>1. d \in Seq(Writes) /\ r \in Seq(Writes) /\ Len(d) = 2
      BY <1>1, <2>2
    <3>2. /\ d \o r \in Seq(Writes) /\ Len(d \o r) = Len(d) + Len(r)
          /\ \A i \in 1 .. Len(d) + Len(r) :
               (d \o r)[i] = IF i <= Len(d) THEN d[i] ELSE r[i - Len(d)]
      BY <3>1, ConcatProperties
    <3> QED
      BY <3>1, <3>2
  <2>4. ASSUME NEW i \in 1 .. 2 + Len(r)
        PROVE  \/ (d \o r)[i] = Item("rule", RuleTarget) /\ rule.enabled
               \/ /\ (d \o r)[i].kind \in {"dropPower", "dropEnable"}
                  /\ (d \o r)[i].out = active_output_addr /\ next # active_output_addr
    <3>1. CASE i <= 2
      <4>1. i \in 1 .. 2
        BY <3>1
      <4> QED
        BY <2>1, <2>2, <2>3, <3>1, <4>1
    <3>2. CASE ~(i <= 2)
      <4>1. i - 2 \in 1 .. Len(r)
        BY <1>1, <3>2
      <4> QED
        BY <1>1, <2>3, <3>2, <4>1
    <3> QED
      BY <3>1, <3>2
  <2> QED
    BY <1>1, <2>3, <2>4 DEF d, r
<1> QED
  BY <1>2, <1>3

\* What a push has to write.
LEMMA PushItemsAre ==
  ASSUME RestOK, active_output_addr # None
  PROVE  LET t == PushItems(active_output_addr)
         IN /\ t \in Seq(Writes) /\ Len(t) <= 2
            /\ \A i \in 1 .. Len(t) :
                 /\ t[i].kind \in PushKinds /\ t[i].out = active_output_addr
                 /\ t[i].kind = "power" => desired.on
                 /\ t[i].kind = "enable" =>
                      /\ enable_dirty
                      /\ desired.on /\ power_dirty =>
                           i = 2 /\ t[1] = Item("power", active_output_addr)
            /\ t = <<>> => ~enable_dirty /\ ~(desired.on /\ power_dirty)
<1> DEFINE o == active_output_addr
           t == PushItems(o)
           power == Item("power", o)
           enable == Item("enable", o)
<1>0. o \in Outputs /\ power \in Writes /\ enable \in Writes
  BY DEF RestOK, RestTyped, Item, Writes, Kinds
<1>k. /\ power.kind = "power" /\ power.out = o
      /\ enable.kind = "enable" /\ enable.out = o
      /\ "power" \in PushKinds /\ "enable" \in PushKinds /\ "power" # "enable"
  BY DEF Item, PushKinds
<1>t. t = When(desired.on /\ power_dirty, <<power>>) \o When(enable_dirty, <<enable>>)
  BY DEF PushItems
<1> HIDE DEF power, enable
<1>c. /\ <<power>> \in Seq(Writes) /\ <<enable>> \in Seq(Writes) /\ <<>> \in Seq(Writes)
      /\ LET both == <<power>> \o <<enable>>
         IN both \in Seq(Writes) /\ Len(both) = 2 /\ both[1] = power /\ both[2] = enable
      /\ <<power>> \o <<>> = <<power>> /\ <<>> \o <<enable>> = <<enable>>
      /\ <<>> \o <<>> = <<>>
  <2>1. <<power>> \in Seq(Writes) /\ <<enable>> \in Seq(Writes) /\ <<>> \in Seq(Writes)
    BY <1>0
  <2>2. LET both == <<power>> \o <<enable>>
        IN both \in Seq(Writes) /\ Len(both) = 2 /\ both[1] = power /\ both[2] = enable
    <3>1. /\ Len(<<power>>) = 1 /\ Len(<<enable>>) = 1
          /\ <<power>>[1] = power /\ <<enable>>[1] = enable
      OBVIOUS
    <3> QED
      BY <2>1, <3>1, ConcatProperties
  <2>3. <<power>> \o <<>> = <<power>> /\ <<>> \o <<enable>> = <<enable>>
    BY <2>1
  <2>4. <<>> \o <<>> = <<>>
    BY <2>1
  <2> QED
    BY <2>1, <2>2, <2>3, <2>4
<1> HIDE DEF t
<1>1. CASE desired.on /\ power_dirty /\ enable_dirty
  <2>1. t = <<power>> \o <<enable>>
    BY <1>1, <1>t DEF When
  <2>2. t \in Seq(Writes) /\ Len(t) = 2 /\ t[1] = power /\ t[2] = enable
    BY <1>c, <2>1
  <2>3. \A i \in 1 .. 2 : i = 1 \/ i = 2
    OBVIOUS
  <2> QED
    BY <1>1, <1>k, <2>2, <2>3 DEF t, o, power
<1>2. CASE desired.on /\ power_dirty /\ ~enable_dirty
  <2>1. t = <<power>>
    BY <1>2, <1>t, <1>c DEF When
  <2>2. t \in Seq(Writes) /\ Len(t) = 1 /\ t[1] = power
    BY <1>0, <2>1
  <2>3. \A i \in 1 .. 1 : i = 1
    OBVIOUS
  <2> QED
    BY <1>2, <1>k, <2>2, <2>3 DEF t
<1>3. CASE ~(desired.on /\ power_dirty) /\ enable_dirty
  <2>1. t = <<enable>>
    BY <1>3, <1>t, <1>c DEF When
  <2>2. t \in Seq(Writes) /\ Len(t) = 1 /\ t[1] = enable
    BY <1>0, <2>1
  <2>3. \A i \in 1 .. Len(t) : t[i] = enable
    BY <2>2
  <2>4. Len(t) <= 2 /\ t # <<>>
    BY <2>2
  <2> QED
    BY <1>3, <1>k, <2>2, <2>3, <2>4, Zenon DEF t
<1>4. CASE ~(desired.on /\ power_dirty) /\ ~enable_dirty
  <2>1. t = <<>>
    BY <1>4, <1>t, <1>c DEF When
  <2>2. t \in Seq(Writes) /\ Len(t) = 0
    BY <2>1
  <2> QED
    BY <1>4, <2>2 DEF t
<1> QED
  BY <1>1, <1>2, <1>3, <1>4, Zenon

(***************************************************************************)
(* The writes that are left keep what holds of them.                       *)
(***************************************************************************)

\* Only Decide changes the decision, and it decides on both halves at once.
LEMMA DecisionStep ==
  DecisionWhole /\ [NextOutput]_outputVars => DecisionWhole'
<1> SUFFICES ASSUME DecisionWhole, [NextOutput]_outputVars
             PROVE  DecisionWhole'
  OBVIOUS
<1>1. ASSUME NEW on \in BOOLEAN, NEW power \in Powers \cup {0}, Decide(on, power)
      PROVE  DecisionWhole'
  BY <1>1 DEF Decide, DecisionWhole
<1>2. ASSUME UNCHANGED desired PROVE DecisionWhole'
  BY <1>2 DEF DecisionWhole
<1>3. MarkOutputDirty \/ Push \/ UpdateInputRouting \/ RemoveRule => UNCHANGED desired
  BY DEF MarkOutputDirty, Push, UpdateInputRouting, RemoveRule
<1>4. \A o : SelectOutput(o) \/ Reconnect(o) \/ PollAnswered(o) \/ PollUnanswered(o)
               => UNCHANGED desired
  BY DEF SelectOutput, Reconnect, PollAnswered, PollUnanswered
<1>5. \A active : RuleSource(active) \/ AddRule(active) => UNCHANGED desired
  BY DEF RuleSource, AddRule
<1>6. ModuleFwAbort \/ ModuleFwEnd => UNCHANGED desired
  BY DEF ModuleFwAbort, ModuleFwEnd
<1>7. \A o : ModuleFwBegin(o) \/ Reboot(o) \/ Failsafe(o) => UNCHANGED desired
  BY DEF ModuleFwBegin, Reboot, Failsafe
<1>8. Request => UNCHANGED desired
  BY DEF Request, Answered, Unanswered, Refused, RuleWaits
<1>9. UNCHANGED outputVars => UNCHANGED desired
  BY DEF outputVars
<1> QED
  BY <1>1, <1>2, <1>3, <1>4, <1>5, <1>6, <1>7, <1>8, <1>9, Zenon
     DEF NextOutput, Handler, Update, Module

\* An enable that starts a fan comes after the set point, or finds it written.
EnableReady ==
  \A i \in 1 .. Len(todo) :
    /\ todo[i].kind = "enable" /\ desired.on
    /\ online[todo[i].out] /\ todo[i].out \notin disturbed
    => \/ fan[todo[i].out].power = desired.power
       \/ \E j \in 1 .. i - 1 : todo[j] = Item("power", todo[i].out)

\* The OFF of a removed rule is the only write of its handler.
RuleOffAlone == \A i \in 1 .. Len(todo) : todo[i].kind = "ruleOff" => Len(todo) = 1

\* The fan of a settled output has the state the master believes it has: the set
\* point, and the enable unless the rule has something to say.
Settled(o) == o = active_output_addr /\ o # None /\ o \notin disturbed

PowerWritten ==
  \A o \in Outputs : Settled(o) /\ desired.on /\ ~power_dirty => fan[o].power = desired.power

RunsWhenWanted ==
  \A o \in Outputs : Settled(o) /\ desired.on /\ ~enable_dirty => fan[o].on

StopsUnlessHeld ==
  \A o \in Outputs :
    Settled(o) /\ ~desired.on /\ ~enable_dirty /\ fan[o].on =>
      RuleHolds(o) \/ \E i \in 1 .. Len(todo) : todo[i] = Item("ruleOff", o)

\* A rule whose source is active has switched its target on, or knows that it has not,
\* or has its turn before the next push.
RuleInStep ==
  rule.enabled /\ rule.source =>
    \/ rule.last_active \/ ~rule.target_sync_valid
    \/ /\ \E i \in 1 .. Len(todo) : todo[i].kind = "rule"
       /\ \A i \in 1 .. Len(todo) : todo[i].kind \notin PushKinds

WritesInv == todo \in Seq(Writes) /\ WritesBounded /\ WritesOK /\ RuleOffAlone /\ EnableReady
FanInv == PowerWritten /\ RunsWhenWanted /\ StopsUnlessHeld /\ RuleInStep
OutputInv == Typed /\ RuleOffAlone /\ EnableReady /\ FanInv

\* Turns of the rule satisfy everything that is asked of writes.
LEMMA OnlyRuleWrites ==
  ASSUME RestOK', todo' \in Seq(Writes), Len(todo') <= 1,
         \A i \in 1 .. Len(todo') : rule'.enabled /\ todo'[i] = Item("rule", RuleTarget)
  PROVE  WritesInv'
<1>1. /\ todo' \in Seq(Writes) /\ Len(todo') <= 1
      /\ \A i \in 1 .. Len(todo') : rule'.enabled /\ todo'[i] = Item("rule", RuleTarget)
  OBVIOUS
<1>2. \A i \in 1 .. Len(todo') : todo'[i].kind = "rule" /\ todo'[i].out = RuleTarget
  BY <1>1 DEF Item
<1>3. WritesOK'
  BY <1>1, <1>2 DEF WritesOK, WriteOK, PushKinds
<1>4. RuleOffAlone' /\ EnableReady'
  BY <1>2 DEF RuleOffAlone, EnableReady
<1>5. WritesBounded'
  <2>1. online' \in [Outputs -> BOOLEAN]
    BY DEF RestOK, RestTyped
  <2>2. /\ Cardinality({o \in Outputs : online'[o]}) \in Nat
        /\ Cardinality({o \in Outputs : online'[o]}) <= Cardinality(Outputs)
        /\ Cardinality(Outputs) \in Nat
    BY <2>1, OnlineCount
  <2>3. Len(todo') \in Nat
    BY <1>1
  <2> QED
    BY <1>1, <2>2, <2>3 DEF WritesBounded
<1> QED
  BY <1>1, <1>3, <1>4, <1>5 DEF WritesInv

\* What holds of the writes that are left goes on holding of those that are kept.
LEMMA KeepsWrites ==
  ASSUME todo \in Seq(Writes), WritesOK, RuleOffAlone,
         NEW f \in 1 .. 2, Keeps(todo, todo', f), rule.enabled => rule'.enabled,
         \A w \in Writes : /\ WriteOK(w)
                           /\ w.kind \in OffKinds => OffPending(w.out)
                           => WriteOK(w)'
  PROVE  todo' \in Seq(Writes) /\ WritesOK' /\ RuleOffAlone'
<1>1. /\ todo' \in Seq(Writes) /\ Len(todo') <= Len(todo) + 2 - f
      /\ ~rule.enabled => Len(todo') <= Len(todo) + 1 - f
  BY DEF Keeps
<1>2. ASSUME NEW k \in 1 .. Len(todo')
      PROVE  \/ todo'[k] = Item("rule", RuleTarget) /\ rule.enabled
             \/ \E m \in 1 .. Len(todo) : todo'[k] = todo[m]
  <2>1. \A m \in f .. Len(todo) : m \in 1 .. Len(todo)
    BY <1>1
  <2> QED
    BY <2>1 DEF Keeps
<1>3. ASSUME NEW k \in 1 .. Len(todo'), NEW w \in Writes, todo'[k] = w
      PROVE  WriteOK(w)'
  <2>1. ASSUME w = Item("rule", RuleTarget), rule.enabled
        PROVE  WriteOK(w)'
    <3>1. w.kind = "rule" /\ w.out = RuleTarget
      BY <2>1 DEF Item
    <3> QED
      BY <2>1, <3>1 DEF WriteOK, PushKinds
  <2>2. ASSUME NEW m \in 1 .. Len(todo), w = todo[m]
        PROVE  WriteOK(w)'
    <3>1. WriteOK(w)
      BY <2>2 DEF WritesOK
    <3>2. w.kind \in OffKinds => OffPending(w.out)
      BY <2>2 DEF OffPending
    <3> QED
      BY <3>1, <3>2
  <2> QED
    BY <1>2, <1>3, <2>1, <2>2
<1>4. ASSUME NEW k \in 1 .. Len(todo'), todo'[k].kind = "ruleOff"
      PROVE  Len(todo') = 1
  <2>1. PICK m \in 1 .. Len(todo) : todo'[k] = todo[m]
    <3>1. todo'[k] # Item("rule", RuleTarget)
      BY <1>4 DEF Item
    <3> QED
      BY <1>2, <3>1
  <2>2. Len(todo) = 1 /\ ~rule.enabled
    BY <1>4, <2>1 DEF RuleOffAlone, WritesOK, WriteOK
  <2>3. Len(todo') \in Nat /\ Len(todo') <= 1 + 1 - f
    BY <1>1, <2>2
  <2>4. PICK n \in Nat : n = Len(todo')
    BY <2>3
  <2>5. n <= 2 - f /\ k \in 1 .. n /\ f \in 1 .. 2
    BY <2>3, <2>4
  <2>6. n = 1
    BY <2>5
  <2> QED
    BY <2>4, <2>6
<1>5. \A k \in 1 .. Len(todo') : todo'[k] \in Writes
  BY <1>1
<1>6. WritesOK'
  BY <1>3, <1>5 DEF WritesOK, WriteOK
<1>7. RuleOffAlone'
  BY <1>4 DEF RuleOffAlone
<1> QED
  BY <1>1, <1>6, <1>7

\* A push that goes on finds its set point written.
LEMMA KeepsReady ==
  ASSUME todo \in Seq(Writes), EnableReady, UNCHANGED desired,
         NEW f \in 1 .. 2, Keeps(todo, todo', f),
         \A o \in Outputs : online'[o] => online[o],
         disturbed \subseteq disturbed',
         \A o \in Outputs : o \in disturbed' \/ fan'[o].power \in {fan[o].power, desired.power},
         f = 2 => \A o \in Outputs : todo[1] = Item("power", o) => fan'[o].power = desired.power
  PROVE  EnableReady'
<1> SUFFICES ASSUME NEW k \in 1 .. Len(todo'),
                    todo'[k].kind = "enable", desired.on,
                    online'[todo'[k].out], todo'[k].out \notin disturbed'
             PROVE  \/ fan'[todo'[k].out].power = desired.power
                    \/ \E j \in 1 .. k - 1 : todo'[j] = Item("power", todo'[k].out)
  BY DEF EnableReady
<1> DEFINE o == todo'[k].out
<1>1. PICK m \in f .. Len(todo) :
        todo'[k] = todo[m] /\ \A j \in f .. m - 1 : \E l \in 1 .. k - 1 : todo'[l] = todo[j]
  <2>1. todo'[k] # Item("rule", RuleTarget)
    BY DEF Item
  <2> QED
    BY <2>1 DEF Keeps
<1>2. m \in 1 .. Len(todo) /\ todo[m] \in Writes
  <2>1. Len(todo) \in Nat
    OBVIOUS
  <2> QED
    BY <2>1
<1>3. o \in Outputs /\ online[o] /\ o \notin disturbed
  BY <1>1, <1>2 DEF Writes
<1>4. \/ fan[o].power = desired.power
      \/ \E j \in 1 .. m - 1 : todo[j] = Item("power", o)
  BY <1>1, <1>2, <1>3 DEF EnableReady
<1>5. ASSUME fan[o].power = desired.power
      PROVE  fan'[o].power = desired.power
  BY <1>3, <1>5
<1>6. ASSUME NEW j \in 1 .. m - 1, todo[j] = Item("power", o)
      PROVE  \/ fan'[o].power = desired.power
             \/ \E l \in 1 .. k - 1 : todo'[l] = Item("power", o)
  <2>1. CASE f = 2 /\ j = 1
    BY <1>3, <1>6, <2>1
  <2>2. CASE ~(f = 2 /\ j = 1)
    <3>1. j \in f .. m - 1
      BY <1>2, <2>2
    <3> QED
      BY <1>1, <1>6, <3>1
  <2> QED
    BY <2>1, <2>2
<1> QED
  BY <1>4, <1>5, <1>6

\* What a command does to the fans.
LEMMA EffectIs ==
  ASSUME RestOK, NEW item \in Writes, NEW o \in Outputs
  PROVE  /\ o # item.out => Effect(item)[o] = fan[o]
         /\ Effect(item)[o].power \in {fan[o].power, desired.power}
         /\ item.kind # "power" => Effect(item)[o].power = fan[o].power
         /\ item = Item("power", o) => Effect(item)[o].power = desired.power
         /\ item.kind = "power" /\ o = item.out => Effect(item)[o].power = desired.power
         /\ item.kind = "power" => Effect(item)[o].on = fan[o].on
         /\ item.kind = "enable" /\ o = item.out => Effect(item)[o].on = desired.on
         /\ item.kind = "rule" /\ o = item.out => Effect(item)[o].on = rule.source
         /\ item.kind \in OffKinds => (Effect(item)[o].on => fan[o].on)
         /\ item.kind \in OffKinds /\ o = item.out => Effect(item)[o].on = FALSE
<1>1. /\ fan \in [Outputs -> [on : BOOLEAN, power : Powers]]
      /\ item.out \in Outputs /\ item.kind \in Kinds
  BY DEF RestOK, RestTyped, Writes
<1>2. CASE item.kind = "power"
  <2>1. Effect(item) = [fan EXCEPT ![item.out].power = desired.power]
    BY <1>2 DEF Effect
  <2> QED
    BY <1>1, <1>2, <2>1 DEF Item, OffKinds
<1>3. CASE item.kind = "enable"
  <2>1. Effect(item) = [fan EXCEPT ![item.out].on = desired.on]
    BY <1>3 DEF Effect
  <2> QED
    BY <1>1, <1>3, <2>1 DEF Item, OffKinds
<1>4. CASE item.kind = "rule"
  <2>1. Effect(item) = [fan EXCEPT ![item.out].on = rule.source]
    BY <1>4 DEF Effect
  <2> QED
    BY <1>1, <1>4, <2>1 DEF Item, OffKinds
<1>5. CASE item.kind \in OffKinds
  <2>1. Effect(item) = [fan EXCEPT ![item.out].on = FALSE]
    BY <1>5 DEF Effect, OffKinds
  <2>2. item.kind \notin {"power", "enable", "rule"} /\ item # Item("power", o)
    BY <1>5 DEF Item, OffKinds
  <2>3. /\ o # item.out => Effect(item)[o] = fan[o]
        /\ Effect(item)[o].power = fan[o].power
        /\ o = item.out => Effect(item)[o].on = FALSE
    BY <1>1, <2>1
  <2> QED
    BY <2>2, <2>3
<1> QED
  BY <1>1, <1>2, <1>3, <1>4, <1>5 DEF Kinds, OffKinds

\* No more than three writes are within the bound, whatever is online.
LEMMA FewWrites ==
  ASSUME RestOK', todo' \in Seq(Writes), Len(todo') <= 3
  PROVE  WritesBounded'
<1>1. online' \in [Outputs -> BOOLEAN]
  BY DEF RestOK, RestTyped
<1>2. /\ Cardinality({o \in Outputs : online'[o]}) \in Nat
      /\ Cardinality({o \in Outputs : online'[o]}) <= Cardinality(Outputs)
      /\ Cardinality(Outputs) \in Nat
  BY <1>1, OnlineCount
<1>3. Len(todo') \in Nat
  OBVIOUS
<1> QED
  BY <1>2, <1>3 DEF WritesBounded

\* A step that takes no module online and adds no write stays within the bound.
LEMMA NoMoreWrites ==
  ASSUME RestOK, todo \in Seq(Writes), WritesBounded, todo' \in Seq(Writes),
         Len(todo') <= Len(todo),
         {o \in Outputs : online'[o]} \subseteq {o \in Outputs : online[o]}
  PROVE  WritesBounded'
<1> DEFINE before == {o \in Outputs : online[o]}
           after == {o \in Outputs : online'[o]}
<1>1. /\ IsFiniteSet(before) /\ Cardinality(before) \in Nat
      /\ Cardinality(Outputs) \in Nat
  BY OnlineCount DEF RestOK, RestTyped
<1>2. after \subseteq before
  OBVIOUS
<1>3. Len(todo) + Cardinality(before) <= 3 + Cardinality(Outputs)
  BY DEF WritesBounded
<1> HIDE DEF before, after
<1>4. Cardinality(after) \in Nat /\ Cardinality(after) <= Cardinality(before)
  BY <1>1, <1>2, FS_Subset, FS_CardinalityType
<1>5. Len(todo) \in Nat /\ Len(todo') \in Nat
  OBVIOUS
<1>6. Len(todo') + Cardinality(after) <= 3 + Cardinality(Outputs)
  BY <1>1, <1>3, <1>4, <1>5
<1> QED
  BY <1>6 DEF WritesBounded, after

\* The end of an update takes its module offline and adds the routing at most.
LEMMA OneMoreWrite ==
  ASSUME RestOK, todo \in Seq(Writes), WritesBounded, todo' \in Seq(Writes),
         Len(todo') <= Len(todo) + 1,
         NEW o \in Outputs, online[o], online' = [online EXCEPT ![o] = FALSE]
  PROVE  WritesBounded'
<1> DEFINE before == {p \in Outputs : online[p]}
           after == {p \in Outputs : online'[p]}
<1>1. /\ IsFiniteSet(before) /\ Cardinality(before) \in Nat
      /\ Cardinality(Outputs) \in Nat
  BY OnlineCount DEF RestOK, RestTyped
<1>2. after = before \ {o} /\ o \in before
  BY DEF RestOK, RestTyped
<1>3. Len(todo) + Cardinality(before) <= 3 + Cardinality(Outputs)
  BY DEF WritesBounded
<1> HIDE DEF before, after
<1>4. Cardinality(after) = Cardinality(before) - 1
  BY <1>1, <1>2, FS_RemoveElement
<1>5. Len(todo) \in Nat /\ Len(todo') \in Nat
  OBVIOUS
<1>6. Len(todo') + Cardinality(after) <= 3 + Cardinality(Outputs)
  BY <1>1, <1>3, <1>4, <1>5
<1> QED
  BY <1>6 DEF WritesBounded, after

\* A request, answered or not, and the end of an update: the roles change only with the
\* loss of the active output, and an OFF that reaches the new one is recorded.
LEMMA WriteStays ==
  ASSUME RestOK, RestOK', NEW w \in Writes, WriteOK(w),
         w.kind \in OffKinds => OffPending(w.out),
         UNCHANGED desired, rule'.enabled = rule.enabled, rule'.source = rule.source,
         \/ UNCHANGED <<online, active_output_addr>>
         \/ /\ \E o \in Outputs : Gone(o)
            /\ Overtaken \subseteq disturbed',
         disturbed \subseteq disturbed'
  PROVE  WriteOK(w)'
<1>1. CASE UNCHANGED <<online, active_output_addr>>
  BY <1>1 DEF WriteOK, RuleOwns, RuleOn
<1>2. CASE (\E o \in Outputs : Gone(o)) /\ Overtaken \subseteq disturbed'
  <2>1. PICK o \in Outputs : Gone(o)
    BY <1>2
  <2>2. /\ online' = [online EXCEPT ![o] = FALSE]
        /\ active_output_addr # o => active_output_addr' = active_output_addr
    BY <2>1 DEF Gone
  <2>3. w.out \in Outputs /\ online \in [Outputs -> BOOLEAN]
    BY DEF Writes, RestOK, RestTyped
  <2>4. w.kind \in PushKinds => w.out = active_output_addr' \/ ~online'[w.out]
    BY <2>2, <2>3 DEF WriteOK
  <2>5. w.kind \in OffKinds /\ w.out = active_output_addr' => w.out \in disturbed'
    BY <1>2 DEF Overtaken
  <2> QED
    BY <2>4, <2>5 DEF WriteOK, RuleOwns, RuleOn, OffKinds
<1> QED
  BY <1>1, <1>2

\* Selecting anew: the OFF commands are for an output that is no longer active.
LEMMA DropsWrites ==
  ASSUME RestOK, RestOK', NEW next, NEW on, NEW routes \in BOOLEAN, UNCHANGED rule,
         todo' = Drops(next, on) \o When(routes, Routing), active_output_addr' = next
  PROVE  WritesInv'
<1>1. /\ todo' \in Seq(Writes) /\ Len(todo') <= 3
      /\ \A i \in 1 .. Len(todo') :
           \/ todo'[i] = Item("rule", RuleTarget) /\ rule.enabled
           \/ /\ todo'[i].kind \in {"dropPower", "dropEnable"}
              /\ todo'[i].out = active_output_addr /\ next # active_output_addr
  <2>1. \A t : t = Drops(next, on) \o When(routes, Routing) =>
          /\ t \in Seq(Writes) /\ Len(t) <= 3
          /\ \A i \in 1 .. Len(t) :
               \/ t[i] = Item("rule", RuleTarget) /\ rule.enabled
               \/ /\ t[i].kind \in {"dropPower", "dropEnable"}
                  /\ t[i].out = active_output_addr /\ next # active_output_addr
    BY DropsIs
  <2> QED
    BY <2>1
<1>2. \A i \in 1 .. Len(todo') :
        \/ todo'[i].kind = "rule" /\ todo'[i].out = RuleTarget /\ rule'.enabled
        \/ todo'[i].kind \in {"dropPower", "dropEnable"} /\ todo'[i].out # active_output_addr'
  BY <1>1 DEF Item
<1>3. WritesOK'
  BY <1>2 DEF WritesOK, WriteOK, PushKinds
<1>4. RuleOffAlone' /\ EnableReady'
  BY <1>2 DEF RuleOffAlone, EnableReady
<1> QED
  BY <1>1, <1>3, <1>4, FewWrites DEF WritesInv

\* A step that leaves the writes alone, and what they are about.
LEMMA SameWrites ==
  ASSUME RestOK, WritesInv,
         UNCHANGED <<todo, online, active_output_addr, desired, rule>>,
         disturbed \subseteq disturbed',
         \A o \in Outputs : o \in disturbed' \/ fan'[o].power = fan[o].power
  PROVE  WritesInv'
<1>1. todo' \in Seq(Writes) /\ WritesBounded' /\ RuleOffAlone'
  BY DEF WritesInv, WritesBounded, RuleOffAlone
<1>2. WritesOK'
  BY DEF WritesInv, WritesOK, WriteOK, RuleOwns, RuleOn
<1>3. \A i \in 1 .. Len(todo) : todo[i].out \in Outputs
  <2>1. \A i \in 1 .. Len(todo) : todo[i] \in Writes
    BY DEF WritesInv
  <2>2. \A w \in Writes : w.out \in Outputs
    BY DEF Writes
  <2> QED
    BY <2>1, <2>2
<1>4. EnableReady'
  <2> SUFFICES ASSUME NEW i \in 1 .. Len(todo), todo[i].kind = "enable", desired.on,
                      online[todo[i].out], todo[i].out \notin disturbed'
               PROVE  \/ fan'[todo[i].out].power = desired.power
                      \/ \E j \in 1 .. i - 1 : todo[j] = Item("power", todo[i].out)
    BY DEF EnableReady
  <2>1. todo[i].out \notin disturbed /\ fan'[todo[i].out].power = fan[todo[i].out].power
    BY <1>3
  <2> QED
    BY <2>1 DEF WritesInv, EnableReady
<1> QED
  BY <1>1, <1>2, <1>4 DEF WritesInv

\* A push writes the set point before the enable, unless the fan has it already.
LEMMA PushWrites ==
  ASSUME RestOK, RestOK', WritesInv, PowerWritten, Push
  PROVE  WritesInv'
<1> DEFINE o == active_output_addr
<1>1. /\ Idle /\ UNCHANGED <<online, active_output_addr, desired, rule, fan>>
  BY DEF Push, registry, roles
<1>2. CASE o = None \/ RuleKeepsOn(o)
  <2>1. UNCHANGED <<todo, disturbed>>
    BY <1>2 DEF Push
  <2> QED
    BY <1>1, <2>1, SameWrites
<1>3. CASE ~(o = None \/ RuleKeepsOn(o))
  <2>1. /\ todo' = PushItems(o)
        /\ disturbed' = IF PushIsComplete THEN disturbed \ {o} ELSE disturbed
    BY <1>3 DEF Push
  <2>2. o # None /\ ~RuleKeepsOn(o)
    BY <1>3
  <2>3. /\ todo' \in Seq(Writes) /\ Len(todo') <= 2
        /\ \A i \in 1 .. Len(todo') :
             /\ todo'[i].kind \in PushKinds /\ todo'[i].out = o
             /\ todo'[i].kind = "power" => desired.on
             /\ todo'[i].kind = "enable" =>
                  /\ enable_dirty
                  /\ desired.on /\ power_dirty => i = 2 /\ todo'[1] = Item("power", o)
    BY <2>1, <2>2, PushItemsAre
  <2>4. WritesOK'
    <3>1. ~desired.on => ~RuleOwns(o)
      BY <2>2 DEF RuleKeepsOn
    <3> QED
      BY <1>1, <2>3, <3>1 DEF WritesOK, WriteOK, PushKinds, RuleOwns, RuleOn
  <2>5. RuleOffAlone'
    BY <2>3 DEF RuleOffAlone, PushKinds
  <2>6. EnableReady'
    <3> SUFFICES ASSUME NEW i \in 1 .. Len(todo'), todo'[i].kind = "enable", desired.on,
                        o \notin disturbed'
                 PROVE  \/ fan[o].power = desired.power
                        \/ \E j \in 1 .. i - 1 : todo'[j] = Item("power", o)
      BY <1>1, <2>3 DEF EnableReady
    <3>1. CASE power_dirty
      <4>1. i = 2 /\ todo'[1] = Item("power", o)
        BY <2>3, <3>1
      <4>2. 1 \in 1 .. i - 1
        BY <4>1
      <4> QED
        BY <4>1, <4>2
    <3>2. CASE ~power_dirty
      <4>1. disturbed' = disturbed
        BY <2>1, <3>2 DEF PushIsComplete
      <4>2. o \in Outputs /\ Settled(o)
        BY <2>2, <4>1 DEF Settled, RestOK, RestTyped
      <4> QED
        BY <3>2, <4>2 DEF PowerWritten
    <3> QED
      BY <3>1, <3>2
  <2>7. WritesBounded'
    <3>1. Len(todo') <= 3
      <4>1. Len(todo') \in Nat
        BY <2>3
      <4> QED
        BY <2>3, <4>1
    <3> QED
      BY <2>3, <3>1, FewWrites
  <2> QED
    BY <2>3, <2>4, <2>5, <2>6, <2>7 DEF WritesInv
<1> QED
  BY <1>2, <1>3

\* The OFF of a removed rule does not reach an output that extraction uses.
LEMMA RemoveWrites ==
  ASSUME RestOK, RestOK', RemoveRule
  PROVE  WritesInv'
<1>1. /\ rule.enabled /\ ~rule'.enabled
      /\ todo' = When(/\ rule.last_active /\ online[RuleTarget]
                      /\ ~(desired.on /\ RuleTarget = active_output_addr),
                      <<Item("ruleOff", RuleTarget)>>)
      /\ UNCHANGED <<active_output_addr, desired>>
  BY DEF RemoveRule, roles
<1>2. RuleTarget \in Outputs
  BY <1>1 DEF RestOK, RuleExists
<1>3. CASE todo' = <<>>
  <2>1. <<>> \in Seq(Writes) /\ Len(<<>>) <= 1 /\ \A i \in 1 .. Len(<<>>) : FALSE
    OBVIOUS
  <2> QED
    BY <1>3, <2>1, OnlyRuleWrites
<1>4. CASE todo' # <<>>
  <2> DEFINE off == Item("ruleOff", RuleTarget)
  <2>1. todo' = <<off>> /\ ~(desired.on /\ RuleTarget = active_output_addr)
    BY <1>1, <1>4 DEF When
  <2>2. off \in Writes /\ off.kind = "ruleOff" /\ off.out = RuleTarget
    BY <1>2 DEF Item, Writes, Kinds
  <2> HIDE DEF off
  <2>3. todo' \in Seq(Writes) /\ Len(todo') = 1 /\ todo'[1] = off
    BY <2>1, <2>2
  <2>4. \A i \in 1 .. Len(todo') : todo'[i] = off
    BY <2>3
  <2>5. WritesOK'
    BY <1>1, <2>1, <2>2, <2>4 DEF WritesOK, WriteOK, PushKinds
  <2>6. RuleOffAlone' /\ EnableReady'
    BY <2>2, <2>3, <2>4 DEF RuleOffAlone, EnableReady
  <2>7. WritesBounded'
    BY <2>3, FewWrites
  <2> QED
    BY <2>3, <2>5, <2>6, <2>7 DEF WritesInv
<1> QED
  BY <1>3, <1>4

\* The parts of the invariant.
LEMMA InvParts == OutputInv => Typed /\ RestOK /\ WritesInv /\ FanInv
BY TypedRest DEF OutputInv, WritesInv, Typed

\* A step of the loop that keeps what is left of the writes after the first.
LEMMA KeptWrites ==
  ASSUME RestOK, RestOK', WritesInv, Keeps(todo, todo', 2), UNCHANGED desired,
         rule'.enabled = rule.enabled, rule'.source = rule.source,
         disturbed \subseteq disturbed',
         \/ UNCHANGED <<online, active_output_addr>>
         \/ /\ \E o \in Outputs : Gone(o)
            /\ Overtaken \subseteq disturbed',
         \A o \in Outputs : fan'[o].power \in {fan[o].power, desired.power},
         \A o \in Outputs : todo[1] = Item("power", o) => fan'[o].power = desired.power
  PROVE  WritesInv'
<1>0. todo \in Seq(Writes) /\ WritesOK /\ RuleOffAlone /\ EnableReady /\ WritesBounded
  BY DEF WritesInv
<1>1. \A w \in Writes : /\ WriteOK(w)
                        /\ w.kind \in OffKinds => OffPending(w.out)
                        => WriteOK(w)'
  BY WriteStays
<1>2. todo' \in Seq(Writes) /\ WritesOK' /\ RuleOffAlone'
  BY <1>0, <1>1, KeepsWrites
<1>3. \A o \in Outputs : online'[o] => online[o]
  <2>1. online \in [Outputs -> BOOLEAN]
    BY DEF RestOK, RestTyped
  <2> QED
    BY <2>1 DEF Gone
<1>4. EnableReady'
  BY <1>0, <1>3, KeepsReady
<1>5. WritesBounded'
  <2>1. Len(todo') <= Len(todo) + 2 - 2 /\ Len(todo) \in Nat
    BY <1>0 DEF Keeps
  <2>2. Len(todo') <= Len(todo)
    BY <1>2, <2>1
  <2>3. {o \in Outputs : online'[o]} \subseteq {o \in Outputs : online[o]}
    BY <1>3
  <2> QED
    BY <1>0, <1>2, <2>2, <2>3, NoMoreWrites
<1> QED
  BY <1>2, <1>4, <1>5 DEF WritesInv

\* A module that keeps its place, or is lost.
LEMMA KeptOrGone ==
  ASSUME NEW o \in Outputs, Kept(o) \/ Gone(o), Overtaken \subseteq disturbed'
  PROVE  \/ UNCHANGED <<online, active_output_addr>>
         \/ /\ \E p \in Outputs : Gone(p)
            /\ Overtaken \subseteq disturbed'
BY DEF Kept

\* The requests of a handler.
LEMMA RequestWrites ==
  ASSUME OutputInv, RestOK', Request
  PROVE  WritesInv'
<1>0. Typed /\ RestOK /\ WritesInv /\ todo \in Seq(Writes)
  BY InvParts DEF WritesInv
<1>t. TypeOK /\ Registry /\ ActiveIsSelected
  BY <1>0 DEF Typed
<1> DEFINE item == Head(todo)
<1>1. CASE Answered
  <2>1. /\ Keeps(todo, todo', 2) /\ item \in Writes
        /\ fan' = Effect(item) /\ Accepted(item)
        /\ UNCHANGED <<online, roles, desired, module_fw_target, disturbed>>
    BY <1>1, <1>t, AnsweredIs
  <2>2. rule'.enabled = rule.enabled /\ rule'.source = rule.source
    BY <1>0, <2>1 DEF Accepted, RestOK, RestTyped
  <2>3. todo[1] = item
    BY <1>0, <1>1 DEF Answered, Idle
  <2> HIDE DEF item
  <2>4. \A o \in Outputs : /\ fan'[o].power \in {fan[o].power, desired.power}
                           /\ item = Item("power", o) => fan'[o].power = desired.power
    BY <1>0, <2>1, EffectIs
  <2>5. UNCHANGED <<online, active_output_addr, desired, disturbed>>
    BY <2>1 DEF roles
  <2> QED
    BY <1>0, <2>1, <2>2, <2>3, <2>4, <2>5, KeptWrites
<1>2. CASE Unanswered
  <2>1. /\ Left(item) /\ item \in Writes
        /\ Kept(item.out) \/ Gone(item.out)
        /\ fan' \in {fan, Effect(item)} /\ Failed(item)
        /\ disturbed' = disturbed \cup Forgotten(item) \cup Overtaken
        /\ UNCHANGED desired
    BY <1>2, <1>t, UnansweredIs
  <2>2. rule'.enabled = rule.enabled /\ rule'.source = rule.source
    BY <1>0, <2>1 DEF Failed, RestOK, RestTyped
  <2>3. CASE item.kind \in PushKinds
    <3>1. OnlyRule(todo')
      BY <2>1, <2>3 DEF Left
    <3> QED
      BY <2>2, <3>1, OnlyRuleWrites DEF OnlyRule
  <2>4. CASE item.kind \notin PushKinds
    <3>1. Keeps(todo, todo', 2)
      BY <2>1, <2>4 DEF Left
    <3>2. todo[1] = item
      BY <1>0, <1>2 DEF Unanswered, Idle
    <3>3. item.out \in Outputs
      BY <2>1 DEF Writes
    <3> HIDE DEF item
    <3>4. \A o \in Outputs : item # Item("power", o)
      BY <2>4 DEF Item, PushKinds
    <3>5. \A o \in Outputs : fan'[o].power \in {fan[o].power, desired.power}
      BY <1>0, <2>1, EffectIs
    <3>6. disturbed \subseteq disturbed' /\ Overtaken \subseteq disturbed'
      BY <2>1
    <3>7. \/ UNCHANGED <<online, active_output_addr>>
          \/ /\ \E p \in Outputs : Gone(p)
             /\ Overtaken \subseteq disturbed'
      BY <2>1, <3>3, <3>6, KeptOrGone
    <3> QED
      BY <1>0, <2>1, <2>2, <3>1, <3>2, <3>4, <3>5, <3>6, <3>7, KeptWrites
  <2> QED
    BY <2>3, <2>4
<1>3. CASE Refused
  <2>1. /\ Left(item) /\ item \in Writes /\ Failed(item)
        /\ disturbed' = disturbed \cup Forgotten(item)
        /\ UNCHANGED <<registry, roles, desired, dirty, module_fw_target, fan>>
    BY <1>3, <1>t, RefusedIs
  <2>2. rule'.enabled = rule.enabled /\ rule'.source = rule.source
    BY <1>0, <2>1 DEF Failed, RestOK, RestTyped
  <2>3. CASE item.kind \in PushKinds
    <3>1. OnlyRule(todo')
      BY <2>1, <2>3 DEF Left
    <3> QED
      BY <2>2, <3>1, OnlyRuleWrites DEF OnlyRule
  <2>4. CASE item.kind \notin PushKinds
    <3>1. Keeps(todo, todo', 2)
      BY <2>1, <2>4 DEF Left
    <3>2. todo[1] = item
      BY <1>0, <1>3 DEF Refused, Idle
    <3> HIDE DEF item
    <3>3. \A o \in Outputs : item # Item("power", o)
      BY <2>4 DEF Item, PushKinds
    <3>4. UNCHANGED <<online, active_output_addr, desired, fan>> /\ disturbed \subseteq disturbed'
      BY <2>1 DEF registry, roles
    <3> QED
      BY <1>0, <2>2, <3>1, <3>2, <3>3, <3>4, KeptWrites
  <2> QED
    BY <2>3, <2>4
<1>4. CASE RuleWaits
  <2>1. /\ Keeps(todo, todo', 2) /\ item \in Writes /\ item.kind = "rule"
        /\ rule' = CASE ~online[RuleTarget] -> [rule EXCEPT !.target_sync_valid = FALSE]
                     [] online[RuleTarget] /\ RuleSynced -> rule
                     [] OTHER -> [rule EXCEPT !.last_active = FALSE, !.target_sync_valid = TRUE]
        /\ UNCHANGED <<registry, roles, desired, dirty, module_fw_target, fan, disturbed>>
    BY <1>4, <1>t, RuleWaitsIs
  <2>2. rule'.enabled = rule.enabled /\ rule'.source = rule.source
    BY <1>0, <2>1 DEF RestOK, RestTyped
  <2>3. todo[1] = item
    BY <1>0, <1>4 DEF RuleWaits, Idle
  <2> HIDE DEF item
  <2>4. \A o \in Outputs : item # Item("power", o)
    BY <2>1 DEF Item
  <2>5. UNCHANGED <<online, active_output_addr, desired, fan, disturbed>>
    BY <2>1 DEF registry, roles
  <2> QED
    BY <1>0, <2>1, <2>2, <2>3, <2>4, <2>5, KeptWrites
<1> QED
  BY <1>1, <1>2, <1>3, <1>4 DEF Request

\* The end of an update is the loss of its module.
LEMMA FwEndIs ==
  ASSUME Typed, ModuleFwEnd
  PROVE  /\ module_fw_target \in Outputs /\ Gone(module_fw_target)
         /\ Keeps(todo, todo', 1)
         /\ fan' = [fan EXCEPT ![module_fw_target].on = FALSE]
         /\ disturbed' = disturbed \cup Overtaken
         /\ UNCHANGED <<preferred_output_addr, desired, rule>>
<1> DEFINE o == module_fw_target
           off == [online EXCEPT ![o] = FALSE]
<1>0. RestOK /\ todo \in Seq(Writes)
  BY TypedRest
<1>1. /\ o \in Outputs /\ online' = off
      /\ consecutive_timeouts' = [consecutive_timeouts EXCEPT ![o] = MaxMisses]
      /\ active_output_addr' = Selected(preferred_output_addr, off)
      /\ enable_dirty' = TRUE /\ power_dirty' = TRUE
      /\ todo' \in Interleaved(Routing)
      /\ fan' = [fan EXCEPT ![o].on = FALSE]
      /\ disturbed' = disturbed \cup Overtaken
      /\ UNCHANGED <<preferred_output_addr, desired, rule>>
  BY <1>0 DEF ModuleFwEnd, Invalidate, RestOK, RestTyped
<1>2. Keeps(todo, todo', 1)
  <2>1. rule.enabled => RuleTarget \in Outputs
    BY <1>0 DEF RestOK, RuleExists
  <2> QED
    BY <1>0, <1>1, <2>1, KeepsInterleaved
<1>3. active_output_addr # o => active_output_addr' = active_output_addr
  <2>1. /\ preferred_output_addr \in Outputs \cup {None} /\ online \in [Outputs -> BOOLEAN]
        /\ active_output_addr = Selected(preferred_output_addr, online)
    BY <1>0 DEF RestOK, RestTyped, Typed, ActiveIsSelected
  <2> QED
    BY <1>1, <2>1, SelectedStays
<1>4. Gone(o)
  BY <1>1, <1>3 DEF Gone
<1> QED
  BY <1>1, <1>2, <1>4

\* The routing the web task adds keeps what holds of the writes.
LEMMA FwEndWrites ==
  ASSUME OutputInv, RestOK', ModuleFwEnd
  PROVE  WritesInv'
<1> DEFINE o == module_fw_target
<1>0. /\ Typed /\ RestOK /\ todo \in Seq(Writes) /\ WritesOK /\ RuleOffAlone
      /\ EnableReady /\ WritesBounded
  BY InvParts DEF WritesInv
<1>1. /\ o \in Outputs /\ Gone(o) /\ Keeps(todo, todo', 1)
      /\ fan' = [fan EXCEPT ![o].on = FALSE]
      /\ disturbed' = disturbed \cup Overtaken
      /\ UNCHANGED <<desired, rule>>
  BY <1>0, FwEndIs
<1>2. disturbed \subseteq disturbed' /\ Overtaken \subseteq disturbed'
  BY <1>1
<1>3. \A w \in Writes : /\ WriteOK(w)
                        /\ w.kind \in OffKinds => OffPending(w.out)
                        => WriteOK(w)'
  BY <1>0, <1>1, <1>2, WriteStays
<1>4. todo' \in Seq(Writes) /\ WritesOK' /\ RuleOffAlone'
  BY <1>0, <1>1, <1>3, KeepsWrites
<1>5. \A q \in Outputs : fan'[q].power = fan[q].power
  BY <1>0, <1>1 DEF RestOK, RestTyped
<1>6. \A q \in Outputs : online'[q] => online[q]
  BY <1>0, <1>1 DEF Gone, RestOK, RestTyped
<1>7. EnableReady'
  BY <1>0, <1>1, <1>2, <1>5, <1>6, KeepsReady
<1>8. WritesBounded'
  <2>1. online[o] /\ online' = [online EXCEPT ![o] = FALSE]
    BY <1>0, <1>1, OutputAssumption DEF RestOK, TargetHeld, Gone
  <2>2. Len(todo') <= Len(todo) + 2 - 1 /\ Len(todo) \in Nat /\ Len(todo') \in Nat
    BY <1>0, <1>1, <1>4 DEF Keeps
  <2>3. Len(todo') <= Len(todo) + 1
    BY <2>2
  <2> QED
    BY <1>0, <1>1, <1>4, <2>1, <2>3, OneMoreWrite
<1> QED
  BY <1>4, <1>7, <1>8 DEF WritesInv

\* Every step keeps what holds of the writes.
LEMMA WritesStep ==
  OutputInv /\ RestOK' /\ [NextOutput]_outputVars => WritesInv'
<1> SUFFICES ASSUME OutputInv, RestOK', [NextOutput]_outputVars
             PROVE  WritesInv'
  OBVIOUS
<1>0. /\ Typed /\ RestOK /\ WritesInv /\ PowerWritten /\ RuleExists
  BY InvParts DEF FanInv, RestOK
<1>r. \A c \in BOOLEAN : OnlyRule(When(c, Routing)) /\ OnlyRule(Routing)
  BY <1>0, RoutingOnlyRule
<1>o. OnlyRule(todo') /\ UNCHANGED rule => WritesInv'
  BY OnlyRuleWrites DEF OnlyRule
<1>1. ASSUME NEW on \in BOOLEAN, NEW power \in Powers \cup {0}, Decide(on, power)
      PROVE  WritesInv'
  <2>1. todo' = When(on # desired.on, Routing) /\ UNCHANGED rule
    BY <1>1 DEF Decide
  <2>2. (on # desired.on) \in BOOLEAN
    OBVIOUS
  <2> QED
    BY <1>r, <1>o, <2>1, <2>2
<1>2. CASE MarkOutputDirty
  BY <1>0, <1>2, SameWrites DEF MarkOutputDirty, registry, roles
<1>3. ASSUME NEW o \in Outputs \cup {None}, SelectOutput(o)
      PROVE  WritesInv'
  <2> DEFINE next == Selected(o, online)
             routes == o # preferred_output_addr \/ next # active_output_addr
  <2>1. /\ todo' = Drops(next, online) \o When(routes, Routing)
        /\ active_output_addr' = next /\ UNCHANGED rule
    BY <1>3 DEF SelectOutput, SelectRoles
  <2>2. routes \in BOOLEAN
    OBVIOUS
  <2> HIDE DEF next, routes
  <2> QED
    BY <1>0, <2>1, <2>2, DropsWrites
<1>4. CASE Push
  BY <1>0, <1>4, PushWrites
<1>5. ASSUME NEW active \in BOOLEAN, RuleSource(active)
      PROVE  WritesInv'
  <2>1. todo' = Routing /\ rule.enabled /\ rule'.enabled
    BY <1>0, <1>5 DEF RuleSource, RestOK, RestTyped
  <2>2. OnlyRule(todo')
    BY <1>r, <2>1
  <2> QED
    BY <2>1, <2>2, OnlyRuleWrites DEF OnlyRule
<1>6. CASE UpdateInputRouting
  <2>1. todo' = Routing /\ UNCHANGED rule
    BY <1>6 DEF UpdateInputRouting
  <2> QED
    BY <1>r, <1>o, <2>1
<1>7. ASSUME NEW active \in BOOLEAN, AddRule(active)
      PROVE  WritesInv'
  <2> DEFINE turn == Item("rule", RuleTarget)
  <2>1. todo' = <<turn>> /\ rule'.enabled /\ RuleTarget \in Outputs
    BY <1>7, OutputAssumption DEF AddRule
  <2>2. turn \in Writes
    BY <2>1 DEF Item, Writes, Kinds
  <2>3. todo' \in Seq(Writes) /\ Len(todo') <= 1 /\ \A i \in 1 .. Len(todo') : todo'[i] = turn
    BY <2>1, <2>2
  <2> QED
    BY <2>1, <2>3, OnlyRuleWrites
<1>8. CASE RemoveRule
  BY <1>0, <1>8, RemoveWrites
<1>9. ASSUME NEW o \in Outputs, Reconnect(o)
      PROVE  WritesInv'
  <2> DEFINE on == [online EXCEPT ![o] = TRUE]
             next == Selected(preferred_output_addr, on)
  <2>1. /\ todo' = Drops(next, on) \o When(TRUE, Routing)
        /\ active_output_addr' = next /\ UNCHANGED rule
    BY <1>9 DEF Reconnect, SelectRoles
  <2> HIDE DEF next, on
  <2> QED
    BY <1>0, <2>1, DropsWrites
<1>10. ASSUME NEW o \in Outputs, ModuleFwBegin(o)
       PROVE  WritesInv'
  <2>1. /\ UNCHANGED <<todo, online, active_output_addr, desired, rule>>
        /\ disturbed' = disturbed \cup {o}
        /\ fan' \in {fan, [fan EXCEPT ![o].on = FALSE]}
    BY <1>10 DEF ModuleFwBegin, registry, roles
  <2>2. \A q \in Outputs : fan'[q].power = fan[q].power
    BY <1>0, <2>1 DEF RestOK, RestTyped
  <2> QED
    BY <1>0, <2>1, <2>2, SameWrites
<1>11. CASE ModuleFwAbort
  BY <1>0, <1>11, SameWrites DEF ModuleFwAbort, registry, roles
<1>12. CASE ModuleFwEnd
  BY <1>12, FwEndWrites
<1>13. ASSUME NEW o \in Outputs, PollAnswered(o)
       PROVE  WritesInv'
  BY <1>0, <1>13, SameWrites DEF PollAnswered, roles
<1>14. ASSUME NEW o \in Outputs, PollUnanswered(o)
       PROVE  WritesInv'
  <2>1. /\ online[o] /\ Missed(o, <<>>, TRUE) /\ UNCHANGED rule
    BY <1>14 DEF PollUnanswered
  <2>2. <<>> \in Seq(Writes)
    OBVIOUS
  <2>3. PICK p \in {<<>>, Routing} : todo' = p \o <<>>
    BY <1>0, <2>1, <2>2, MissedCases DEF Typed, Registry
  <2>4. OnlyRule(p)
    BY <1>0, RoutingOnlyRule
  <2>5. p \o <<>> = p
    BY <2>4 DEF OnlyRule
  <2> QED
    BY <1>o, <2>1, <2>3, <2>4, <2>5
<1>15. CASE Request
  BY <1>15, RequestWrites
<1>16. ASSUME NEW o \in Outputs, Reboot(o) \/ Failsafe(o)
       PROVE  WritesInv'
  <2>1. /\ UNCHANGED <<todo, online, active_output_addr, desired, rule>>
        /\ disturbed' = disturbed \cup {o}
    BY <1>16 DEF Reboot, Failsafe, registry, roles
  <2>2. \A q \in Outputs : q # o => fan'[q] = fan[q]
    BY <1>0, <1>16 DEF Reboot, Failsafe, RestOK, RestTyped
  <2> QED
    BY <1>0, <2>1, <2>2, SameWrites
<1>17. CASE UNCHANGED outputVars
  BY <1>0, <1>17, SameWrites DEF outputVars, registry, roles
<1> QED
  BY <1>1, <1>2, <1>3, <1>4, <1>5, <1>6, <1>7, <1>8, <1>9, <1>10, <1>11, <1>12,
     <1>13, <1>14, <1>15, <1>16, <1>17
     DEF NextOutput, Handler, Update, Module

(***************************************************************************)
(* The rule and the fans.                                                  *)
(***************************************************************************)

\* With nothing left to write the rule has switched its target on or knows better.
LEMMA InStepIdle ==
  RuleInStep /\ Idle /\ rule.enabled /\ rule.source => rule.last_active \/ ~rule.target_sync_valid
<1> SUFFICES ASSUME RuleInStep, Idle, rule.enabled, rule.source
             PROVE  rule.last_active \/ ~rule.target_sync_valid
  OBVIOUS
<1>1. ~ \E i \in 1 .. Len(todo) : todo[i].kind = "rule"
  BY DEF Idle
<1> QED
  BY <1>1 DEF RuleInStep

\* The turn of the rule stays before the next push.
LEMMA KeepsTurn ==
  ASSUME RestOK, todo \in Seq(Writes), RuleInStep, UNCHANGED rule,
         NEW f \in 1 .. 2, Keeps(todo, todo', f), f = 2 => todo # <<>> /\ todo[1].kind # "rule"
  PROVE  RuleInStep'
<1> SUFFICES ASSUME rule.enabled, rule.source, ~rule.last_active, rule.target_sync_valid
             PROVE  /\ \E i \in 1 .. Len(todo') : todo'[i].kind = "rule"
                    /\ \A i \in 1 .. Len(todo') : todo'[i].kind \notin PushKinds
  BY DEF RuleInStep
<1>1. /\ \E i \in 1 .. Len(todo) : todo[i].kind = "rule"
      /\ \A i \in 1 .. Len(todo) : todo[i].kind \notin PushKinds
  BY DEF RuleInStep
<1>2. PICK m \in 1 .. Len(todo) : todo[m].kind = "rule"
  BY <1>1
<1>3. m \in f .. Len(todo)
  <2>1. f = 1 \/ (f = 2 /\ m # 1)
    BY <1>2
  <2> QED
    BY <2>1
<1>4. \E i \in 1 .. Len(todo') : todo'[i].kind = "rule"
  BY <1>2, <1>3 DEF Keeps
<1>5. ASSUME NEW i \in 1 .. Len(todo')
      PROVE  todo'[i].kind \notin PushKinds
  <2>1. CASE todo'[i] = Item("rule", RuleTarget)
    BY <2>1 DEF Item, PushKinds
  <2>2. CASE \E j \in f .. Len(todo) : todo'[i] = todo[j]
    <3>1. PICK j \in f .. Len(todo) : todo'[i] = todo[j]
      BY <2>2
    <3>2. j \in 1 .. Len(todo)
      BY <3>1
    <3> QED
      BY <1>1, <3>1, <3>2
  <2> QED
    BY <2>1, <2>2 DEF Keeps
<1> QED
  BY <1>4, <1>5

\* A request leaves the rule in step, out of step, or with its turn to come.
LEMMA RuleRequest ==
  ASSUME OutputInv, Request
  PROVE  RuleInStep'
<1>0. Typed /\ RestOK /\ todo \in Seq(Writes) /\ WritesOK /\ RuleInStep
  BY InvParts DEF WritesInv, FanInv
<1>t. TypeOK /\ Registry /\ ActiveIsSelected
  BY <1>0 DEF Typed
<1> DEFINE item == Head(todo)
<1>h. todo # <<>> /\ todo[1] = item /\ 1 \in 1 .. Len(todo)
  BY <1>0 DEF Request, Answered, Unanswered, Refused, RuleWaits, Idle
<1>n. ASSUME UNCHANGED rule, item.kind # "rule", Left(item)
      PROVE  RuleInStep'
  <2>1. CASE item.kind \in PushKinds
    <3>1. \E i \in 1 .. Len(todo) : todo[i].kind \in PushKinds
      BY <1>h, <2>1
    <3> QED
      BY <1>0, <1>n, <3>1 DEF RuleInStep
  <2>2. CASE item.kind \notin PushKinds
    <3>1. Keeps(todo, todo', 2)
      BY <1>n, <2>2 DEF Left
    <3> QED
      BY <1>0, <1>h, <1>n, <3>1, KeepsTurn
  <2> QED
    BY <2>1, <2>2
<1>1. CASE Answered
  <2>1. /\ Keeps(todo, todo', 2) /\ Accepted(item)
    BY <1>1, <1>t, AnsweredIs
  <2>2. CASE item.kind = "rule"
    <3>1. rule' = [rule EXCEPT !.last_active = rule.source, !.target_sync_valid = TRUE]
      BY <2>1, <2>2 DEF Accepted
    <3> QED
      BY <1>0, <3>1 DEF RuleInStep, RestOK, RestTyped
  <2>3. CASE item.kind # "rule"
    <3>1. UNCHANGED rule
      BY <2>1, <2>3 DEF Accepted
    <3> QED
      BY <1>0, <1>h, <2>1, <2>3, <3>1, KeepsTurn
  <2> QED
    BY <2>2, <2>3
<1>2. ASSUME Failed(item), Left(item) PROVE RuleInStep'
  <2>1. CASE item.kind = "rule"
    <3>1. rule' = [rule EXCEPT !.target_sync_valid = FALSE]
      BY <1>2, <2>1 DEF Failed
    <3> QED
      BY <1>0, <3>1 DEF RuleInStep, RestOK, RestTyped
  <2>2. CASE item.kind # "rule"
    BY <1>2, <1>n, <2>2 DEF Failed
  <2> QED
    BY <2>1, <2>2
<1>3. CASE Unanswered
  BY <1>2, <1>3, <1>t, UnansweredIs
<1>4. CASE Refused
  BY <1>2, <1>4, <1>t, RefusedIs
<1>5. CASE RuleWaits
  <2>1. /\ item.kind = "rule" /\ ~RuleWrites
        /\ rule' = CASE ~online[RuleTarget] -> [rule EXCEPT !.target_sync_valid = FALSE]
                     [] online[RuleTarget] /\ RuleSynced -> rule
                     [] OTHER -> [rule EXCEPT !.last_active = FALSE, !.target_sync_valid = TRUE]
    BY <1>5, <1>t, RuleWaitsIs
  <2>2. CASE ~online[RuleTarget]
    <3>1. rule' = [rule EXCEPT !.target_sync_valid = FALSE]
      BY <2>1, <2>2
    <3> QED
      BY <1>0, <3>1 DEF RuleInStep, RestOK, RestTyped
  <2>3. CASE online[RuleTarget] /\ RuleSynced
    <3>1. rule' = rule /\ rule.last_active = rule.source
      BY <2>1, <2>3 DEF RuleSynced
    <3> QED
      BY <3>1 DEF RuleInStep
  <2>4. CASE online[RuleTarget] /\ ~RuleSynced
    <3>1. rule' = [rule EXCEPT !.last_active = FALSE, !.target_sync_valid = TRUE]
      BY <2>1, <2>4
    <3>2. rule.enabled => ~rule.source
      BY <2>1, <2>4 DEF RuleWrites, RuleYields
    <3>3. rule'.enabled = rule.enabled /\ rule'.source = rule.source
      BY <1>0, <3>1 DEF RestOK, RestTyped
    <3> QED
      BY <3>2, <3>3 DEF RuleInStep
  <2> QED
    BY <2>2, <2>3, <2>4
<1> QED
  BY <1>1, <1>3, <1>4, <1>5 DEF Request

\* A rule that is to be on is switched on, or is known not to be, or has its turn.
LEMMA RuleStep ==
  OutputInv /\ [NextOutput]_outputVars => RuleInStep'
<1> SUFFICES ASSUME OutputInv, [NextOutput]_outputVars
             PROVE  RuleInStep'
  OBVIOUS
<1>0. /\ Typed /\ RestOK /\ RuleInStep /\ RuleExists /\ todo \in Seq(Writes)
  BY InvParts DEF WritesInv, FanInv, RestOK
<1>i. Idle /\ UNCHANGED rule => RuleInStep'
  BY <1>0, InStepIdle DEF RuleInStep
<1>s. UNCHANGED <<todo, rule>> => RuleInStep'
  BY <1>0 DEF RuleInStep
<1>1. ASSUME NEW on \in BOOLEAN, NEW power \in Powers \cup {0}, Decide(on, power)
      PROVE  RuleInStep'
  BY <1>i, <1>1 DEF Decide
<1>2. CASE MarkOutputDirty \/ Push \/ UpdateInputRouting
  BY <1>i, <1>2 DEF MarkOutputDirty, Push, UpdateInputRouting
<1>3. \A o : SelectOutput(o) \/ Reconnect(o) \/ PollAnswered(o) \/ PollUnanswered(o) => RuleInStep'
  BY <1>i DEF SelectOutput, Reconnect, PollAnswered, PollUnanswered
<1>4. ASSUME NEW active \in BOOLEAN, RuleSource(active)
      PROVE  RuleInStep'
  <2>1. todo' = Routing /\ rule'.enabled /\ rule.enabled
    BY <1>0, <1>4 DEF RuleSource, RestOK, RestTyped
  <2>2. todo' = <<Item("rule", RuleTarget)>>
    BY <2>1 DEF Routing, When
  <2>3. Item("rule", RuleTarget).kind = "rule"
    BY DEF Item
  <2> HIDE DEF Item
  <2>4. Len(todo') = 1 /\ todo'[1].kind = "rule"
    BY <2>2, <2>3
  <2>5. \A i \in 1 .. Len(todo') : todo'[i].kind = "rule"
    BY <2>4
  <2> QED
    BY <2>4, <2>5 DEF RuleInStep, PushKinds
<1>5. \A active : AddRule(active) => RuleInStep'
  BY DEF AddRule, RuleInStep
<1>6. CASE RemoveRule
  BY <1>6 DEF RemoveRule, RuleInStep
<1>7. \A o : ModuleFwBegin(o) \/ Reboot(o) \/ Failsafe(o) => RuleInStep'
  BY <1>s DEF ModuleFwBegin, Reboot, Failsafe
<1>8. CASE ModuleFwAbort
  BY <1>s, <1>8 DEF ModuleFwAbort
<1>9. CASE ModuleFwEnd
  <2>1. Keeps(todo, todo', 1) /\ UNCHANGED rule
    BY <1>0, <1>9, FwEndIs
  <2> QED
    BY <1>0, <2>1, KeepsTurn
<1>10. CASE Request
  BY <1>10, RuleRequest
<1>11. CASE UNCHANGED outputVars
  BY <1>s, <1>11 DEF outputVars
<1> QED
  BY <1>1, <1>2, <1>3, <1>4, <1>5, <1>6, <1>7, <1>8, <1>9, <1>10, <1>11
     DEF NextOutput, Handler, Update, Module

\* What the master believes of the fan of one settled output.
FanOK(o) ==
  Settled(o) =>
    /\ desired.on /\ ~power_dirty => fan[o].power = desired.power
    /\ desired.on /\ ~enable_dirty => fan[o].on
    /\ ~desired.on /\ ~enable_dirty /\ fan[o].on =>
         RuleHolds(o) \/ \E i \in 1 .. Len(todo) : todo[i] = Item("ruleOff", o)

\* The three parts about the fans, output by output.
LEMMA FansOK == PowerWritten /\ RunsWhenWanted /\ StopsUnlessHeld <=> \A o \in Outputs : FanOK(o)
BY DEF PowerWritten, RunsWhenWanted, StopsUnlessHeld, FanOK

\* A command that reaches the active output brings its fan to what is wanted, or
\* leaves it so.
LEMMA EffectOK ==
  ASSUME OutputInv, NEW item \in Writes, item = Head(todo), ~Idle, IsWrite(item), Sendable(item),
         NEW o \in Outputs, Settled(o)
  PROVE  /\ item.kind \in PushKinds => item.out = o
         /\ desired.on /\ fan[o].on => Effect(item)[o].on
         /\ desired.on /\ item.kind = "enable" => Effect(item)[o].on
         /\ desired.on /\ item.kind = "power" => Effect(item)[o].power = desired.power
         /\ desired.on /\ fan[o].power = desired.power => Effect(item)[o].power = desired.power
         /\ ~desired.on /\ item.kind = "enable" => ~Effect(item)[o].on
         /\ item.kind = "rule" => rule.enabled
         /\ item.kind = "rule" /\ RuleTarget = o => Effect(item)[o].on = rule.source
         /\ ~desired.on /\ Effect(item)[o].on =>
              \/ item.kind = "rule" /\ item.out = o /\ rule.source /\ RuleTarget = o
              \/ fan[o].on /\ ~(item.kind \in OffKinds /\ item.out = o)
<1>0. RestOK /\ todo \in Seq(Writes) /\ WritesOK
  BY InvParts DEF WritesInv
<1>1. WriteOK(item)
  <2>1. 1 \in 1 .. Len(todo) /\ todo[1] = item
    BY <1>0 DEF Idle
  <2> QED
    BY <1>0, <2>1 DEF WritesOK
<1>2. online[item.out] /\ item.kind \in Kinds /\ desired.on \in BOOLEAN /\ rule.source \in BOOLEAN
  BY <1>0 DEF Sendable, Writes, RestOK, RestTyped
<1>3. item.kind \in PushKinds => item.out = o
  BY <1>1, <1>2 DEF WriteOK, Settled
<1>4. item.kind = "rule" => rule.enabled /\ item.out = RuleTarget
  BY <1>1 DEF WriteOK
<1>5. item.kind = "rule" /\ item.out = o /\ desired.on => rule.source
  BY <1>2, <1>4 DEF IsWrite, RuleWrites, RuleYields, Settled
<1>6. desired.on => ~(item.kind \in OffKinds /\ item.out = o)
  BY <1>1 DEF WriteOK, OffKinds, Settled
<1>e. /\ o # item.out => Effect(item)[o] = fan[o]
      /\ Effect(item)[o].power \in {fan[o].power, desired.power}
      /\ item.kind = "power" /\ o = item.out => Effect(item)[o].power = desired.power
      /\ item.kind = "power" => Effect(item)[o].on = fan[o].on
      /\ item.kind = "enable" /\ o = item.out => Effect(item)[o].on = desired.on
      /\ item.kind = "rule" /\ o = item.out => Effect(item)[o].on = rule.source
      /\ item.kind \in OffKinds => (Effect(item)[o].on => fan[o].on)
      /\ item.kind \in OffKinds /\ o = item.out => Effect(item)[o].on = FALSE
  BY <1>0, EffectIs
<1>k. item.kind \in {"power", "enable", "rule"} \/ item.kind \in OffKinds
  BY <1>2 DEF Kinds, OffKinds
<1>7. desired.on /\ fan[o].on => Effect(item)[o].on
  <2>1. CASE item.kind = "power"
    BY <1>e, <2>1
  <2>2. CASE item.kind = "enable"
    BY <1>e, <2>2
  <2>3. CASE item.kind = "rule"
    BY <1>e, <1>5, <2>3
  <2>4. CASE item.kind \in OffKinds
    BY <1>e, <1>6, <2>4
  <2> QED
    BY <1>k, <2>1, <2>2, <2>3, <2>4
<1>8. /\ desired.on /\ item.kind = "enable" => Effect(item)[o].on
      /\ desired.on /\ item.kind = "power" => Effect(item)[o].power = desired.power
      /\ ~desired.on /\ item.kind = "enable" => ~Effect(item)[o].on
  BY <1>3, <1>e DEF PushKinds
<1>9. ~desired.on /\ Effect(item)[o].on =>
        \/ item.kind = "rule" /\ item.out = o /\ rule.source /\ RuleTarget = o
        \/ fan[o].on /\ ~(item.kind \in OffKinds /\ item.out = o)
  <2> SUFFICES ASSUME ~desired.on, Effect(item)[o].on
               PROVE  \/ item.kind = "rule" /\ item.out = o /\ rule.source /\ RuleTarget = o
                      \/ fan[o].on /\ ~(item.kind \in OffKinds /\ item.out = o)
    OBVIOUS
  <2>1. CASE item.kind = "power"
    BY <1>e, <2>1 DEF OffKinds
  <2>2. CASE item.kind = "enable"
    BY <1>8, <2>2
  <2>3. CASE item.kind = "rule"
    BY <1>e, <1>4, <2>3 DEF OffKinds
  <2>4. CASE item.kind \in OffKinds
    BY <1>e, <2>4
  <2> QED
    BY <1>k, <2>1, <2>2, <2>3, <2>4
<1>10. desired.on /\ fan[o].power = desired.power => Effect(item)[o].power = desired.power
  BY <1>e
<1> QED
  BY <1>3, <1>4, <1>e, <1>7, <1>8, <1>9, <1>10

\* The OFF of a removed rule that is left is the first write, and the rule is gone.
LEMMA RuleOffFirst ==
  ASSUME OutputInv, ~Idle, NEW o, \E i \in 1 .. Len(todo) : todo[i] = Item("ruleOff", o)
  PROVE  Head(todo).kind = "ruleOff" /\ Head(todo).out = o /\ ~rule.enabled
<1>0. todo \in Seq(Writes) /\ WritesOK /\ RuleOffAlone
  BY InvParts DEF WritesInv
<1>1. PICK i \in 1 .. Len(todo) : todo[i] = Item("ruleOff", o)
  OBVIOUS
<1>2. todo[i].kind = "ruleOff" /\ todo[i].out = o
  BY <1>1 DEF Item
<1>3. Len(todo) = 1 /\ ~rule.enabled
  BY <1>0, <1>2 DEF RuleOffAlone, WritesOK, WriteOK
<1>4. i = 1
  BY <1>3
<1>5. Head(todo) = todo[1]
  BY <1>0 DEF Idle
<1> QED
  BY <1>2, <1>3, <1>4, <1>5

\* The active output is online.
LEMMA ActiveOnline ==
  ASSUME Typed, NEW o \in Outputs, active_output_addr = o
  PROVE  online[o]
<1>1. /\ preferred_output_addr \in Outputs \cup {None} /\ online \in [Outputs -> BOOLEAN]
      /\ active_output_addr = Selected(preferred_output_addr, online)
  BY TypedRest DEF RestOK, RestTyped, Typed, ActiveIsSelected
<1> QED
  BY <1>1, SelectedIsOnline, OutputAssumption

\* A command that is answered, or not, leaves the fans as they are believed.
LEMMA FanRequest ==
  ASSUME OutputInv, Request, NEW o \in Outputs
  PROVE  FanOK(o)'
<1>0. Typed /\ RestOK /\ todo \in Seq(Writes) /\ FanOK(o)
  BY InvParts, FansOK DEF WritesInv, FanInv
<1>t. TypeOK /\ Registry /\ ActiveIsSelected
  BY <1>0 DEF Typed
<1>i. ~Idle
  BY DEF Request, Answered, Unanswered, Refused, RuleWaits
<1> DEFINE item == Head(todo)
<1>r. ASSUME \E i \in 1 .. Len(todo) : todo[i] = Item("ruleOff", o)
      PROVE  item.kind = "ruleOff" /\ item.out = o /\ ~rule.enabled
  BY <1>i, <1>r, RuleOffFirst
<1>b. rule.enabled \in BOOLEAN /\ rule.source \in BOOLEAN
  BY <1>0 DEF RestOK, RestTyped
<1>1. CASE Answered
  <2>1. /\ item \in Writes /\ IsWrite(item) /\ Sendable(item)
        /\ fan' = Effect(item) /\ Accepted(item)
        /\ UNCHANGED <<active_output_addr, desired, disturbed>>
    BY <1>1, <1>t, AnsweredIs DEF roles
  <2> SUFFICES ASSUME Settled(o)
               PROVE  FanOK(o)'
    BY <2>1 DEF FanOK, Settled
  <2>e. /\ desired.on /\ fan[o].on => fan'[o].on
        /\ desired.on /\ item.kind = "enable" => fan'[o].on
        /\ desired.on /\ item.kind = "power" => fan'[o].power = desired.power
        /\ desired.on /\ fan[o].power = desired.power => fan'[o].power = desired.power
        /\ ~desired.on /\ item.kind = "enable" => ~fan'[o].on
        /\ item.kind = "rule" => rule.enabled
        /\ item.kind = "rule" /\ RuleTarget = o => fan'[o].on = rule.source
        /\ ~desired.on /\ fan'[o].on =>
             \/ item.kind = "rule" /\ item.out = o /\ rule.source /\ RuleTarget = o
             \/ fan[o].on /\ ~(item.kind \in OffKinds /\ item.out = o)
    BY <1>i, <2>1, EffectOK
  <2>2. desired.on /\ ~power_dirty' => fan'[o].power = desired.power
    <3>1. desired.on /\ ~power_dirty' => ~power_dirty \/ item.kind = "power"
      BY <2>1 DEF Accepted
    <3> QED
      BY <1>0, <2>e, <3>1 DEF FanOK
  <2>3. desired.on /\ ~enable_dirty' => fan'[o].on
    <3>1. ~enable_dirty' => ~enable_dirty \/ item.kind = "enable"
      BY <2>1 DEF Accepted
    <3> QED
      BY <1>0, <2>e, <3>1 DEF FanOK
  <2>4. ASSUME ~desired.on, ~enable_dirty', fan'[o].on
        PROVE  RuleHolds(o)'
    <3>1. item.kind # "enable" /\ ~enable_dirty
      BY <2>1, <2>4, <2>e DEF Accepted
    <3>2. CASE item.kind = "rule" /\ item.out = o /\ rule.source /\ RuleTarget = o
      <4>1. rule' = [rule EXCEPT !.last_active = rule.source, !.target_sync_valid = TRUE]
        BY <2>1, <3>2 DEF Accepted
      <4>2. rule'.enabled /\ rule'.source
        BY <1>0, <2>e, <3>2, <4>1 DEF RestOK, RestTyped
      <4> QED
        BY <3>2, <4>2 DEF RuleHolds
    <3>3. CASE fan[o].on /\ ~(item.kind \in OffKinds /\ item.out = o)
      <4>1. RuleHolds(o)
        BY <1>0, <1>r, <2>4, <3>1, <3>3 DEF FanOK, OffKinds
      <4>2. CASE item.kind # "rule"
        <5>1. UNCHANGED rule
          BY <2>1, <4>2 DEF Accepted
        <5> QED
          BY <4>1, <5>1 DEF RuleHolds
      <4>3. CASE item.kind = "rule"
        <5>1. rule' = [rule EXCEPT !.last_active = rule.source, !.target_sync_valid = TRUE]
          BY <2>1, <4>3 DEF Accepted
        <5>2. rule.source /\ rule.enabled /\ RuleTarget = o
          BY <2>4, <2>e, <4>1, <4>3 DEF RuleHolds
        <5>3. rule'.enabled /\ rule'.source
          BY <1>0, <5>1, <5>2 DEF RestOK, RestTyped
        <5> QED
          BY <5>2, <5>3 DEF RuleHolds
      <4> QED
        BY <4>2, <4>3
    <3> QED
      BY <2>4, <2>e, <3>2, <3>3
  <2> QED
    BY <2>1, <2>2, <2>3, <2>4 DEF FanOK
<1>2. ASSUME Failed(item), Settled(o), Settled(o)', UNCHANGED <<desired, dirty>>,
             Forgotten(item) \subseteq disturbed',
             ~enable_dirty, ~desired.on, fan[o].on
      PROVE  RuleHolds(o)'
  <2>1. RuleHolds(o)
    <3>1. item.kind = "ruleOff" => item.out # o
      BY <1>2 DEF Forgotten, Settled
    <3> QED
      BY <1>0, <1>2, <1>r, <3>1 DEF FanOK
  <2>2. CASE item.kind # "rule"
    <3>1. UNCHANGED rule
      BY <1>2, <2>2 DEF Failed
    <3> QED
      BY <2>1, <3>1 DEF RuleHolds
  <2>3. CASE item.kind = "rule"
    <3>1. rule' = [rule EXCEPT !.target_sync_valid = FALSE]
      BY <1>2, <2>3 DEF Failed
    <3>2. rule'.enabled /\ ~rule'.target_sync_valid
      BY <1>0, <2>1, <3>1 DEF RestOK, RestTyped, RuleHolds
    <3> QED
      BY <2>1, <3>2 DEF RuleHolds
  <2> QED
    BY <2>2, <2>3
<1>3. CASE Unanswered
  <2>1. /\ item \in Writes /\ IsWrite(item) /\ Sendable(item)
        /\ Kept(item.out) \/ Gone(item.out)
        /\ fan' \in {fan, Effect(item)} /\ Failed(item)
        /\ disturbed' = disturbed \cup Forgotten(item) \cup Overtaken
        /\ UNCHANGED desired
    BY <1>3, <1>t, UnansweredIs
  <2>2. CASE Gone(item.out)
    <3>1. enable_dirty' = TRUE /\ power_dirty' = TRUE
      BY <2>2 DEF Gone
    <3> QED
      BY <3>1 DEF FanOK
  <2>3. CASE Kept(item.out)
    <3>1. UNCHANGED <<active_output_addr, dirty, enable_dirty, power_dirty>>
      BY <2>3 DEF Kept, dirty
    <3> SUFFICES ASSUME Settled(o)'
                 PROVE  FanOK(o)'
      BY DEF FanOK
    <3>2. Settled(o)
      BY <2>1, <3>1 DEF Settled
    <3>e. /\ desired.on /\ fan[o].on => Effect(item)[o].on
          /\ desired.on /\ fan[o].power = desired.power => Effect(item)[o].power = desired.power
          /\ item.kind = "rule" => rule.enabled
          /\ ~desired.on /\ Effect(item)[o].on =>
               \/ item.kind = "rule" /\ item.out = o /\ rule.source /\ RuleTarget = o
               \/ fan[o].on /\ ~(item.kind \in OffKinds /\ item.out = o)
      BY <1>i, <2>1, <3>2, EffectOK
    <3>3. desired.on /\ ~power_dirty => fan'[o].power = desired.power
      BY <1>0, <2>1, <3>2, <3>e DEF FanOK
    <3>4. desired.on /\ ~enable_dirty => fan'[o].on
      BY <1>0, <2>1, <3>2, <3>e DEF FanOK
    <3>5. ASSUME ~desired.on, ~enable_dirty, fan'[o].on
          PROVE  RuleHolds(o)'
      <4>1. CASE fan[o].on
        BY <1>2, <2>1, <3>1, <3>2, <3>5, <4>1
      <4>2. CASE ~fan[o].on
        <5>1. item.kind = "rule" /\ RuleTarget = o /\ rule.enabled
          BY <2>1, <3>5, <3>e, <4>2
        <5>2. rule' = [rule EXCEPT !.target_sync_valid = FALSE]
          BY <2>1, <5>1 DEF Failed
        <5>3. rule'.enabled /\ ~rule'.target_sync_valid
          BY <1>0, <5>1, <5>2 DEF RestOK, RestTyped
        <5> QED
          BY <5>1, <5>3 DEF RuleHolds
      <4> QED
        BY <4>1, <4>2
    <3> QED
      BY <2>1, <3>1, <3>3, <3>4, <3>5 DEF FanOK
  <2> QED
    BY <2>1, <2>2, <2>3
<1>4. CASE Refused
  <2>1. /\ Failed(item) /\ disturbed' = disturbed \cup Forgotten(item)
        /\ UNCHANGED <<active_output_addr, desired, dirty, enable_dirty, power_dirty, fan>>
    BY <1>4, <1>t, RefusedIs DEF roles, dirty
  <2> SUFFICES ASSUME Settled(o)'
               PROVE  FanOK(o)'
    BY DEF FanOK
  <2>2. Settled(o)
    BY <2>1 DEF Settled
  <2>3. ~desired.on /\ ~enable_dirty /\ fan[o].on => RuleHolds(o)'
    BY <1>2, <2>1, <2>2
  <2> QED
    BY <1>0, <2>1, <2>2, <2>3 DEF FanOK
<1>5. CASE RuleWaits
  <2>1. /\ item.kind = "rule" /\ ~RuleWrites
        /\ rule' = CASE ~online[RuleTarget] -> [rule EXCEPT !.target_sync_valid = FALSE]
                     [] online[RuleTarget] /\ RuleSynced -> rule
                     [] OTHER -> [rule EXCEPT !.last_active = FALSE, !.target_sync_valid = TRUE]
        /\ UNCHANGED <<active_output_addr, desired, enable_dirty, power_dirty, fan, disturbed>>
    BY <1>5, <1>t, RuleWaitsIs DEF roles, dirty
  <2> SUFFICES ASSUME Settled(o)
               PROVE  FanOK(o)'
    BY <2>1 DEF FanOK, Settled
  <2>2. ASSUME ~desired.on, ~enable_dirty, fan[o].on
        PROVE  RuleHolds(o)'
    <3>1. RuleHolds(o)
      BY <1>0, <1>r, <2>1, <2>2 DEF FanOK
    <3>2. online[o] /\ RuleTarget = o /\ rule.enabled
      BY <1>0, <3>1, ActiveOnline DEF RuleHolds, Settled
    <3>3. RuleSynced
      BY <2>1, <2>2, <3>2 DEF RuleWrites, RuleYields
    <3>4. rule' = rule
      BY <2>1, <3>2, <3>3
    <3> QED
      BY <3>1, <3>4 DEF RuleHolds
  <2> QED
    BY <1>0, <2>1, <2>2 DEF FanOK
<1> QED
  BY <1>1, <1>3, <1>4, <1>5 DEF Request

\* A push only starts once a complete write is certain to clear what was lost.
LEMMA FanPush ==
  ASSUME OutputInv, Push, NEW o \in Outputs
  PROVE  FanOK(o)'
<1>0. RestOK /\ FanOK(o)
  BY InvParts, FansOK DEF FanInv
<1>1. /\ Idle /\ UNCHANGED <<active_output_addr, desired, rule, fan>>
  BY DEF Push, roles
<1>2. CASE active_output_addr = None \/ RuleKeepsOn(active_output_addr)
  <2>1. UNCHANGED <<todo, disturbed>>
    BY <1>2 DEF Push
  <2> SUFFICES ASSUME Settled(o)
               PROVE  FanOK(o)'
    BY <1>1, <2>1 DEF FanOK, Settled
  <2>2. ~desired.on /\ RuleHolds(o)
    BY <1>2 DEF Settled, RuleKeepsOn, RuleOwns, RuleOn, RuleHolds
  <2>3. RuleHolds(o)'
    BY <1>1, <2>2 DEF RuleHolds
  <2> QED
    BY <1>1, <2>2, <2>3 DEF FanOK
<1>3. CASE ~(active_output_addr = None \/ RuleKeepsOn(active_output_addr))
  <2>1. /\ todo' = PushItems(active_output_addr)
        /\ power_dirty' = (power_dirty /\ PushItems(active_output_addr) # <<>>)
        /\ disturbed' = IF PushIsComplete THEN disturbed \ {active_output_addr} ELSE disturbed
        /\ UNCHANGED enable_dirty
    BY <1>3 DEF Push
  <2> SUFFICES ASSUME Settled(o)'
               PROVE  FanOK(o)'
    BY DEF FanOK
  <2>2. ~PushIsComplete => Settled(o)
    BY <1>1, <2>1 DEF Settled
  <2>3. desired.on /\ ~power_dirty' => fan[o].power = desired.power
    <3>1. PushItems(active_output_addr) = <<>> => ~(desired.on /\ power_dirty)
      BY <1>0, <1>3, PushItemsAre
    <3>2. desired.on /\ ~power_dirty' => ~power_dirty /\ ~PushIsComplete
      BY <2>1, <3>1 DEF PushIsComplete
    <3> QED
      BY <1>0, <2>2, <3>2 DEF FanOK
  <2>4. ~enable_dirty => Settled(o)
    BY <2>2 DEF PushIsComplete
  <2>5. ~desired.on /\ ~enable_dirty /\ fan[o].on => RuleHolds(o)
    <3>1. ~ \E i \in 1 .. Len(todo) : todo[i] = Item("ruleOff", o)
      BY <1>1 DEF Idle
    <3> QED
      BY <1>0, <2>4, <3>1 DEF FanOK
  <2>6. RuleHolds(o) => RuleHolds(o)'
    BY <1>1 DEF RuleHolds
  <2> QED
    BY <1>0, <1>1, <2>1, <2>3, <2>4, <2>5, <2>6 DEF FanOK
<1> QED
  BY <1>2, <1>3

\* The rule's removal leaves its target to the OFF it still sends.
LEMMA FanRemove ==
  ASSUME OutputInv, RemoveRule, NEW o \in Outputs
  PROVE  FanOK(o)'
<1>0. Typed /\ RestOK /\ FanOK(o) /\ RuleInStep
  BY InvParts, FansOK DEF FanInv
<1>1. /\ Idle /\ rule.enabled
      /\ todo' = When(/\ rule.last_active /\ online[RuleTarget]
                      /\ ~(desired.on /\ RuleTarget = active_output_addr),
                      <<Item("ruleOff", RuleTarget)>>)
      /\ disturbed' = IF rule.target_sync_valid THEN disturbed ELSE disturbed \cup {RuleTarget}
      /\ UNCHANGED <<active_output_addr, desired, enable_dirty, power_dirty, fan>>
  BY DEF RemoveRule, roles, dirty
<1> SUFFICES ASSUME Settled(o)'
             PROVE  FanOK(o)'
  BY DEF FanOK
<1>2. Settled(o) /\ (o = RuleTarget => rule.target_sync_valid)
  BY <1>1 DEF Settled
<1>3. ASSUME ~desired.on, ~enable_dirty, fan[o].on
      PROVE  \E i \in 1 .. Len(todo') : todo'[i] = Item("ruleOff", o)
  <2>1. ~ \E i \in 1 .. Len(todo) : todo[i] = Item("ruleOff", o)
    BY <1>1 DEF Idle
  <2>2. RuleHolds(o)
    BY <1>0, <1>2, <1>3, <2>1 DEF FanOK
  <2>3. RuleTarget = o /\ rule.target_sync_valid /\ (rule.source \/ rule.last_active)
    BY <1>2, <2>2 DEF RuleHolds
  <2>4. rule.last_active
    BY <1>0, <1>1, <2>3, InStepIdle
  <2>5. online[RuleTarget]
    BY <1>0, <1>2, <2>3, ActiveOnline DEF Settled
  <2>6. todo' = <<Item("ruleOff", o)>>
    BY <1>1, <1>3, <2>3, <2>4, <2>5 DEF When
  <2>7. 1 \in 1 .. Len(todo') /\ todo'[1] = Item("ruleOff", o)
    BY <2>6
  <2> QED
    BY <2>7
<1> QED
  BY <1>0, <1>1, <1>2, <1>3 DEF FanOK

\* Every step leaves a settled fan as it is believed.
LEMMA FanStep ==
  OutputInv /\ [NextOutput]_outputVars => PowerWritten' /\ RunsWhenWanted' /\ StopsUnlessHeld'
<1> SUFFICES ASSUME OutputInv, [NextOutput]_outputVars, NEW o \in Outputs
             PROVE  FanOK(o)'
  <2>1. (\A o \in Outputs : FanOK(o)') => PowerWritten' /\ RunsWhenWanted' /\ StopsUnlessHeld'
    BY DEF PowerWritten, RunsWhenWanted, StopsUnlessHeld, FanOK
  <2> QED
    BY <2>1
<1>0. /\ Typed /\ RestOK /\ FanOK(o) /\ RuleInStep /\ DecisionWhole /\ todo \in Seq(Writes)
  BY InvParts, FansOK DEF WritesInv, FanInv, Typed, Registry
<1>n. Idle => ~ \E i \in 1 .. Len(todo) : todo[i] = Item("ruleOff", o)
  BY DEF Idle
<1>d. enable_dirty' /\ power_dirty' => FanOK(o)'
  BY DEF FanOK
<1>i. /\ Idle \/ UNCHANGED todo
      /\ UNCHANGED <<active_output_addr, desired, enable_dirty, power_dirty, rule>>
      /\ disturbed \subseteq disturbed'
      /\ \/ o \in disturbed'
         \/ /\ fan'[o].power = fan[o].power
            /\ fan'[o].on = fan[o].on
      => FanOK(o)'
  BY <1>0, <1>n DEF FanOK, Settled, RuleHolds
<1>1. ASSUME NEW on \in BOOLEAN, NEW power \in Powers \cup {0}, Decide(on, power)
      PROVE  FanOK(o)'
  <2>1. /\ Idle /\ (on <=> power > 0)
        /\ desired' = [on |-> on, power |-> power]
        /\ enable_dirty' = (enable_dirty \/ on # desired.on)
        /\ power_dirty' = (power_dirty \/ power # desired.power)
        /\ UNCHANGED <<active_output_addr, rule, fan, disturbed>>
    BY <1>1 DEF Decide, roles
  <2>2. desired'.on = on /\ desired'.power = power
    BY <2>1
  <2>3. RuleHolds(o) => RuleHolds(o)'
    BY <2>1 DEF RuleHolds
  <2> SUFFICES ASSUME Settled(o)
               PROVE  FanOK(o)'
    BY <2>1 DEF FanOK, Settled
  <2>4. ASSUME on, ~power_dirty'
        PROVE  fan[o].power = power
    <3>1. ~power_dirty /\ power = desired.power
      BY <2>1, <2>4
    <3>2. desired.on
      BY <1>0, <2>1, <2>4, <3>1 DEF DecisionWhole
    <3> QED
      BY <1>0, <3>1, <3>2 DEF FanOK
  <2>5. ~enable_dirty' => ~enable_dirty /\ on = desired.on
    BY <2>1
  <2> QED
    BY <1>0, <1>n, <2>1, <2>2, <2>3, <2>4, <2>5 DEF FanOK
<1>2. CASE MarkOutputDirty
  BY <1>d, <1>2 DEF MarkOutputDirty
<1>3. \A p : SelectOutput(p) \/ Reconnect(p) => FanOK(o)'
  BY <1>d DEF SelectOutput, Reconnect, SelectRoles
<1>4. CASE Push
  BY <1>4, FanPush
<1>5. ASSUME NEW active \in BOOLEAN, RuleSource(active)
      PROVE  FanOK(o)'
  <2>1. /\ Idle /\ rule.enabled /\ active # rule.source
        /\ rule' = [rule EXCEPT !.source = active]
        /\ UNCHANGED <<active_output_addr, desired, enable_dirty, power_dirty, fan, disturbed>>
    BY <1>5 DEF RuleSource, roles, dirty
  <2>2. /\ rule'.enabled /\ rule'.source = active
        /\ rule'.last_active = rule.last_active /\ rule'.target_sync_valid = rule.target_sync_valid
    BY <1>0, <2>1 DEF RestOK, RestTyped
  <2>3. rule.source => rule.last_active \/ ~rule.target_sync_valid
    BY <1>0, <2>1, InStepIdle
  <2>4. rule.source \in BOOLEAN
    BY <1>0 DEF RestOK, RestTyped
  <2>5. RuleHolds(o) => RuleHolds(o)'
    BY <2>1, <2>2, <2>3, <2>4 DEF RuleHolds
  <2> QED
    BY <1>0, <1>n, <2>1, <2>5 DEF FanOK, Settled
<1>6. CASE UpdateInputRouting
  BY <1>i, <1>6 DEF UpdateInputRouting, roles, dirty
<1>7. ASSUME NEW active \in BOOLEAN, AddRule(active)
      PROVE  FanOK(o)'
  <2>1. /\ Idle /\ ~rule.enabled
        /\ UNCHANGED <<active_output_addr, desired, enable_dirty, power_dirty, fan, disturbed>>
    BY <1>7 DEF AddRule, roles, dirty
  <2>2. ~RuleHolds(o)
    BY <2>1 DEF RuleHolds
  <2> QED
    BY <1>0, <1>n, <2>1, <2>2 DEF FanOK, Settled
<1>8. CASE RemoveRule
  BY <1>8, FanRemove
<1>9. ASSUME NEW p \in Outputs, ModuleFwBegin(p)
      PROVE  FanOK(o)'
  <2>1. /\ UNCHANGED <<todo, active_output_addr, desired, enable_dirty, power_dirty, rule>>
        /\ disturbed' = disturbed \cup {p}
        /\ fan' \in {fan, [fan EXCEPT ![p].on = FALSE]}
    BY <1>9 DEF ModuleFwBegin, roles, dirty
  <2>2. o # p => fan'[o] = fan[o]
    BY <1>0, <2>1 DEF RestOK, RestTyped
  <2> QED
    BY <1>i, <2>1, <2>2
<1>10. CASE ModuleFwAbort
  BY <1>i, <1>10 DEF ModuleFwAbort, roles, dirty
<1>11. CASE ModuleFwEnd
  BY <1>d, <1>11 DEF ModuleFwEnd, Invalidate
<1>12. \A p \in Outputs : PollAnswered(p) => FanOK(o)'
  BY <1>i DEF PollAnswered, roles, dirty
<1>13. ASSUME NEW p \in Outputs, PollUnanswered(p)
       PROVE  FanOK(o)'
  <2>1. /\ Idle /\ online[p] /\ Missed(p, <<>>, TRUE)
        /\ UNCHANGED <<desired, rule, fan, disturbed>>
    BY <1>13 DEF PollUnanswered
  <2>2. <<>> \in Seq(Writes)
    OBVIOUS
  <2>3. Kept(p) \/ Gone(p)
    BY <1>0, <2>1, <2>2, MissedCases DEF Typed, Registry
  <2>4. CASE Kept(p)
    BY <1>i, <2>1, <2>4 DEF Kept, dirty
  <2>5. CASE Gone(p)
    BY <1>d, <2>5 DEF Gone
  <2> QED
    BY <2>3, <2>4, <2>5
<1>14. CASE Request
  BY <1>14, FanRequest
<1>15. ASSUME NEW p \in Outputs, Reboot(p) \/ Failsafe(p)
       PROVE  FanOK(o)'
  <2>1. /\ UNCHANGED <<todo, active_output_addr, desired, enable_dirty, power_dirty, rule>>
        /\ disturbed' = disturbed \cup {p}
    BY <1>15 DEF Reboot, Failsafe, roles, dirty
  <2>2. o # p => fan'[o] = fan[o]
    BY <1>0, <1>15 DEF Reboot, Failsafe, RestOK, RestTyped
  <2> QED
    BY <1>i, <2>1, <2>2
<1>16. CASE UNCHANGED outputVars
  BY <1>i, <1>16 DEF outputVars, roles, dirty
<1> QED
  BY <1>1, <1>2, <1>3, <1>4, <1>5, <1>6, <1>7, <1>8, <1>9, <1>10, <1>11, <1>12,
     <1>13, <1>14, <1>15, <1>16
     DEF NextOutput, Handler, Update, Module

(***************************************************************************)
(* The theorems.                                                           *)
(***************************************************************************)

\* The bound on the writes is the one of TypeOK.
LEMMA TypedAgain ==
  ASSUME RestOK, todo \in Seq(Writes), WritesBounded
  PROVE  TypeOK
<1>1. /\ Cardinality({o \in Outputs : online[o]}) \in Nat
      /\ Cardinality(Outputs) \in Nat
  BY OnlineCount DEF RestOK, RestTyped
<1>2. Len(todo) \in Nat /\ Len(todo) + Cardinality({o \in Outputs : online[o]}) <= 3 + Cardinality(Outputs)
  BY DEF WritesBounded
<1>3. Len(todo) <= 4 + Cardinality(Outputs)
  BY <1>1, <1>2
<1> QED
  BY <1>3 DEF TypeOK, RestOK, RestTyped, Writes

\* The invariant holds before the first handler runs.
LEMMA OutputInit == InitOutput => OutputInv
<1> SUFFICES ASSUME InitOutput PROVE OutputInv
  OBVIOUS
<1>1. /\ todo = <<>> /\ <<>> \in Seq(Writes) /\ Len(<<>>) = 0
      /\ \A i \in 1 .. Len(<<>>) : FALSE
  BY DEF InitOutput
<1>2. RestOK /\ DecisionWhole
  BY OutputAssumption
     DEF InitOutput, RestOK, RestTyped, TargetHeld, MissesCounted, RuleExists, DecisionWhole
<1>3. WritesOK /\ RuleOffAlone /\ EnableReady
  BY <1>1 DEF WritesOK, RuleOffAlone, EnableReady
<1>4. WritesBounded
  <2>1. /\ Cardinality({o \in Outputs : online[o]}) \in Nat
        /\ Cardinality({o \in Outputs : online[o]}) <= Cardinality(Outputs)
        /\ Cardinality(Outputs) \in Nat
    BY <1>2, OnlineCount DEF RestOK, RestTyped
  <2> QED
    BY <1>1, <2>1 DEF WritesBounded
<1>5. TypeOK
  BY <1>1, <1>2, <1>4, TypedAgain
<1>6. FanInv
  <2>1. \A o \in Outputs : ~Settled(o)
    BY DEF InitOutput, Settled
  <2>2. RuleInStep
    BY DEF InitOutput, RuleInStep
  <2> QED
    BY <2>1, <2>2 DEF FanInv, PowerWritten, RunsWhenWanted, StopsUnlessHeld
<1> QED
  BY <1>2, <1>3, <1>4, <1>5, <1>6, ActiveInit DEF OutputInv, Typed, Registry, RestOK

\* Every step keeps the invariant.
LEMMA OutputStep == OutputInv /\ [NextOutput]_outputVars => OutputInv'
<1> SUFFICES ASSUME OutputInv, [NextOutput]_outputVars
             PROVE  OutputInv'
  OBVIOUS
<1>0. Typed /\ ActiveIsSelected /\ DecisionWhole
  BY InvParts DEF Typed, Registry
<1>1. RestOK'
  BY <1>0, RestStep
<1>2. WritesInv'
  BY <1>1, WritesStep
<1>3. ActiveIsSelected' /\ DecisionWhole'
  BY <1>0, ActiveStep, DecisionStep
<1>4. FanInv'
  BY FanStep, RuleStep DEF FanInv
<1>5. TypeOK'
  <2>1. RestOK' /\ (todo \in Seq(Writes))' /\ WritesBounded' => TypeOK'
    BY TypedAgain, PTL
  <2> QED
    BY <1>1, <1>2, <2>1 DEF WritesInv
<1>6. Registry'
  BY <1>1, <1>2, <1>3 DEF Registry, RestOK, WritesInv
<1> QED
  BY <1>2, <1>3, <1>4, <1>5, <1>6 DEF OutputInv, Typed, WritesInv

\* The invariant holds in every state of the program.
THEOREM OutputInvCorrect == Safety => []OutputInv
<1>1. InitOutput => OutputInv
  BY OutputInit
<1>2. OutputInv /\ [NextOutput]_outputVars => OutputInv'
  BY OutputStep
<1> QED
  BY <1>1, <1>2, PTL DEF Safety

\* Every variable keeps to its type, and the writes of a handler and of the web task
\* never pile up, however modules come, go and are updated.
THEOREM TypeCorrect == Safety => []TypeOK
<1>1. OutputInv => TypeOK
  BY DEF OutputInv, Typed
<1> QED
  BY <1>1, OutputInvCorrect, PTL

\* The fan of the active output does what the extraction logic wants as soon as there
\* is nothing left to write: for any number of outputs, any order of selections, lost
\* and repeated commands, rules, updates and reboots.
THEOREM FanCorrect == Safety => []FanFollowsDecision
<1>1. OutputInv => FanFollowsDecision
  <2> SUFFICES ASSUME OutputInv, Idle, ~enable_dirty,
                      active_output_addr \notin disturbed \cup {None, module_fw_target}
               PROVE  IF desired.on
                      THEN /\ fan[active_output_addr].on
                           /\ ~power_dirty => fan[active_output_addr].power = desired.power
                      ELSE fan[active_output_addr].on => RuleHolds(active_output_addr)
    BY DEF FanFollowsDecision
  <2>1. active_output_addr \in Outputs
    BY InvParts DEF RestOK, RestTyped
  <2>2. FanOK(active_output_addr) /\ Settled(active_output_addr)
    BY <2>1, InvParts, FansOK DEF FanInv, Settled
  <2>3. ~ \E i \in 1 .. Len(todo) : todo[i] = Item("ruleOff", active_output_addr)
    BY DEF Idle
  <2> QED
    BY <2>2, <2>3 DEF FanOK
<1> QED
  BY <1>1, OutputInvCorrect, PTL

\* What a step does to a fan: commands reach it, it loses its state, or nothing happens.
LEMMA FanChanges ==
  ASSUME OutputInv, [NextOutput]_outputVars, NEW o \in Outputs
  PROVE  \/ fan'[o] = fan[o]
         \/ ~fan'[o].on /\ o \in disturbed'
         \/ /\ ~Idle /\ Head(todo) \in Writes /\ IsWrite(Head(todo)) /\ Sendable(Head(todo))
            /\ WriteOK(Head(todo)) /\ Head(todo).out = o
            /\ fan' = Effect(Head(todo)) /\ disturbed \subseteq disturbed'
<1> DEFINE item == Head(todo)
<1>0. Typed /\ RestOK /\ todo \in Seq(Writes) /\ WritesOK
  BY InvParts DEF WritesInv
<1>t. TypeOK /\ Registry /\ ActiveIsSelected
  BY <1>0 DEF Typed
<1>f. fan \in [Outputs -> [on : BOOLEAN, power : Powers]]
  BY <1>0 DEF RestOK, RestTyped
<1>h. ~Idle => WriteOK(item)
  <2>1. ~Idle => 1 \in 1 .. Len(todo) /\ todo[1] = item
    BY <1>0 DEF Idle
  <2> QED
    BY <1>0, <2>1 DEF WritesOK
<1>1. UNCHANGED fan => fan'[o] = fan[o]
  OBVIOUS
<1>2. \A on, power : Decide(on, power) => UNCHANGED fan
  BY DEF Decide
<1>3. MarkOutputDirty \/ Push \/ UpdateInputRouting \/ RemoveRule \/ ModuleFwAbort => UNCHANGED fan
  BY DEF MarkOutputDirty, Push, UpdateInputRouting, RemoveRule, ModuleFwAbort
<1>4. \A p : SelectOutput(p) \/ Reconnect(p) \/ PollAnswered(p) \/ PollUnanswered(p) => UNCHANGED fan
  BY DEF SelectOutput, Reconnect, PollAnswered, PollUnanswered
<1>5. \A active : RuleSource(active) \/ AddRule(active) => UNCHANGED fan
  BY DEF RuleSource, AddRule
<1>6. ASSUME NEW p \in Outputs, ModuleFwBegin(p)
      PROVE  fan'[o] = fan[o] \/ (~fan'[o].on /\ o \in disturbed')
  <2>1. fan' \in {fan, [fan EXCEPT ![p].on = FALSE]} /\ disturbed' = disturbed \cup {p}
    BY <1>6 DEF ModuleFwBegin
  <2>2. o # p => fan'[o] = fan[o]
    BY <1>f, <2>1
  <2>3. fan'[o] = fan[o] \/ ~fan'[o].on
    BY <1>f, <2>1
  <2> QED
    BY <2>1, <2>2, <2>3
<1>7. CASE ModuleFwEnd
  <2>1. /\ fan' = [fan EXCEPT ![module_fw_target].on = FALSE]
        /\ disturbed' = disturbed \cup Overtaken /\ module_fw_target \in Outputs
    BY <1>0, <1>7, FwEndIs
  <2>2. module_fw_target \in disturbed
    BY <1>0, <2>1, OutputAssumption DEF RestOK, TargetHeld
  <2>3. o # module_fw_target => fan'[o] = fan[o]
    BY <1>f, <2>1
  <2>4. o = module_fw_target => ~fan'[o].on /\ o \in disturbed'
    BY <1>f, <2>1, <2>2
  <2> QED
    BY <2>3, <2>4
<1>8. ASSUME NEW p \in Outputs, Reboot(p) \/ Failsafe(p)
      PROVE  fan'[o] = fan[o] \/ (~fan'[o].on /\ o \in disturbed')
  <2>1. disturbed' = disturbed \cup {p}
    BY <1>8 DEF Reboot, Failsafe
  <2>2. o # p => fan'[o] = fan[o]
    BY <1>f, <1>8 DEF Reboot, Failsafe
  <2>3. o = p => ~fan'[o].on
    BY <1>f, <1>8 DEF Reboot, Failsafe
  <2> QED
    BY <2>1, <2>2, <2>3
<1>9. Refused \/ RuleWaits => UNCHANGED fan
  BY DEF Refused, RuleWaits
<1>e. ASSUME item \in Writes, item.out # o
      PROVE  Effect(item)[o] = fan[o]
  BY <1>0, <1>e, EffectIs
<1>10. CASE Answered
  <2>1. /\ item \in Writes /\ IsWrite(item) /\ Sendable(item) /\ fan' = Effect(item)
        /\ UNCHANGED disturbed
    BY <1>10, <1>t, AnsweredIs
  <2>2. ~Idle
    BY <1>10 DEF Answered
  <2> QED
    BY <1>e, <1>h, <2>1, <2>2
<1>11. CASE Unanswered
  <2>1. /\ item \in Writes /\ IsWrite(item) /\ Sendable(item) /\ fan' \in {fan, Effect(item)}
        /\ disturbed' = disturbed \cup Forgotten(item) \cup Overtaken
    BY <1>11, <1>t, UnansweredIs
  <2>2. ~Idle
    BY <1>11 DEF Unanswered
  <2> QED
    BY <1>e, <1>h, <2>1, <2>2
<1>12. UNCHANGED outputVars => UNCHANGED fan
  BY DEF outputVars
<1> QED
  BY <1>1, <1>2, <1>3, <1>4, <1>5, <1>6, <1>7, <1>8, <1>9, <1>10, <1>11, <1>12
     DEF NextOutput, Handler, Update, Request, Module

\* Which command stops or starts a fan.
LEMMA CommandIs ==
  ASSUME OutputInv, NEW item \in Writes, NEW o \in Outputs, item.out = o,
         fan' = Effect(item)
  PROVE  /\ fan[o].on /\ ~fan'[o].on =>
              \/ item.kind = "enable" /\ ~desired.on
              \/ item.kind = "rule" /\ ~rule.source
              \/ item.kind \in OffKinds
         /\ ~fan[o].on /\ fan'[o].on => item.kind \in {"enable", "rule"}
         /\ item.kind = "enable" => fan'[o].on = desired.on /\ fan'[o].power = fan[o].power
<1>0. RestOK
  BY InvParts
<1>1. item.kind \in Kinds
  BY DEF Writes
<1>2. /\ item.kind # "power" => fan'[o].power = fan[o].power
      /\ item.kind = "power" => fan'[o].on = fan[o].on
      /\ item.kind = "enable" => fan'[o].on = desired.on
      /\ item.kind = "rule" => fan'[o].on = rule.source
      /\ item.kind \in OffKinds => fan'[o].on = FALSE
  BY <1>0, EffectIs
<1>3. item.kind \in {"power", "enable", "rule"} \/ item.kind \in OffKinds
  BY <1>1 DEF Kinds, OffKinds
<1>4. item.kind = "enable" => item.kind # "power"
  OBVIOUS
<1>5. CASE item.kind = "power"
  BY <1>2, <1>5
<1>6. CASE item.kind = "enable"
  BY <1>2, <1>6
<1>7. CASE item.kind = "rule"
  BY <1>2, <1>7
<1>8. CASE item.kind \in OffKinds
  BY <1>2, <1>4, <1>8
<1> QED
  BY <1>3, <1>5, <1>6, <1>7, <1>8

\* The enable that starts a fan finds the desired set point in it: the push writes the
\* power first, and nothing between the two changes it unnoticed.
THEOREM StartsCorrect == Safety => StartsAtDesiredPower
<1>1. OutputInv /\ [NextOutput]_outputVars =>
        [\A o \in Outputs :
           /\ ~fan[o].on /\ fan'[o].on
           /\ ~Idle /\ Head(todo).kind = "enable"
           /\ o \notin disturbed
           => fan'[o].power = desired.power]_outputVars
  <2> SUFFICES ASSUME OutputInv, [NextOutput]_outputVars, NEW o \in Outputs,
                      ~fan[o].on, fan'[o].on, ~Idle, Head(todo).kind = "enable", o \notin disturbed
               PROVE  fan'[o].power = desired.power
    OBVIOUS
  <2>0. RestOK /\ EnableReady /\ todo \in Seq(Writes)
    BY InvParts DEF WritesInv
  <2>1. /\ Head(todo) \in Writes /\ Sendable(Head(todo)) /\ Head(todo).out = o
        /\ fan' = Effect(Head(todo))
    BY FanChanges
  <2>2. desired.on /\ fan'[o].power = fan[o].power
    BY <2>1, CommandIs
  <2>3. 1 \in 1 .. Len(todo) /\ Head(todo) = todo[1]
    BY <2>0 DEF Idle
  <2>4. \A j \in 1 .. 1 - 1 : FALSE
    OBVIOUS
  <2>5. fan[o].power = desired.power
    BY <2>0, <2>1, <2>2, <2>3, <2>4 DEF EnableReady, Sendable
  <2> QED
    BY <2>2, <2>5
<1> QED
  BY <1>1, OutputInvCorrect, PTL DEF Safety, StartsAtDesiredPower

\* While extraction is wanted nothing that the master sends stops the fan of the active
\* output, except an OFF that overtook its selection and that the next push repairs.
THEOREM NoCutCorrect == Safety => NoCutWhileWanted
<1>1. OutputInv /\ [NextOutput]_outputVars =>
        [\A o \in Outputs :
           desired.on /\ active_output_addr = o /\ fan[o].on /\ ~fan'[o].on
           => o \in disturbed']_outputVars
  <2> SUFFICES ASSUME OutputInv, [NextOutput]_outputVars, NEW o \in Outputs,
                      desired.on, active_output_addr = o, fan[o].on, ~fan'[o].on,
                      o \notin disturbed'
               PROVE  FALSE
    OBVIOUS
  <2> DEFINE item == Head(todo)
  <2>1. /\ item \in Writes /\ IsWrite(item) /\ WriteOK(item) /\ item.out = o
        /\ fan' = Effect(item) /\ disturbed \subseteq disturbed'
    BY FanChanges
  <2>2. \/ item.kind = "rule" /\ ~rule.source
        \/ item.kind \in OffKinds
    BY <2>1, CommandIs
  <2>3. CASE item.kind = "rule" /\ ~rule.source
    <3>1. RuleTarget = o
      BY <2>1, <2>3 DEF WriteOK
    <3> QED
      BY <2>1, <2>3, <3>1 DEF IsWrite, RuleWrites, RuleYields
  <2>4. CASE item.kind \in OffKinds
    BY <2>1, <2>4 DEF WriteOK, OffKinds
  <2> QED
    BY <2>2, <2>3, <2>4
<1> QED
  BY <1>1, OutputInvCorrect, PTL DEF Safety, NoCutWhileWanted

\* No command of the extraction logic stops a fan that a direct rule keeps on.
THEOREM RuleKeepsCorrect == Safety => RuleKeepsFan
<1>1. OutputInv /\ [NextOutput]_outputVars =>
        [\A o \in Outputs :
           RuleOwns(o) /\ active_output_addr = o /\ fan[o].on /\ ~fan'[o].on
           => o \in disturbed']_outputVars
  <2> SUFFICES ASSUME OutputInv, [NextOutput]_outputVars, NEW o \in Outputs,
                      RuleOwns(o), active_output_addr = o, fan[o].on, ~fan'[o].on,
                      o \notin disturbed'
               PROVE  FALSE
    OBVIOUS
  <2> DEFINE item == Head(todo)
  <2>1. /\ item \in Writes /\ WriteOK(item) /\ item.out = o
        /\ fan' = Effect(item) /\ disturbed \subseteq disturbed'
    BY FanChanges
  <2>2. rule.enabled /\ rule.source
    BY DEF RuleOwns, RuleOn
  <2>3. \/ item.kind = "enable" /\ ~desired.on
        \/ item.kind \in OffKinds
    BY <2>1, <2>2, CommandIs
  <2> QED
    BY <2>1, <2>2, <2>3 DEF WriteOK, OffKinds
<1> QED
  BY <1>1, OutputInvCorrect, PTL DEF Safety, RuleKeepsFan

=============================================================================
