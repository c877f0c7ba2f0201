------------------------- MODULE InputRouting_proofs -------------------------
(***************************************************************************)
(* What TLAPS proves about InputRouting, for any modules and any wiring,   *)
(* and for those wirings in which no rule writes to a module whose input   *)
(* somebody uses.                                                          *)
(***************************************************************************)
EXTENDS InputRouting, TLAPS

(***************************************************************************)
(* Types.                                                                  *)
(***************************************************************************)

\* Every rule has a module as its source, and as its target a module or the extraction.
LEMMA RuleTyped ==
  /\ Len(Rules) \in Nat
  /\ \A i \in Routes : /\ i \in Nat /\ 1 <= i /\ i <= Len(Rules)
                       /\ Rules[i].source \in Modules
                       /\ Rules[i].target \in Modules \cup {Extractor}
<1> DEFINE Rule == [source : Modules, target : Modules \cup {Extractor}]
<1>1. Rules \in Seq(Rule) /\ Len(Rules) \in Nat
  BY RoutingAssumption
<1>2. ASSUME NEW i \in Routes
      PROVE  i \in Nat /\ 1 <= i /\ i <= Len(Rules) /\ Rules[i] \in Rule
  <2>1. i \in Nat /\ 1 <= i /\ i <= Len(Rules)
    BY <1>1 DEF Routes
  <2> HIDE DEF Rule
  <2> QED
    BY <1>1, <2>1
<1> QED
  BY <1>1, <1>2

\* Reading a module leaves latches and masks of BOOLEANs.
LEMMA ReadTyped ==
  ASSUME TypeOK, NEW m \in Modules,
         \/ \E held \in BOOLEAN : Reads(m, held) \/ ReadsAliases(m, held)
         \/ ReadFails(m)
         \/ UNCHANGED <<event, view>>
  PROVE  /\ event' \in [Modules -> BOOLEAN]
         /\ pulse' \in [Modules -> BOOLEAN]
         /\ mask' \in [Modules -> BOOLEAN]
BY DEF TypeOK, Reads, ReadsAliases, ReadFails, view

\* What sets an output behind the back of its rules leaves BOOLEANs.
LEMMA AstrayTyped ==
  ASSUME TypeOK, NEW m \in Modules, NEW on \in BOOLEAN, SetsAstray(m, on)
  PROVE  output' \in [Modules -> BOOLEAN] /\ astray' \in [Modules -> BOOLEAN]
BY DEF TypeOK, SetsAstray

\* The outputs that rules write are outputs of modules.
LEMMA TargetTyped == Targets \subseteq Modules
BY RuleTyped DEF Targets

\* A routing starts with the first rule.
LEMMA StartTyped ==
  ASSUME NEW msk, NEW on, StartRouting(msk, on)
  PROVE  /\ run' \in [next : 0 .. Len(Rules) + 1, active : BOOLEAN]
         /\ run'.next = 1 /\ run'.active = RoutedInput(msk, on)
<1>1. RoutedInput(msk, on) \in BOOLEAN
  BY DEF RoutedInput
<1>2. 1 \in 0 .. Len(Rules) + 1
  BY RuleTyped
<1> QED
  BY <1>1, <1>2 DEF StartRouting

\* The next rule's turn is one of a rule or of the end.
LEMMA TurnTyped ==
  ASSUME TypeOK, NEW i \in Routes, Turn(i)
  PROVE  /\ run.next = i /\ run'.next = i + 1 /\ run'.active = run.active
         /\ run' \in [next : 0 .. Len(Rules) + 1, active : BOOLEAN]
BY RuleTyped DEF TypeOK, Turn, NextRule

\* Every action keeps the types.
LEMMA TypeStep == TypeOK /\ [Next]_vars => TypeOK'
<1> SUFFICES ASSUME TypeOK, [Next]_vars PROVE TypeOK'
  OBVIOUS
<1> USE DEF TypeOK
<1>1. ASSUME NEW m \in Wired, Press(m) \/ Release(m) PROVE TypeOK'
  BY <1>1, RoutingAssumption DEF Press, Release, master, view
<1>2. ASSUME NEW m \in Modules, Restart(m) \/ OutputOff(m) PROVE TypeOK'
  <2>1. output' \in [Modules -> BOOLEAN] /\ astray' \in [Modules -> BOOLEAN]
    BY <1>2, AstrayTyped DEF Restart, OutputOff
  <2>2. event' \in [Modules -> BOOLEAN]
    BY <1>2 DEF Restart, OutputOff
  <2>3. level' = level /\ UNCHANGED master
    BY <1>2 DEF Restart, OutputOff
  <2> QED
    BY <2>1, <2>2, <2>3 DEF master, view
<1>3. ASSUME NEW m \in Modules, PollIo(m) PROVE TypeOK'
  <2>1. /\ event' \in [Modules -> BOOLEAN] /\ pulse' \in [Modules -> BOOLEAN]
        /\ mask' \in [Modules -> BOOLEAN]
    BY <1>3, ReadTyped DEF PollIo
  <2>2. run' \in [next : 0 .. Len(Rules) + 1, active : BOOLEAN]
    BY <1>3, StartTyped DEF PollIo
  <2> QED
    BY <1>3, <2>1, <2>2 DEF PollIo
<1>4. ASSUME NEW m \in Modules, PollLost(m) PROVE TypeOK'
  <2>1. /\ event' \in [Modules -> BOOLEAN] /\ pulse' \in [Modules -> BOOLEAN]
        /\ mask' \in [Modules -> BOOLEAN]
    BY <1>4, ReadTyped DEF PollLost
  <2>2. run' \in [next : 0 .. Len(Rules) + 1, active : BOOLEAN]
    BY <1>4, StartTyped DEF PollLost
  <2>3. online' \in [Modules -> BOOLEAN] /\ astray' \in [Modules -> BOOLEAN]
    BY <1>4 DEF PollLost, GoesOffline
  <2> QED
    BY <1>4, <2>1, <2>2, <2>3 DEF PollLost
<1>5. ASSUME NEW m \in Modules, Reconnect(m) PROVE TypeOK'
  <2>1. run' \in [next : 0 .. Len(Rules) + 1, active : BOOLEAN]
    BY <1>5, StartTyped DEF Reconnect
  <2> QED
    BY <1>5, <2>1 DEF Reconnect, module, view
<1>6. CASE ScanRead
  <2>1. /\ event' \in [Modules -> BOOLEAN] /\ pulse' \in [Modules -> BOOLEAN]
        /\ mask' \in [Modules -> BOOLEAN]
    <3>1. scan \in Modules
      BY <1>6 DEF ScanRead
    <3> QED
      BY <1>6, <3>1, ReadTyped DEF ScanRead
  <2>2. run' \in [next : 0 .. Len(Rules) + 1, active : BOOLEAN]
    BY <1>6, StartTyped DEF ScanRead
  <2> QED
    BY <1>6, <2>1, <2>2 DEF ScanRead
<1>7. CASE UpdateInputRouting
  <2>1. run' \in [next : 0 .. Len(Rules) + 1, active : BOOLEAN]
    BY <1>7, StartTyped DEF UpdateInputRouting
  <2> QED
    BY <1>7, <2>1 DEF UpdateInputRouting, module, view
<1>8. ASSUME NEW i \in Routes, ExtractorRule(i) PROVE TypeOK'
  <2>1. run.active \/ SourceActive(i) \in BOOLEAN
    BY DEF SourceActive
  <2>2. NextRule \in 0 .. Len(Rules) + 1
    BY <1>8, RuleTyped DEF ExtractorRule, NextRule
  <2>3. run' \in [next : 0 .. Len(Rules) + 1, active : BOOLEAN]
    BY <1>8, <2>1, <2>2, RuleTyped DEF ExtractorRule, SourceActive
  <2> QED
    BY <1>8, <2>3 DEF ExtractorRule, module, view
<1>9. ASSUME NEW i \in Routes, TargetOffline(i) \/ TargetInStep(i) PROVE TypeOK'
  <2>1. run' \in [next : 0 .. Len(Rules) + 1, active : BOOLEAN]
    BY <1>9, TurnTyped DEF TargetOffline, TargetInStep
  <2> QED
    BY <1>9, <2>1 DEF TargetOffline, TargetInStep, OutOfStep, module, view
<1>10. ASSUME NEW i \in Routes, WriteAnswered(i) PROVE TypeOK'
  <2>1. run' \in [next : 0 .. Len(Rules) + 1, active : BOOLEAN]
    BY <1>10, TurnTyped DEF WriteAnswered
  <2>2. Rules[i].target \in Modules /\ SourceActive(i) \in BOOLEAN
    BY <1>10, RuleTyped DEF WriteAnswered, SourceActive
  <2>3. /\ event' \in [Modules -> BOOLEAN] /\ pulse' \in [Modules -> BOOLEAN]
        /\ mask' \in [Modules -> BOOLEAN]
    BY <1>10, <2>2, ReadTyped DEF WriteAnswered
  <2>4. /\ output' \in [Modules -> BOOLEAN] /\ astray' \in [Modules -> BOOLEAN]
        /\ rule_state' \in [Routes -> [last_active : BOOLEAN, target_sync_valid : BOOLEAN]]
    BY <1>10, <2>2 DEF WriteAnswered
  <2> QED
    BY <1>10, <2>1, <2>3, <2>4 DEF WriteAnswered
<1>11. ASSUME NEW i \in Routes, WriteLost(i) PROVE TypeOK'
  <2>1. run' \in [next : 0 .. Len(Rules) + 1, active : BOOLEAN]
    BY <1>11, TurnTyped DEF WriteLost
  <2>2. Rules[i].target \in Modules /\ SourceActive(i) \in BOOLEAN
    BY <1>11, RuleTyped, RoutingAssumption DEF WriteLost, SourceActive
  <2>3. /\ output' \in [Modules -> BOOLEAN] /\ online' \in [Modules -> BOOLEAN]
        /\ astray' \in [Modules -> BOOLEAN]
        /\ rule_state' \in [Routes -> [last_active : BOOLEAN, target_sync_valid : BOOLEAN]]
    BY <1>11, <2>2 DEF WriteLost, OutOfStep, GoesOffline
  <2> QED
    BY <1>11, <2>1, <2>3 DEF WriteLost, view
<1>12. CASE Finish
  <2>1. run' \in [next : 0 .. Len(Rules) + 1, active : BOOLEAN]
    BY <1>12, RuleTyped DEF Finish, NotRouting
  <2> QED
    BY <1>12, <2>1 DEF Finish, module, view
<1>13. CASE UNCHANGED vars
  BY <1>13 DEF vars, module, master, view
<1>14. ASSUME NEW m \in Targets, NEW on \in BOOLEAN, SetIoOutput(m, on) PROVE TypeOK'
  <2>1. m \in Modules
    BY TargetTyped
  <2>2. /\ event' \in [Modules -> BOOLEAN] /\ pulse' \in [Modules -> BOOLEAN]
        /\ mask' \in [Modules -> BOOLEAN]
    BY <1>14, <2>1, ReadTyped DEF SetIoOutput
  <2>3. output' \in [Modules -> BOOLEAN] /\ astray' \in [Modules -> BOOLEAN]
    BY <1>14, <2>1, AstrayTyped DEF SetIoOutput
  <2>4. run' \in [next : 0 .. Len(Rules) + 1, active : BOOLEAN]
    BY <1>14, StartTyped DEF SetIoOutput
  <2> QED
    BY <1>14, <2>2, <2>3, <2>4 DEF SetIoOutput
<1> QED
  BY <1>1, <1>2, <1>3, <1>4, <1>5, <1>6, <1>7, <1>8, <1>9, <1>10, <1>11, <1>12, <1>13, <1>14
  DEF Next, RuleTurn

\* At the start nothing is routed.
LEMMA TypeInit == Init => TypeOK
<1> SUFFICES ASSUME Init PROVE TypeOK
  OBVIOUS
<1>1. NotRouting \in [next : 0 .. Len(Rules) + 1, active : BOOLEAN]
  BY RuleTyped DEF NotRouting
<1> QED
  BY <1>1 DEF Init, TypeOK

\* Masks, latches and what is known of each rule keep their types, and
\* updateInputRouting never leaves input_rules_: the loop over the rules ends
\* behind the last one, also when a write in the middle fails.
THEOREM TypeCorrect == Safety => []TypeOK
<1>1. Init => TypeOK
  BY TypeInit
<1>2. TypeOK /\ [Next]_vars => TypeOK'
  BY TypeStep
<1> QED
  BY <1>1, <1>2, PTL DEF Safety

(***************************************************************************)
(* Routing the inputs.                                                     *)
(***************************************************************************)

\* No rule writes to a module whose input is routed to the extraction, by the route
\* mask or by a rule.
InputsUnwritten ==
  \A i, j \in Routes :
    /\ Rules[i].target \notin Routed
    /\ Rules[j].target = Extractor => Rules[i].target # Rules[j].source

\* The external input, as far as the rules before rule n ask for it.
DemandedBefore(n) ==
  \/ RoutedInput(mask, online)
  \/ \E i \in Routes : i < n /\ Rules[i].target = Extractor /\ SourceActive(i)

\* Between two routings the external input is what the inputs ask for; within one,
\* "active" is what they and the rules so far ask for.
InputInv ==
  IF run.next = 0 THEN external_input = ObservedDemand
                  ELSE run.active = DemandedBefore(run.next)

\* What is demanded changes only with a mask or the presence of a module somebody
\* listens to.
LEMMA DemandFrame ==
  ASSUME NEW n,
         \A m \in Routed : mask'[m] = mask[m] /\ online'[m] = online[m],
         \A i \in Routes : Rules[i].target = Extractor => SourceActive(i)' = SourceActive(i)
  PROVE  DemandedBefore(n)' = DemandedBefore(n)
<1>1. RoutedInput(mask, online)' <=> RoutedInput(mask, online)
  BY DEF RoutedInput
<1>2. (\E i \in Routes : i < n /\ Rules[i].target = Extractor /\ SourceActive(i))'
        <=> (\E i \in Routes : i < n /\ Rules[i].target = Extractor /\ SourceActive(i))
  OBVIOUS
<1>3. DemandedBefore(n)' <=> DemandedBefore(n)
  BY <1>1, <1>2 DEF DemandedBefore
<1> QED
  BY <1>3 DEF DemandedBefore

\* Reading or losing a module that only has outputs leaves the sources alone.
LEMMA SourceFrame ==
  ASSUME NEW i \in Routes,
         mask'[Rules[i].source] = mask[Rules[i].source],
         online'[Rules[i].source] = online[Rules[i].source]
  PROVE  SourceActive(i)' = SourceActive(i)
BY DEF SourceActive

\* Behind the last rule all of them do.
LEMMA DemandLast == DemandedBefore(Len(Rules) + 1) = ObservedDemand
<1>1. \A i \in Routes : i < Len(Rules) + 1
  BY RuleTyped
<1>2. DemandedBefore(Len(Rules) + 1) <=> ObservedDemand
  BY <1>1 DEF DemandedBefore, ObservedDemand
<1> QED
  BY <1>2 DEF DemandedBefore, ObservedDemand

\* A rule with another target adds nothing; one for the extraction adds its source.
LEMMA DemandNext ==
  ASSUME NEW i \in Routes
  PROVE  /\ Rules[i].target # Extractor => DemandedBefore(i + 1) = DemandedBefore(i)
         /\ Rules[i].target = Extractor =>
              DemandedBefore(i + 1) = (DemandedBefore(i) \/ SourceActive(i))
<1>1. \A j \in Routes : j < i + 1 <=> j < i \/ j = i
  BY RuleTyped
<1>2. CASE Rules[i].target # Extractor
  <2>1. DemandedBefore(i + 1) <=> DemandedBefore(i)
    BY <1>1, <1>2 DEF DemandedBefore
  <2> QED
    BY <1>2, <2>1 DEF DemandedBefore
<1>3. CASE Rules[i].target = Extractor
  <2>1. DemandedBefore(i + 1) <=> DemandedBefore(i) \/ SourceActive(i)
    BY <1>1, <1>3 DEF DemandedBefore
  <2> QED
    BY <1>3, <2>1 DEF DemandedBefore
<1> QED
  BY <1>2, <1>3

\* A routing starts from what the routed inputs ask for now.
LEMMA InputStart ==
  ASSUME NEW msk, NEW on, msk = mask', on = online', StartRouting(msk, on)
  PROVE  InputInv'
<1>1. run'.next = 1 /\ run'.active = RoutedInput(mask', online')
  BY StartTyped
<1>2. ~ \E i \in Routes : i < 1 /\ Rules[i].target = Extractor /\ SourceActive(i)'
  BY RuleTyped
<1>3. DemandedBefore(1)' <=> RoutedInput(mask', online')
  BY <1>2 DEF DemandedBefore
<1>4. DemandedBefore(1)' = RoutedInput(mask', online')
  BY <1>3 DEF DemandedBefore, RoutedInput
<1> QED
  BY <1>1, <1>4 DEF InputInv

\* What leaves the routing, the external input, the masks and the presence of
\* modules alone keeps the invariant.
LEMMA InputSame ==
  ASSUME InputInv, UNCHANGED <<run, external_input, mask, online>>
  PROVE  InputInv'
BY DEF InputInv, DemandedBefore, ObservedDemand, RoutedInput, SourceActive

\* The turn of a rule with an output, which reads or loses no module that is
\* listened to.
LEMMA InputTurn ==
  ASSUME TypeOK, InputInv, NEW i \in Routes, Turn(i), Rules[i].target # Extractor,
         \A m \in Routed : mask'[m] = mask[m] /\ online'[m] = online[m],
         \A j \in Routes : Rules[j].target = Extractor => SourceActive(j)' = SourceActive(j)
  PROVE  InputInv'
<1>1. run.next = i /\ run'.next = i + 1 /\ run'.active = run.active
  BY TurnTyped
<1>2. i # 0 /\ i + 1 # 0
  BY RuleTyped
<1>3. run.active = DemandedBefore(i)
  BY <1>1, <1>2 DEF InputInv
<1>4. DemandedBefore(i + 1) = DemandedBefore(i)
  BY DemandNext
<1>5. PICK n : n = i + 1
  OBVIOUS
<1>6. DemandedBefore(n)' = DemandedBefore(n)
  BY DemandFrame
<1>7. run'.active = DemandedBefore(n)'
  BY <1>1, <1>3, <1>4, <1>5, <1>6
<1>8. run'.next = n /\ n # 0
  BY <1>1, <1>2, <1>5
<1> QED
  BY <1>7, <1>8 DEF InputInv

\* A write to an output changes the mask and the presence of its module only.
LEMMA WriteTouchesTarget ==
  ASSUME TypeOK, NEW i \in Routes, WriteAnswered(i) \/ WriteLost(i), NEW m \in Modules,
         m # Rules[i].target
  PROVE  mask'[m] = mask[m] /\ online'[m] = online[m]
<1>1. Rules[i].target \in Modules
  BY RuleTyped, RoutingAssumption DEF WriteAnswered, WriteLost
<1>2. CASE WriteAnswered(i)
  BY <1>1, <1>2 DEF WriteAnswered, Reads, ReadFails, view, TypeOK
<1>3. CASE WriteLost(i)
  BY <1>1, <1>3 DEF WriteLost, GoesOffline, view, TypeOK
<1> QED
  BY <1>2, <1>3

\* Every action keeps what is routed in step with what is observed.
LEMMA InputStep ==
  ASSUME InputsUnwritten
  PROVE  TypeOK /\ InputInv /\ [Next]_vars => InputInv'
<1> SUFFICES ASSUME TypeOK, InputInv, [Next]_vars PROVE InputInv'
  OBVIOUS
<1>1. ASSUME NEW m \in Wired, Press(m) \/ Release(m) PROVE InputInv'
  BY <1>1, InputSame DEF Press, Release, master, view
<1>2. ASSUME NEW m \in Modules, Restart(m) \/ OutputOff(m) PROVE InputInv'
  BY <1>2, InputSame DEF Restart, OutputOff, master, view
<1>3. ASSUME NEW m \in Modules, PollIo(m) PROVE InputInv'
  <2>1. online' = online /\ external_input' = external_input
    BY <1>3 DEF PollIo
  <2>2. CASE StartRouting(mask', online)
    BY <2>1, <2>2, InputStart
  <2>3. CASE ~ChangeWasObserved(m) /\ UNCHANGED run
    <3>1. mask' = mask
      BY <1>3, <2>3 DEF PollIo, Reads, ChangeWasObserved, TypeOK
    <3> QED
      BY <2>1, <2>3, <3>1, InputSame
  <2> QED
    BY <1>3, <2>2, <2>3 DEF PollIo
<1>4. ASSUME NEW m \in Modules, PollLost(m) PROVE InputInv'
  <2>1. mask' = mask /\ external_input' = external_input
    BY <1>4 DEF PollLost, ReadFails, view
  <2>2. CASE StartRouting(mask, online')
    BY <2>1, <2>2, InputStart
  <2>3. CASE UNCHANGED <<online, run>>
    BY <2>1, <2>3, InputSame
  <2> QED
    BY <1>4, <2>2, <2>3 DEF PollLost
<1>5. ASSUME NEW m \in Modules, Reconnect(m) PROVE InputInv'
  <2>1. mask' = mask /\ StartRouting(mask, online')
    BY <1>5 DEF Reconnect, view
  <2> QED
    BY <2>1, InputStart
<1>6. CASE ScanRead
  <2>1. online' = online /\ StartRouting(mask', online)
    BY <1>6 DEF ScanRead
  <2> QED
    BY <2>1, InputStart
<1>7. CASE UpdateInputRouting
  <2>1. online' = online /\ mask' = mask /\ StartRouting(mask, online)
    BY <1>7 DEF UpdateInputRouting, view
  <2> QED
    BY <2>1, InputStart
<1>8. ASSUME NEW i \in Routes, ExtractorRule(i) PROVE InputInv'
  <2>1. /\ run.next = i /\ run'.next = i + 1 /\ Rules[i].target = Extractor
        /\ run'.active = (run.active \/ SourceActive(i))
        /\ mask' = mask /\ online' = online
    BY <1>8 DEF ExtractorRule, NextRule, view
  <2>2. i # 0 /\ i + 1 # 0
    BY RuleTyped
  <2>3. run.active = DemandedBefore(i)
    BY <2>1, <2>2 DEF InputInv
  <2>4. PICK n : n = i + 1
    OBVIOUS
  <2>5. DemandedBefore(n)' = DemandedBefore(n)
    BY <2>1 DEF DemandedBefore, RoutedInput, SourceActive
  <2>6. DemandedBefore(n) = (DemandedBefore(i) \/ SourceActive(i))
    BY <2>1, <2>4, DemandNext
  <2>7. run'.active = DemandedBefore(n)'
    BY <2>1, <2>3, <2>5, <2>6
  <2>8. run'.next = n /\ n # 0
    BY <2>1, <2>2, <2>4
  <2> QED
    BY <2>7, <2>8 DEF InputInv
<1>9. ASSUME NEW i \in Routes, TargetOffline(i) \/ TargetInStep(i) PROVE InputInv'
  <2>1. Turn(i) /\ Rules[i].target # Extractor /\ mask' = mask /\ online' = online
    BY <1>9 DEF TargetOffline, TargetInStep, view
  <2>2. \A j \in Routes : SourceActive(j)' = SourceActive(j)
    BY <2>1 DEF SourceActive
  <2> QED
    BY <2>1, <2>2, InputTurn
<1>10. ASSUME NEW i \in Routes, WriteAnswered(i) \/ WriteLost(i) PROVE InputInv'
  <2>1. Turn(i) /\ Rules[i].target # Extractor
    BY <1>10, RoutingAssumption DEF WriteAnswered, WriteLost
  <2>2. \A m \in Routed : mask'[m] = mask[m] /\ online'[m] = online[m]
    BY <1>10, WriteTouchesTarget, RoutingAssumption DEF InputsUnwritten
  <2>3. ASSUME NEW j \in Routes, Rules[j].target = Extractor
        PROVE  SourceActive(j)' = SourceActive(j)
    <3>1. Rules[j].source \in Modules /\ Rules[j].source # Rules[i].target
      BY <2>3, RuleTyped DEF InputsUnwritten
    <3> QED
      BY <1>10, <3>1, WriteTouchesTarget, SourceFrame
  <2> QED
    BY <2>1, <2>2, <2>3, InputTurn
<1>11. CASE Finish
  <2>1. /\ run.next = Len(Rules) + 1 /\ external_input' = run.active /\ run'.next = 0
        /\ mask' = mask /\ online' = online
    BY <1>11 DEF Finish, NotRouting, view
  <2>2. Len(Rules) + 1 # 0
    BY RuleTyped
  <2>3. run.active = ObservedDemand
    BY <2>1, <2>2, DemandLast DEF InputInv
  <2>4. ObservedDemand' = ObservedDemand
    BY <2>1 DEF ObservedDemand, RoutedInput, SourceActive
  <2> QED
    BY <2>1, <2>3, <2>4 DEF InputInv
<1>12. CASE UNCHANGED vars
  BY <1>12, InputSame DEF vars, master, view
<1>13. ASSUME NEW m \in Targets, NEW on \in BOOLEAN, SetIoOutput(m, on) PROVE InputInv'
  <2>1. online' = online /\ external_input' = external_input
    BY <1>13 DEF SetIoOutput
  <2>2. CASE StartRouting(mask', online)
    BY <2>1, <2>2, InputStart
  <2>3. CASE ~ChangeWasObserved(m) /\ UNCHANGED run
    <3>1. mask' = mask
      BY <1>13, <2>3 DEF SetIoOutput, Reads, ReadFails, view, ChangeWasObserved, TypeOK
    <3> QED
      BY <2>1, <2>3, <3>1, InputSame
  <2> QED
    BY <1>13, <2>2, <2>3 DEF SetIoOutput
<1> QED
  BY <1>1, <1>2, <1>3, <1>4, <1>5, <1>6, <1>7, <1>8, <1>9, <1>10, <1>11, <1>12, <1>13
  DEF Next, RuleTurn

\* At the start no module is online and nothing is demanded.
LEMMA InputInit == Init => InputInv
<1> SUFFICES ASSUME Init PROVE InputInv
  OBVIOUS
<1>1. \A m \in Modules : ~online[m]
  BY DEF Init
<1>2. ~RoutedInput(mask, online)
  BY <1>1, RoutingAssumption DEF RoutedInput
<1>3. \A i \in Routes : ~SourceActive(i)
  BY <1>1, RuleTyped DEF SourceActive
<1>4. ObservedDemand = FALSE
  BY <1>2, <1>3 DEF ObservedDemand
<1> QED
  BY <1>4 DEF Init, InputInv, NotRouting

\* Where no rule writes to a module that is listened to, every input the master has
\* observed has reached the extraction logic when the handler that observed it ends,
\* whatever was lost or went offline while the rules were being carried out.  (With
\* such a rule it need not have: the routing the write's own read asks for does not
\* take place.)
THEOREM InputsCorrect ==
  ASSUME InputsUnwritten
  PROVE  Safety => []InputsAreRouted
<1>1. Init => TypeOK /\ InputInv
  BY TypeInit, InputInit
<1>2. TypeOK /\ InputInv /\ [Next]_vars => (TypeOK /\ InputInv)'
  BY TypeStep, InputStep
<1>3. InputInv => InputsAreRouted
  BY DEF InputInv, InputsAreRouted, Idle
<1> QED
  BY <1>1, <1>2, <1>3, PTL DEF Safety

(***************************************************************************)
(* Writing the outputs.                                                    *)
(***************************************************************************)

\* No rule writes to the source of a rule, and no output is written by two rules.
OutputsSeparate ==
  \A i, j \in Routes :
    /\ Rules[i].target # Rules[j].source
    /\ Rules[i].target = Rules[j].target /\ Rules[i].target # Extractor => i = j

\* Since the last routing began rule i had its turn.
HadTurn(i) == run.next = 0 \/ i < run.next

\* A rule that counts as written has written its output, unless the module is away or
\* something else has changed its output; once the rule had its turn, the module is not
\* away and the source has not changed since.
RuleWritten(i) ==
  rule_state[i].target_sync_valid =>
    /\ \/ ~online[Rules[i].target]
       \/ astray[Rules[i].target]
       \/ output[Rules[i].target] = rule_state[i].last_active
    /\ HadTurn(i) => /\ online[Rules[i].target]
                     /\ rule_state[i].last_active = SourceActive(i)

OutputInv == \A i \in Routes : Rules[i].target # Extractor => RuleWritten(i)

\* A routing that begins gives every rule its turn again.
LEMMA OutputStart ==
  ASSUME OutputInv, run'.next = 1, rule_state' = rule_state,
         \A m \in Modules :
           online'[m] => /\ online[m]
                         /\ astray'[m] \/ (~astray[m] /\ output'[m] = output[m])
  PROVE  OutputInv'
<1>1. \A i \in Routes : ~ (i < 1) /\ Rules[i].target \in Modules \cup {Extractor}
  BY RuleTyped
<1> QED
  BY <1>1 DEF OutputInv, RuleWritten, HadTurn

\* What leaves the routing, the masks and the presence of modules alone keeps the
\* invariant, if an output that changes goes astray.
LEMMA OutputSame ==
  ASSUME OutputInv, UNCHANGED <<run, rule_state, mask, online>>,
         \A m \in Modules :
           online[m] => astray'[m] \/ (~astray[m] /\ output'[m] = output[m])
  PROVE  OutputInv'
BY RuleTyped DEF OutputInv, RuleWritten, HadTurn, SourceActive

\* An output that changes behind the back of its rules goes astray.
LEMMA AstrayChange ==
  ASSUME TypeOK, NEW m \in Modules, NEW on \in BOOLEAN, SetsAstray(m, on), NEW n \in Modules,
         online[n]
  PROVE  astray'[n] \/ (~astray[n] /\ output'[n] = output[n])
BY DEF TypeOK, SetsAstray

\* The turn of rule i: the other rules must not notice it.
LEMMA OutputTurn ==
  ASSUME OutputInv, NEW i \in Routes, run.next = i, run'.next = i + 1,
         Rules[i].target # Extractor => RuleWritten(i)',
         \A j \in Routes :
           j # i /\ Rules[j].target # Extractor =>
             /\ rule_state'[j] = rule_state[j]
             /\ online'[Rules[j].target] = online[Rules[j].target]
             /\ output'[Rules[j].target] = output[Rules[j].target]
             /\ astray'[Rules[j].target] = astray[Rules[j].target]
             /\ SourceActive(j)' = SourceActive(j)
  PROVE  OutputInv'
<1> SUFFICES ASSUME NEW j \in Routes, Rules[j].target # Extractor, j # i
             PROVE  RuleWritten(j)'
  BY DEF OutputInv
<1>1. RuleWritten(j)
  BY DEF OutputInv
<1>2. HadTurn(j)' => HadTurn(j)
  BY RuleTyped DEF HadTurn
<1> QED
  BY <1>1, <1>2 DEF RuleWritten

\* Every action keeps the outputs in step with the rules that count as written.
LEMMA OutputStep ==
  ASSUME OutputsSeparate
  PROVE  TypeOK /\ OutputInv /\ [Next]_vars => OutputInv'
<1> SUFFICES ASSUME TypeOK, OutputInv, [Next]_vars PROVE OutputInv'
  OBVIOUS
<1>1. ASSUME NEW m \in Wired, Press(m) \/ Release(m) PROVE OutputInv'
  BY <1>1, OutputSame DEF Press, Release, master, view
<1>2. ASSUME NEW m \in Modules, Restart(m) \/ OutputOff(m) PROVE OutputInv'
  <2>1. SetsAstray(m, FALSE) /\ UNCHANGED <<run, rule_state, mask, online>>
    BY <1>2 DEF Restart, OutputOff, master, view
  <2> QED
    BY <2>1, AstrayChange, OutputSame
<1>3. ASSUME NEW m \in Modules, PollIo(m) PROVE OutputInv'
  <2>1. UNCHANGED <<online, output, astray, rule_state>>
    BY <1>3 DEF PollIo
  <2>2. CASE StartRouting(mask', online)
    BY <2>1, <2>2, StartTyped, OutputStart
  <2>3. CASE ~ChangeWasObserved(m) /\ UNCHANGED run
    <3>1. mask' = mask
      BY <1>3, <2>3 DEF PollIo, Reads, ChangeWasObserved, TypeOK
    <3> QED
      BY <2>1, <2>3, <3>1, OutputSame
  <2> QED
    BY <1>3, <2>2, <2>3 DEF PollIo
<1>4. ASSUME NEW m \in Modules, PollLost(m) PROVE OutputInv'
  <2>1. UNCHANGED <<mask, output, rule_state>>
    BY <1>4 DEF PollLost, ReadFails, view
  <2>2. CASE GoesOffline(m) /\ StartRouting(mask, online')
    <3>1. \A n \in Modules : online'[n] => online[n] /\ astray'[n] = astray[n]
      BY <2>2 DEF TypeOK, GoesOffline
    <3> QED
      BY <2>1, <2>2, <3>1, StartTyped, OutputStart
  <2>3. CASE UNCHANGED <<online, run, astray>>
    BY <2>1, <2>3, OutputSame
  <2> QED
    BY <1>4, <2>2, <2>3 DEF PollLost
<1>5. ASSUME NEW m \in Modules, Reconnect(m) PROVE OutputInv'
  <2>1. /\ run.next = 0 /\ ~online[m] /\ online' = [online EXCEPT ![m] = TRUE]
        /\ UNCHANGED <<output, astray, rule_state>>
    BY <1>5 DEF Reconnect, Idle, module
  <2>2. run'.next = 1
    BY <1>5, StartTyped DEF Reconnect
  <2>3. ASSUME NEW i \in Routes, Rules[i].target # Extractor PROVE RuleWritten(i)'
    <3>1. RuleWritten(i) /\ HadTurn(i)
      BY <2>1, <2>3 DEF OutputInv, HadTurn
    <3>2. Rules[i].target \in Modules /\ ~ (i < 1)
      BY <2>3, RuleTyped
    <3>3. rule_state[i].target_sync_valid => online[Rules[i].target]
      BY <3>1 DEF RuleWritten
    <3>4. rule_state[i].target_sync_valid => Rules[i].target # m
      BY <2>1, <3>3
    <3> QED
      BY <2>1, <2>2, <3>1, <3>2, <3>4 DEF RuleWritten, HadTurn, TypeOK
  <2> QED
    BY <2>3 DEF OutputInv
<1>6. CASE ScanRead
  <2>1. UNCHANGED <<online, output, astray, rule_state>> /\ StartRouting(mask', online)
    BY <1>6 DEF ScanRead
  <2> QED
    BY <2>1, StartTyped, OutputStart
<1>7. CASE UpdateInputRouting
  <2>1. UNCHANGED <<online, output, astray, rule_state>> /\ StartRouting(mask, online)
    BY <1>7 DEF UpdateInputRouting, module
  <2> QED
    BY <2>1, StartTyped, OutputStart
<1>8. ASSUME NEW i \in Routes, ExtractorRule(i) PROVE OutputInv'
  <2>1. /\ run.next = i /\ run'.next = i + 1 /\ Rules[i].target = Extractor
        /\ UNCHANGED <<mask, online, output, astray, rule_state>>
    BY <1>8 DEF ExtractorRule, NextRule, view, module
  <2>2. \A j \in Routes : SourceActive(j)' = SourceActive(j)
    BY <2>1 DEF SourceActive
  <2> QED
    BY <2>1, <2>2, OutputTurn
<1>9. ASSUME NEW i \in Routes, TargetOffline(i) \/ TargetInStep(i) PROVE OutputInv'
  <2>1. /\ Turn(i) /\ Rules[i].target # Extractor
        /\ UNCHANGED <<mask, online, output, astray>>
    BY <1>9 DEF TargetOffline, TargetInStep, view, module
  <2>2. run.next = i /\ run'.next = i + 1
    BY <2>1, TurnTyped
  <2>3. \A j \in Routes : SourceActive(j)' = SourceActive(j)
    BY <2>1 DEF SourceActive
  <2>4. \A j \in Routes : j # i => rule_state'[j] = rule_state[j]
    BY <1>9 DEF TargetOffline, TargetInStep, OutOfStep, TypeOK
  <2>5. RuleWritten(i)'
    <3>1. CASE TargetOffline(i)
      BY <3>1 DEF TargetOffline, OutOfStep, RuleWritten, TypeOK
    <3>2. CASE TargetInStep(i)
      <4>1. RuleWritten(i)
        BY <2>1 DEF OutputInv
      <4>2. online[Rules[i].target] /\ rule_state[i].last_active = SourceActive(i)
        BY <3>2 DEF TargetInStep, InStep
      <4>3. rule_state' = rule_state
        BY <3>2 DEF TargetInStep
      <4> QED
        BY <2>1, <2>3, <4>1, <4>2, <4>3 DEF RuleWritten
    <3> QED
      BY <1>9, <3>1, <3>2
  <2> QED
    BY <2>1, <2>2, <2>3, <2>4, <2>5, OutputTurn
<1>10. ASSUME NEW i \in Routes, WriteAnswered(i) \/ WriteLost(i) PROVE OutputInv'
  <2>1. Turn(i) /\ Rules[i].target # Extractor /\ Rules[i].target \in Modules
    BY <1>10, RuleTyped, RoutingAssumption DEF WriteAnswered, WriteLost
  <2>2. run.next = i /\ run'.next = i + 1
    BY <2>1, TurnTyped
  <2>3. ASSUME NEW j \in Routes PROVE SourceActive(j)' = SourceActive(j)
    <3>1. Rules[j].source \in Modules /\ Rules[j].source # Rules[i].target
      BY RuleTyped DEF OutputsSeparate
    <3> QED
      BY <1>10, <3>1, WriteTouchesTarget, SourceFrame
  <2>4. ASSUME NEW j \in Routes, j # i, Rules[j].target # Extractor
        PROVE  /\ rule_state'[j] = rule_state[j]
               /\ online'[Rules[j].target] = online[Rules[j].target]
               /\ output'[Rules[j].target] = output[Rules[j].target]
               /\ astray'[Rules[j].target] = astray[Rules[j].target]
    <3>1. Rules[j].target \in Modules /\ Rules[j].target # Rules[i].target
      BY <2>4, RuleTyped DEF OutputsSeparate
    <3>2. online'[Rules[j].target] = online[Rules[j].target]
      BY <1>10, <3>1, WriteTouchesTarget
    <3>3. rule_state'[j] = rule_state[j]
      BY <1>10, <2>4 DEF WriteAnswered, WriteLost, OutOfStep, TypeOK
    <3>4. /\ output'[Rules[j].target] = output[Rules[j].target]
          /\ astray'[Rules[j].target] = astray[Rules[j].target]
      BY <1>10, <3>1 DEF WriteAnswered, WriteLost, GoesOffline, TypeOK
    <3> QED
      BY <3>2, <3>3, <3>4
  <2>5. RuleWritten(i)'
    <3>1. CASE WriteAnswered(i)
      <4>1. /\ rule_state'[i].last_active = SourceActive(i)
            /\ output'[Rules[i].target] = SourceActive(i)
            /\ online[Rules[i].target] /\ online' = online
        BY <2>1, <3>1 DEF WriteAnswered, TypeOK
      <4> QED
        BY <2>3, <4>1 DEF RuleWritten
    <3>2. CASE WriteLost(i)
      BY <3>2 DEF WriteLost, OutOfStep, RuleWritten, TypeOK
    <3> QED
      BY <1>10, <3>1, <3>2
  <2> QED
    BY <2>2, <2>3, <2>4, <2>5, OutputTurn
<1>11. CASE Finish
  <2>1. /\ run.next = Len(Rules) + 1 /\ run'.next = 0
        /\ UNCHANGED <<mask, online, output, astray, rule_state>>
    BY <1>11 DEF Finish, NotRouting, view, module
  <2>2. \A i \in Routes : HadTurn(i)
    BY <2>1, RuleTyped DEF HadTurn
  <2> QED
    BY <2>1, <2>2 DEF OutputInv, RuleWritten, SourceActive
<1>12. CASE UNCHANGED vars
  BY <1>12, OutputSame DEF vars, master, view, module
<1>13. ASSUME NEW m \in Targets, NEW on \in BOOLEAN, SetIoOutput(m, on) PROVE OutputInv'
  <2>1. /\ m \in Modules /\ SetsAstray(m, on)
        /\ online' = online /\ rule_state' = rule_state
    BY <1>13, TargetTyped DEF SetIoOutput
  <2>2. \A n \in Modules : online[n] => astray'[n] \/ (~astray[n] /\ output'[n] = output[n])
    BY <2>1, AstrayChange
  <2>3. CASE StartRouting(mask', online)
    BY <2>1, <2>2, <2>3, StartTyped, OutputStart
  <2>4. CASE ~ChangeWasObserved(m) /\ UNCHANGED run
    <3>1. mask' = mask
      BY <1>13, <2>1, <2>4
      DEF SetIoOutput, Reads, ReadFails, view, ChangeWasObserved, TypeOK
    <3> QED
      BY <2>1, <2>2, <2>4, <3>1, OutputSame
  <2> QED
    BY <1>13, <2>3, <2>4 DEF SetIoOutput
<1> QED
  BY <1>1, <1>2, <1>3, <1>4, <1>5, <1>6, <1>7, <1>8, <1>9, <1>10, <1>11, <1>12, <1>13
  DEF Next, RuleTurn

\* At the start no rule counts as written.
LEMMA OutputInit == Init => OutputInv
BY DEF Init, OutputInv, RuleWritten

\* Where the rules keep their sources and outputs apart, the output of a rule that
\* counts as written has the value of its source whenever the master is idle, unless
\* something else has changed it in this connection of its module: a module that was
\* away, and may have lost its output before or meanwhile, is never taken for written.
THEOREM OutputsCorrect ==
  ASSUME OutputsSeparate
  PROVE  Safety => []OutputsFollowSources
<1>1. Init => TypeOK /\ OutputInv
  BY TypeInit, OutputInit
<1>2. TypeOK /\ OutputInv /\ [Next]_vars => (TypeOK /\ OutputInv)'
  BY TypeStep, OutputStep
<1>3. OutputInv => OutputsFollowSources
  BY DEF OutputInv, OutputsFollowSources, RuleWritten, HadTurn, Idle
<1> QED
  BY <1>1, <1>2, <1>3, PTL DEF Safety

=============================================================================
