----------------------- MODULE ExtensionLifecycle_proofs -----------------------
(***************************************************************************)
(* Type correctness of the extension lifecycle: the engine never takes a  *)
(* stop_graph command that was not sent, the per-extension message count  *)
(* stays within its bound, and no count of owed results goes negative.    *)
(***************************************************************************)
EXTENDS ExtensionLifecycle, TLAPS

\* Every callback outcome is a stage and every issued command count a
\* number.
LEMMA OutcomeType ==
    ASSUME NEW b \in Behaviours, NEW ok
    PROVE  /\ Outcome(b) \in {"pending", "async", "stuck", "done"}
           /\ IssueStopGraphCmd(b, ok) \in Nat
BY DEF Behaviours, Outcome, IssueStopGraphCmd

LEMMA TypeOKInit == Init => TypeOK
<1> SUFFICES ASSUME Init PROVE TypeOK
  OBVIOUS
<1>1. phase \in Phases
  BY DEF Init, Phases, CallbackPhases, StartPhases
<1>2. msgs \in [Extensions -> 0..MaxMsgs]
  BY ConstAssumption DEF Init
<1>3. stage \in [Extensions -> {"pending", "async", "stuck", "done"}]
  BY DEF Init
<1>4. owed \in [Extensions -> Nat] /\ dropped \in [Extensions -> Nat]
  BY DEF Init
<1> QED
  BY <1>1, <1>2, <1>3, <1>4 DEF Init, TypeOK

\* Each step keeps every variable in its type.
LEMMA TypeOKStep == TypeOK /\ [Next]_vars => TypeOK'
<1> SUFFICES ASSUME TypeOK, [Next]_vars PROVE TypeOK'
  OBVIOUS
<1>1. ASSUME NEW e \in Extensions, Invoke(e) PROVE TypeOK'
  <2>1. PICK b \in IF phase \in StartPhases THEN StartBehaviours
                   ELSE StopBehaviours, ok \in StopSendResults :
          /\ stage' = [stage EXCEPT ![e] = Outcome(b)]
          /\ stopQ' = stopQ + IssueStopGraphCmd(b, ok)
    BY <1>1 DEF Invoke
  <2>2. b \in Behaviours
    BY <2>1, ConstAssumption
  <2> QED
    BY <1>1, <2>1, <2>2, OutcomeType DEF Invoke, TypeOK
<1>2. ASSUME NEW e \in Extensions, AsyncDone(e) PROVE TypeOK'
  BY <1>2 DEF AsyncDone, TypeOK
<1>3. ASSUME NEW e \in Extensions, DeliverCmd(e) PROVE TypeOK'
  <2>1. PICK b \in CmdBehaviours, ok \in StopSendResults :
          /\ owed' = [owed EXCEPT ![e] = @ + (IF b = "async" THEN 1 ELSE 0)]
          /\ dropped' = [dropped EXCEPT ![e] = @ + (IF Replied(b) \/ b = "async"
                                                    THEN 0 ELSE 1)]
          /\ stopQ' = stopQ + IssueStopGraphCmd(b, ok)
    BY <1>3 DEF DeliverCmd
  <2>2. IssueStopGraphCmd(b, ok) \in Nat
    BY ConstAssumption, OutcomeType
  <2> QED
    BY <1>3, <2>1, <2>2, ConstAssumption DEF DeliverCmd, TypeOK
<1>8. ASSUME NEW e \in Extensions, DeliverMsg(e) PROVE TypeOK'
  BY <1>8, ConstAssumption DEF DeliverMsg, IssueStopGraphCmd, TypeOK
<1>9. ASSUME NEW e \in Extensions, ReturnResult(e) PROVE TypeOK'
  BY <1>9 DEF ReturnResult, TypeOK
<1>4. CASE Advance
  <2>1. NextPhase(phase, stopping) \in Phases
    BY <1>4 DEF Advance, NextPhase, Successor, Phases, CallbackPhases,
                StartPhases, TypeOK
  <2> QED
    BY <1>4, <2>1 DEF Advance, TypeOK
<1>5. CASE ExternalStop
  BY <1>5 DEF ExternalStop, TypeOK
<1>6. CASE HandleStop
  <2>1. stopQ' \in Nat
    BY <1>6 DEF HandleStop, TypeOK
  <2>2. CASE phase = "running"
    BY <1>6, <2>1, <2>2 DEF HandleStop, TypeOK, Phases, CallbackPhases
  <2>3. CASE phase # "running"
    <3>1. stopping' \in BOOLEAN /\ phase' = phase /\ stage' = stage
      BY <1>6, <2>3 DEF HandleStop
    <3> QED
      BY <1>6, <2>1, <3>1 DEF HandleStop, TypeOK
  <2> QED
    BY <2>2, <2>3
<1>7. CASE UNCHANGED vars
  BY <1>7 DEF vars, TypeOK
<1> QED
  BY <1>1, <1>2, <1>3, <1>4, <1>5, <1>6, <1>7, <1>8, <1>9 DEF Next

\* Every variable of the lifecycle keeps its type in every state: the
\* engine's queue of stop_graph commands never goes negative (a command is
\* only handled once it was sent) and no extension is delivered more than
\* MaxMsgs messages.
THEOREM TypeCorrect == Spec => []TypeOK
BY TypeOKInit, TypeOKStep, PTL DEF Spec


=============================================================================
