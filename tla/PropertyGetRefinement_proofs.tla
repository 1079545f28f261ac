--------------------- MODULE PropertyGetRefinement_proofs ---------------------
(***************************************************************************)
(* Proof that the cross-thread property read implements the abstract      *)
(* register (the safety part of the refinement), for every value of the   *)
(* constants.  Each step of PropertyGet maps to a step of PropertyRegister *)
(* or to a stutter; the mapping needs three conjuncts of the inductive    *)
(* invariant IInv of PropertyGet_proofs: the closure at the head of the   *)
(* queue belongs to a pending getter (QueueOK), a getter outside a call   *)
(* holds no value (CvalByPc), and what a getter holds is a clone         *)
(* (CvalIsClone), so a later SetProperty or Close does not change what it *)
(* observed.                                                              *)
(***************************************************************************)
EXTENDS PropertyGetRefinement, PropertyGet_proofs

\* The abstract state of a getter, case by case.
LEMMA RStateCases ==
    ASSUME NEW g \in Goroutines
    PROVE  /\ pc[g] = "idle" => RState(g) = "idle"
           /\ pc[g] = "waiting" /\ ~evset[g] => RState(g) = "pending"
           /\ pc[g] = "waiting" /\ evset[g] => RState(g) = "answered"
           /\ pc[g] = "holding" => RState(g) = "answered"
BY DEF RState

\* A clone denotes its own value, whatever the properties are.
LEMMA CloneSnap ==
    ASSUME IInv, NEW g \in Goroutines
    PROVE  RSnap(g) = IF cval[g] = NULL THEN Absent ELSE cval[g].val
BY DEF IInv, CvalIsClone, RSnap, Deref

\* ... and so it does after a step that leaves its clone alone.
LEMMA CloneSnapPrime ==
    ASSUME IInv, NEW g \in Goroutines, cval'[g] = cval[g]
    PROVE  RSnap(g)' = RSnap(g)
BY DEF IInv, CvalIsClone, RSnap, Deref

-----------------------------------------------------------------------------
LEMMA InitRefines == Init => Reg!Init
<1> SUFFICES ASSUME Init PROVE Reg!Init
  OBVIOUS
<1>1. prop \in [Paths -> Values \cup {Absent}]
  BY DEF Init
<1>2. stateBar = [g \in Goroutines |-> "idle"]
  BY DEF Init, stateBar, RState
<1>3. snapBar = [g \in Goroutines |-> Absent]
  BY DEF Init, snapBar, RSnap
<1>4. path \in [Goroutines -> Paths]
  BY ConstAssumption DEF Init
<1> QED
  BY <1>1, <1>2, <1>3, <1>4 DEF Init, Reg!Init

\* A step that changes no getter's abstract state or observed value, nor
\* the properties, the closed flag or the paths, is an abstract stutter.
LEMMA Stutter ==
    ASSUME \A g \in Goroutines : RState(g)' = RState(g) /\ RSnap(g)' = RSnap(g),
           prop' = prop, closed' = closed, path' = path
    PROVE  UNCHANGED Reg!rvars
BY DEF stateBar, snapBar, Reg!rvars

\* A getter that got its answer leaves its call, dropping what it held:
\* the abstract Return.
LEMMA Returns ==
    ASSUME IInv, NEW g \in Goroutines,
           pc[g] = "holding" \/ (pc[g] = "waiting" /\ evset[g]),
           pc' = [pc EXCEPT ![g] = "idle"],
           cval' = [cval EXCEPT ![g] = NULL],
           prop' = prop, closed' = closed, path' = path, evset' = evset
    PROVE  Reg!Return(g)
<1> USE DEF IInv, TypeOK
<1>1. stateBar[g] = "answered"
  BY RStateCases DEF stateBar
<1>2. stateBar' = [stateBar EXCEPT ![g] = "idle"]
  BY DEF stateBar, RState
<1>3. snapBar' = [snapBar EXCEPT ![g] = Absent]
  <2>1. ASSUME NEW x \in Goroutines, x # g PROVE RSnap(x)' = RSnap(x)
    BY <2>1, CloneSnapPrime
  <2>2. RSnap(g)' = Absent
    BY DEF RSnap
  <2> QED
    BY <2>1, <2>2 DEF snapBar
<1> QED
  BY <1>1, <1>2, <1>3 DEF Reg!Return

\* Call: a getter posts its closure and waits -- the abstract Request.
LEMMA CallRefines ==
    ASSUME IInv, NEW g \in Goroutines, NEW o \in Ops, NEW p \in Paths,
           Call(g, o, p)
    PROVE  Reg!Request(g, p)
<1> USE DEF IInv, TypeOK
<1>1. stateBar[g] = "idle" /\ ~closed
  BY RStateCases DEF Call, stateBar
<1>2. stateBar' = [stateBar EXCEPT ![g] = "pending"]
  BY DEF Call, stateBar, RState
<1>3. snapBar' = snapBar
  <2>1. ASSUME NEW x \in Goroutines, x # g PROVE RSnap(x)' = RSnap(x)
    BY <2>1, CloneSnapPrime DEF Call
  <2>2. RSnap(g)' = RSnap(g)
    BY DEF Call, CvalByPc, RSnap
  <2> QED
    BY <2>1, <2>2 DEF snapBar
<1> QED
  BY <1>1, <1>2, <1>3 DEF Call, Reg!Request

\* RunNotify: the closure at the head of the queue peeks and clones the
\* property -- the abstract Read of the getter that posted it.
LEMMA RunNotifyRefines ==
    ASSUME IInv, RunNotify
    PROVE  \E g \in Goroutines : Reg!Read(g)
<1> USE DEF IInv, TypeOK
<1>1. Len(queue) >= 1
  BY EmptySeq DEF RunNotify
<1>2. PICK h \in Goroutines : h = Head(queue)
  BY <1>1
<1> DEFINE v == prop[path[h]]
<1>3. pc[h] = "waiting" /\ ~evset[h] /\ cval[h] = NULL
  BY <1>1, <1>2 DEF QueueOK
<1>4. /\ cval' = [cval EXCEPT ![h] = IF v = Absent THEN NULL
                                    ELSE [ref |-> "clone", val |-> v]]
      /\ evset' = [evset EXCEPT ![h] = TRUE]
  BY <1>2 DEF RunNotify
<1>5. stateBar[h] = "pending" /\ ~closed
  BY <1>3, RStateCases DEF RunNotify, stateBar
<1>6. stateBar' = [stateBar EXCEPT ![h] = "answered"]
  BY <1>3, <1>4 DEF RunNotify, stateBar, RState
<1>7. RSnap(h)' = v
  <2>1. CASE v = Absent
    BY <2>1, <1>4 DEF RSnap
  <2>2. CASE v # Absent
    <3>1. v \in Values
      BY <2>2
    <3>2. cval'[h] = [ref |-> "clone", val |-> v]
      BY <1>4, <2>2
    <3>3. cval'[h] # NULL
      BY <3>1, <3>2, NullAssumption DEF Refs
    <3> QED
      BY <3>2, <3>3 DEF RSnap, Deref
  <2> QED
    BY <2>1, <2>2
<1>8. snapBar' = [snapBar EXCEPT ![h] = prop[path[h]]]
  <2>1. ASSUME NEW x \in Goroutines, x # h PROVE RSnap(x)' = RSnap(x)
    BY <2>1, <1>4, CloneSnapPrime
  <2> QED
    BY <2>1, <1>7 DEF snapBar
<1> QED
  BY <1>2, <1>5, <1>6, <1>8 DEF RunNotify, Reg!Read

\* SetProperty: the abstract Write; what the getters hold are clones.
LEMMA SetPropertyRefines ==
    ASSUME IInv, NEW p \in Paths, NEW v \in Values, SetProperty(p, v)
    PROVE  Reg!Write(p, v)
<1> USE DEF IInv, TypeOK
<1>1. stateBar' = stateBar
  BY DEF SetProperty, stateBar, RState
<1>2. snapBar' = snapBar
  BY CloneSnapPrime DEF SetProperty, snapBar
<1> QED
  BY <1>1, <1>2 DEF SetProperty, Reg!Write

\* Close: the abstract Close, which the region lock keeps from happening
\* while a getter waits.
LEMMA CloseRefines ==
    ASSUME IInv, Close
    PROVE  Reg!Close
<1> USE DEF IInv, TypeOK
<1>1. \A g \in Goroutines : stateBar[g] # "pending"
  BY DEF Close, stateBar, RState
<1>2. stateBar' = stateBar
  BY DEF Close, stateBar, RState
<1>3. snapBar' = snapBar
  BY CloneSnapPrime DEF Close, snapBar
<1> QED
  BY <1>1, <1>2, <1>3 DEF Close, Reg!Close

\* Every step of the getters and of the extension thread is a step of the
\* register or leaves it alone.
LEMMA NextRefines == IInv /\ [Next]_vars => [Reg!Next]_Reg!rvars
<1> SUFFICES ASSUME IInv, [Next]_vars PROVE [Reg!Next]_Reg!rvars
  OBVIOUS
<1> USE DEF IInv, TypeOK
<1>1. CASE RunNotify
  BY <1>1, RunNotifyRefines DEF Reg!Next
<1>2. ASSUME NEW p \in Paths, NEW v \in Values, SetProperty(p, v)
      PROVE  [Reg!Next]_Reg!rvars
  BY <1>2, SetPropertyRefines DEF Reg!Next
<1>3. CASE Close
  BY <1>3, CloseRefines DEF Reg!Next
<1>4. ASSUME NEW g \in Goroutines, NEW o \in Ops, NEW p \in Paths,
             Call(g, o, p)
      PROVE  [Reg!Next]_Reg!rvars
  BY <1>4, CallRefines DEF Reg!Next
<1>5. ASSUME NEW g \in Goroutines, NEW o \in Ops, NEW p \in Paths,
             CallClosed(g, o, p) \/ CallNotifyRejected(g, o, p)
      PROVE  [Reg!Next]_Reg!rvars
  <2>1. \A x \in Goroutines : RState(x)' = RState(x) /\ RSnap(x)' = RSnap(x)
    BY <1>5 DEF CallClosed, CallNotifyRejected, RState, RSnap, Deref
  <2> QED
    BY <1>5, <2>1, Stutter DEF CallClosed, CallNotifyRejected
<1>6. ASSUME NEW g \in Goroutines, ReturnTypeAndSize(g)
      PROVE  [Reg!Next]_Reg!rvars
  <2>1. \A x \in Goroutines : RState(x)' = RState(x)
    BY <1>6 DEF ReturnTypeAndSize, RState
  <2>2. \A x \in Goroutines : RSnap(x)' = RSnap(x)
    BY <1>6 DEF ReturnTypeAndSize, RSnap, Deref
  <2> QED
    BY <1>6, <2>1, <2>2, Stutter DEF ReturnTypeAndSize
<1>7. ASSUME NEW g \in Goroutines, ReturnNotFound(g)
      PROVE  [Reg!Next]_Reg!rvars
  <2>1. cval' = [cval EXCEPT ![g] = NULL]
    BY <1>7 DEF ReturnNotFound
  <2> QED
    BY <1>7, <2>1, Returns DEF ReturnNotFound, Reg!Next
<1>8. ASSUME NEW g \in Goroutines,
             ReturnScalar(g) \/ ReturnPtr(g) \/ ReturnJson(g)
      PROVE  [Reg!Next]_Reg!rvars
  BY <1>8, Returns DEF ReturnScalar, ReturnPtr, ReturnJson, Reg!Next
<1>9. ASSUME NEW g \in Goroutines, GoReadHeld(g) \/ GoDestroyHeld(g)
      PROVE  [Reg!Next]_Reg!rvars
  BY <1>9, Returns DEF GoReadHeld, GoDestroyHeld, Reg!Next
<1>10. CASE UNCHANGED vars
  <2>1. \A x \in Goroutines : RState(x)' = RState(x) /\ RSnap(x)' = RSnap(x)
    BY <1>10 DEF vars, RState, RSnap, Deref
  <2> QED
    BY <1>10, <2>1, Stutter DEF vars
<1> QED
  BY <1>1, <1>2, <1>3, <1>4, <1>5, <1>6, <1>7, <1>8, <1>9, <1>10
  DEF Next, ExtensionThreadStep, GoroutineStep

\* The Go binding's property read implements the abstract register: in
\* every behaviour of PropertyGet, the mapped state (the properties, the
\* closed flag, each getter's abstract state and path, and the value its
\* info->c_value or value_addr denotes) moves only by atomic Request, Read,
\* Return, Write and Close steps -- so no getter ever observes a value
\* the property did not have while it waited, whatever sets and closes the
\* extension thread makes meanwhile.
THEOREM Refinement == Spec => Reg!SafetySpec
<1>1. Spec => []IInv
  BY IInvInvariant
<1>2. Init => Reg!Init
  BY InitRefines
<1>3. IInv /\ [Next]_vars => [Reg!Next]_Reg!rvars
  BY NextRefines
<1> QED
  BY <1>1, <1>2, <1>3, PTL DEF Spec, Reg!SafetySpec

=============================================================================
