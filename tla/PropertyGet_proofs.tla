-------------------------- MODULE PropertyGet_proofs --------------------------
(***************************************************************************)
(* Proofs about the cross-thread property read of the Go binding: type    *)
(* correctness, the stability of the value handed to Go between the two  *)
(* steps of a read, the exactness of the Go handles' reference counts and *)
(* that closing the env strands no getter, for every value of the         *)
(* constants.                                                             *)
(*                                                                         *)
(* None of these is inductive alone.  The pin counts stay natural only    *)
(* because they are exact; they stay exact only because a closure at the *)
(* head of the queue belongs to a goroutine that holds no clone yet, and  *)
(* a freshly pinned handle is referenced by nothing.                      *)
(***************************************************************************)
EXTENDS PropertyGet, FiniteSetTheorems, SequenceTheorems, TLAPS

\* The property paths whose value references handle h (the "prop" part of
\* a shared_ptr's count).
PropRefs(h) == {p \in Paths : prop[p] # Absent /\ prop[p].obj = h}

\* The goroutines whose clone references handle h.
CloneRefs(h) == {g \in Goroutines : cval[g] # NULL /\ cval[g].ref = "clone"
                                     /\ cval[g].val.obj = h}

\* What ten_value_clone stores in info->c_value is always a private clone.
CvalIsClone == \A g \in Goroutines : cval[g] # NULL => cval[g].ref = "clone"

\* A goroutine outside a call holds no value; one that got a value_addr
\* from get_type_and_size holds one.
CvalByPc ==
    \A g \in Goroutines :
        /\ pc[g] = "idle" => cval[g] = NULL
        /\ pc[g] = "holding" => cval[g] # NULL

\* Every posted closure belongs to a distinct goroutine still blocked in
\* ten_event_wait, not yet signalled and handed no value.
QueueOK ==
    /\ \A i \in 1..Len(queue) :
         pc[queue[i]] = "waiting" /\ ~evset[queue[i]] /\ cval[queue[i]] = NULL
    /\ \A i, j \in 1..Len(queue) : queue[i] = queue[j] => i = j

\* A handle not yet pinned is referenced by no value.
UnusedUnreferenced ==
    \A h \in Handles \ used : PropRefs(h) = {} /\ CloneRefs(h) = {}

\* Once the env is closed no getter is blocked and no closure is queued:
\* Close waits for the alive regions, and Call skips a closed env.
NoStrandedWaiter ==
    closed => /\ queue = <<>>
              /\ \A g \in Goroutines : pc[g] # "waiting"

IInv ==
    /\ TypeOK
    /\ CvalIsClone
    /\ CvalByPc
    /\ QueueOK
    /\ UnusedUnreferenced
    /\ HeldSnapshotStable
    /\ PinCountAccurate
    /\ NoStrandedWaiter

-----------------------------------------------------------------------------
(***************************************************************************)
(* Lemmas about the values and the reference counts.                      *)
(***************************************************************************)

\* A value references a Go handle exactly when it is a Ptr; any other
\* value carries NoHandle.
LEMMA ValueObj ==
    ASSUME NEW v \in Values
    PROVE  /\ v.type = "ptr" <=> v.obj \in Handles
           /\ v.type # "ptr" => v.obj = NoHandle
BY ConstAssumption DEF Values

\* ten_value_destroy and ten_value_clone change the count of the handle the
\* value references, and of no other.
LEMMA RetainRelease ==
    ASSUME NEW pn \in [Handles -> Int], NEW v \in Values
    PROVE  /\ Release(pn, v) = [h \in Handles |-> IF h = v.obj THEN pn[h] - 1
                                                  ELSE pn[h]]
           /\ Retain(pn, v) = [h \in Handles |-> IF h = v.obj THEN pn[h] + 1
                                                 ELSE pn[h]]
BY ValueObj DEF Release, Retain

\* Sets of paths and of goroutines are finite, so every count is a number.
LEMMA FiniteRefs ==
    ASSUME NEW S, S \subseteq Paths \/ S \subseteq Goroutines
    PROVE  IsFiniteSet(S) /\ Cardinality(S) \in Nat
BY ConstAssumption, FS_Subset, FS_CardinalityType

\* The pin counts are natural numbers wherever they are exact.
LEMMA PinNat ==
    ASSUME pin' \in [Handles -> Int], PinCountAccurate'
    PROVE  pin' \in [Handles -> Nat]
<1>1. \A h \in Handles : pin'[h] \in Nat
  <2> SUFFICES ASSUME NEW h \in Handles PROVE pin'[h] \in Nat
    OBVIOUS
  <2>1. /\ Cardinality(PropRefs(h)') \in Nat
        /\ Cardinality(CloneRefs(h)') \in Nat
    BY FiniteRefs DEF PropRefs, CloneRefs
  <2>2. pin'[h] = Cardinality(PropRefs(h)') + Cardinality(CloneRefs(h)')
    BY DEF PinCountAccurate, PropRefs, CloneRefs
  <2> QED BY <2>1, <2>2
<1> QED BY <1>1

-----------------------------------------------------------------------------
\* The initial state satisfies the inductive invariant: no value is a Ptr
\* yet, no getter is in a call.
LEMMA InitIInv == Init => IInv
<1> SUFFICES ASSUME Init PROVE IInv
  OBVIOUS
<1>1. \A h \in Handles : PropRefs(h) = {} /\ CloneRefs(h) = {}
  BY ValueObj DEF Init, PropRefs, CloneRefs
<1>2. TypeOK
  <2>1. path \in [Goroutines -> Paths]
    BY ConstAssumption DEF Init
  <2>2. prop \in [Paths -> Values \cup {Absent}]
    BY DEF Init
  <2>3. reported \in [Goroutines -> [type: {"none", "ptr"} \cup ScalarTypes
                                          \cup SizedTypes,
                                   size: 0..MaxSize]]
    BY ConstAssumption DEF Init
  <2>4. res \in [Goroutines -> [status: Statuses, handle: Handles \cup {NoHandle}]]
    BY DEF Init, Result, Statuses
  <2>5. queue \in Seq(Goroutines)
    BY DEF Init
  <2>6. /\ pin \in [Handles -> Nat]
        /\ pc \in [Goroutines -> {"idle", "waiting", "holding"}]
        /\ op \in [Goroutines -> Ops]
        /\ evset \in [Goroutines -> BOOLEAN]
        /\ cval \in [Goroutines -> Refs \cup {NULL}]
    BY DEF Init, Ops
  <2> QED
    BY <2>1, <2>2, <2>3, <2>4, <2>5, <2>6 DEF Init, TypeOK
<1>3. PinCountAccurate
  <2> SUFFICES ASSUME NEW h \in Handles
               PROVE  pin[h] = Cardinality(PropRefs(h)) + Cardinality(CloneRefs(h))
    BY DEF PinCountAccurate, PropRefs, CloneRefs
  <2>1. Cardinality(PropRefs(h)) = 0 /\ Cardinality(CloneRefs(h)) = 0
    BY <1>1, FS_EmptySet
  <2> QED
    BY <2>1 DEF Init
<1> QED
  BY <1>1, <1>2, <1>3
  DEF Init, IInv, CvalIsClone, CvalByPc, QueueOK, UnusedUnreferenced,
      HeldSnapshotStable, NoStrandedWaiter

-----------------------------------------------------------------------------
(***************************************************************************)
(* The steps that end a call by destroying the clone the goroutine holds  *)
(* (ReturnScalar, ReturnPtr, ReturnJson, GoReadHeld, GoDestroyHeld): the  *)
(* handle the clone references loses exactly the reference the clone      *)
(* owned.                                                                  *)
(***************************************************************************)
LEMMA FinishCall ==
    ASSUME IInv, NEW g \in Goroutines,
           pc[g] \in {"waiting", "holding"}, cval[g] # NULL,
           pc' = [pc EXCEPT ![g] = "idle"],
           cval' = [cval EXCEPT ![g] = NULL],
           pin' = Release(pin, cval[g].val),
           res' \in [Goroutines -> [status: Statuses,
                                    handle: Handles \cup {NoHandle}]],
           UNCHANGED <<prop, used, closed, queue, op, path, evset, reported>>
    PROVE  IInv'
<1> DEFINE v == cval[g].val
<1>1. cval[g].ref = "clone" /\ v \in Values
  BY DEF IInv, TypeOK, CvalIsClone, Refs
<1>2. pin' = [h \in Handles |-> IF h = v.obj THEN pin[h] - 1 ELSE pin[h]]
  <2>1. pin \in [Handles -> Int]
    BY DEF IInv, TypeOK
  <2> QED
    BY <1>1, <2>1, RetainRelease
<1>3. ASSUME NEW h \in Handles
      PROVE  /\ CloneRefs(h)' = CloneRefs(h) \ {g}
             /\ PropRefs(h)' = PropRefs(h)
             /\ g \in CloneRefs(h) <=> h = v.obj
  BY <1>1 DEF CloneRefs, PropRefs, IInv, TypeOK
<1>4. PinCountAccurate'
  <2> SUFFICES ASSUME NEW h \in Handles
               PROVE  pin'[h] = Cardinality(PropRefs(h)') + Cardinality(CloneRefs(h)')
    BY DEF PinCountAccurate, PropRefs, CloneRefs
  <2>1. IsFiniteSet(CloneRefs(h))
    BY FiniteRefs DEF CloneRefs
  <2>2. Cardinality(CloneRefs(h)') = IF h = v.obj THEN Cardinality(CloneRefs(h)) - 1
                                     ELSE Cardinality(CloneRefs(h))
    BY <1>3, <2>1, FS_RemoveElement
  <2>3. pin[h] = Cardinality(PropRefs(h)) + Cardinality(CloneRefs(h))
    BY DEF IInv, PinCountAccurate, PropRefs, CloneRefs
  <2>4. Cardinality(PropRefs(h)') = Cardinality(PropRefs(h))
    BY <1>3
  <2>5. pin'[h] = IF h = v.obj THEN pin[h] - 1 ELSE pin[h]
    BY <1>2
  <2> QED
    BY <2>2, <2>3, <2>4, <2>5, FiniteRefs DEF PropRefs, CloneRefs
<1>5. TypeOK'
  <2>1. pin' \in [Handles -> Nat]
    BY <1>2, <1>4, PinNat DEF IInv, TypeOK
  <2> QED
    BY <2>1 DEF IInv, TypeOK
<1>6. UnusedUnreferenced'
  BY <1>3 DEF IInv, UnusedUnreferenced
<1>7. QueueOK'
  <2>1. \A i \in 1..Len(queue) : queue[i] # g
    BY DEF IInv, QueueOK
  <2> QED
    BY <2>1 DEF IInv, TypeOK, QueueOK
<1>8. HeldSnapshotStable'
  BY DEF IInv, TypeOK, HeldSnapshotStable, Deref
<1> QED
  BY <1>4, <1>5, <1>6, <1>7, <1>8
  DEF IInv, TypeOK, CvalIsClone, CvalByPc, NoStrandedWaiter

\* A step that touches no value leaves every count exact.
LEMMA CountsUnchanged ==
    ASSUME IInv, UNCHANGED <<prop, pin, used, cval>>
    PROVE  PinCountAccurate' /\ UnusedUnreferenced'
BY DEF IInv, PinCountAccurate, UnusedUnreferenced, PropRefs, CloneRefs

LEMMA CallClosedIInv ==
    ASSUME IInv, NEW g \in Goroutines, NEW o \in Ops, NEW p \in Paths,
           CallClosed(g, o, p)
    PROVE  IInv'
BY CountsUnchanged
DEF CallClosed, IInv, TypeOK, Result, Statuses, CvalIsClone, CvalByPc, QueueOK,
    HeldSnapshotStable, Deref, NoStrandedWaiter

LEMMA CallNotifyRejectedIInv ==
    ASSUME IInv, NEW g \in Goroutines, NEW o \in Ops, NEW p \in Paths,
           CallNotifyRejected(g, o, p)
    PROVE  IInv'
BY CountsUnchanged
DEF CallNotifyRejected, IInv, TypeOK, Result, Statuses, CvalIsClone, CvalByPc,
    QueueOK, HeldSnapshotStable, Deref, NoStrandedWaiter

\* A new call posts its closure at the tail of the queue; the goroutine was
\* idle, so it is not in the queue yet and holds no value.
LEMMA CallIInv ==
    ASSUME IInv, NEW g \in Goroutines, NEW o \in Ops, NEW p \in Paths,
           Call(g, o, p)
    PROVE  IInv'
<1>1. cval' = cval
  BY DEF Call, IInv, TypeOK, CvalByPc
<1>2. \A i \in 1..Len(queue) : queue[i] # g
  BY DEF Call, IInv, QueueOK
<1>3. QueueOK'
  BY <1>1, <1>2 DEF Call, IInv, TypeOK, QueueOK
<1>4. TypeOK'
  BY DEF Call, IInv, TypeOK
<1> QED
  BY <1>1, <1>3, <1>4, CountsUnchanged
  DEF Call, IInv, TypeOK, CvalIsClone, CvalByPc, HeldSnapshotStable, Deref,
      NoStrandedWaiter

LEMMA ReturnNotFoundIInv ==
    ASSUME IInv, NEW g \in Goroutines, ReturnNotFound(g)
    PROVE  IInv'
<1>1. \A i \in 1..Len(queue) : queue[i] # g
  BY DEF ReturnNotFound, IInv, QueueOK
<1> QED
  BY <1>1, CountsUnchanged
  DEF ReturnNotFound, IInv, TypeOK, Result, Statuses, CvalIsClone, CvalByPc,
      QueueOK, HeldSnapshotStable, Deref, NoStrandedWaiter

\* get_type_and_size reports the type and size of the clone it hands over,
\* which nothing but the goroutine itself can change afterwards.
LEMMA ReturnTypeAndSizeIInv ==
    ASSUME IInv, NEW g \in Goroutines, ReturnTypeAndSize(g)
    PROVE  IInv'
<1>1. cval[g].ref = "clone" /\ cval[g].val \in Values
  BY DEF ReturnTypeAndSize, IInv, TypeOK, CvalIsClone, Refs
<1>2. \A i \in 1..Len(queue) : queue[i] # g
  BY DEF ReturnTypeAndSize, IInv, QueueOK
<1>3. TypeOK'
  BY <1>1, ConstAssumption
  DEF ReturnTypeAndSize, Deref, IInv, TypeOK, Result, Statuses, Values
<1>4. HeldSnapshotStable'
  BY <1>1 DEF ReturnTypeAndSize, Deref, IInv, TypeOK, HeldSnapshotStable
<1> QED
  BY <1>2, <1>3, <1>4, CountsUnchanged
  DEF ReturnTypeAndSize, IInv, TypeOK, CvalIsClone, CvalByPc, QueueOK,
      NoStrandedWaiter

\* The closure at the head of the queue clones the property for a goroutine
\* that holds nothing yet: the handle of a Ptr property gains exactly the
\* clone's reference.
LEMMA RunNotifyIInv ==
    ASSUME IInv, RunNotify
    PROVE  IInv'
<1> DEFINE g == Head(queue)
           v == prop[path[g]]
<1>1. /\ queue \in Seq(Goroutines) /\ Len(queue) > 0 /\ g = queue[1]
      /\ g \in Goroutines
      /\ pc[g] = "waiting" /\ ~evset[g] /\ cval[g] = NULL
  BY DEF RunNotify, IInv, TypeOK, QueueOK
<1>2. v \in Values \cup {Absent}
  BY <1>1 DEF IInv, TypeOK
<1>3. QueueOK'
  <2>1. \A i \in 1..Len(queue) - 1 : queue[i + 1] # g
    BY <1>1 DEF IInv, QueueOK
  <2> QED
    BY <1>1, <2>1 DEF RunNotify, IInv, TypeOK, QueueOK
<1>4. PinCountAccurate' /\ UnusedUnreferenced'
  <2>1. CASE v = Absent
    <3>1. cval' = cval /\ pin' = pin
      BY <1>1, <2>1 DEF RunNotify, IInv, TypeOK
    <3> QED
      BY <3>1, CountsUnchanged DEF RunNotify
  <2>2. CASE v # Absent
    <3>1. v \in Values /\ path[g] \in Paths
      BY <1>1, <1>2, <2>2 DEF IInv, TypeOK
    <3>2. pin' = [h \in Handles |-> IF h = v.obj THEN pin[h] + 1 ELSE pin[h]]
      <4>1. pin \in [Handles -> Int]
        BY DEF IInv, TypeOK
      <4> QED
        BY <2>2, <3>1, <4>1, RetainRelease DEF RunNotify
    <3>0. /\ cval' = [cval EXCEPT ![g] = [ref |-> "clone", val |-> v]]
          /\ prop' = prop
      BY <2>2 DEF RunNotify
    <3>3. ASSUME NEW h \in Handles
          PROVE  /\ CloneRefs(h)' = CloneRefs(h) \cup (IF h = v.obj THEN {g} ELSE {})
                 /\ g \notin CloneRefs(h)
                 /\ PropRefs(h)' = PropRefs(h)
                 /\ h = v.obj => path[g] \in PropRefs(h)
      <4>1. CloneRefs(h)' = CloneRefs(h) \cup (IF h = v.obj THEN {g} ELSE {})
        <5>1. [ref |-> "clone", val |-> v] # NULL
          BY <3>1, NullAssumption DEF Refs
        <5> QED
          BY <1>1, <3>0, <5>1 DEF CloneRefs, IInv, TypeOK
      <4>2. g \notin CloneRefs(h)
        BY <1>1 DEF CloneRefs
      <4>3. PropRefs(h)' = PropRefs(h)
        BY <3>0 DEF PropRefs
      <4>4. h = v.obj => path[g] \in PropRefs(h)
        BY <2>2, <3>1 DEF PropRefs
      <4> QED
        BY <4>1, <4>2, <4>3, <4>4
    <3>4. PinCountAccurate'
      <4> SUFFICES ASSUME NEW h \in Handles
                   PROVE  pin'[h] = Cardinality(PropRefs(h)') + Cardinality(CloneRefs(h)')
        BY DEF PinCountAccurate, PropRefs, CloneRefs
      <4>1. IsFiniteSet(CloneRefs(h))
        BY FiniteRefs DEF CloneRefs
      <4>2. Cardinality(CloneRefs(h)') = IF h = v.obj THEN Cardinality(CloneRefs(h)) + 1
                                         ELSE Cardinality(CloneRefs(h))
        <5>1. CASE h = v.obj
          <6>1. CloneRefs(h)' = CloneRefs(h) \cup {g} /\ g \notin CloneRefs(h)
            BY <3>3, <5>1
          <6> QED
            BY <4>1, <5>1, <6>1, FS_AddElement
        <5>2. CASE h # v.obj
          BY <3>3, <5>2
        <5> QED
          BY <5>1, <5>2
      <4>3. pin[h] = Cardinality(PropRefs(h)) + Cardinality(CloneRefs(h))
        BY DEF IInv, PinCountAccurate, PropRefs, CloneRefs
      <4>4. Cardinality(PropRefs(h)') = Cardinality(PropRefs(h))
        BY <3>3
      <4>5. pin'[h] = IF h = v.obj THEN pin[h] + 1 ELSE pin[h]
        BY <3>2
      <4> QED
        BY <4>2, <4>3, <4>4, <4>5, FiniteRefs DEF PropRefs, CloneRefs
    <3>5. UnusedUnreferenced'
      BY <3>3 DEF RunNotify, IInv, UnusedUnreferenced
    <3> QED
      BY <3>4, <3>5
  <2> QED
    BY <2>1, <2>2
<1>5. TypeOK'
  <2>1. pin' \in [Handles -> Int]
    <3>1. pin \in [Handles -> Int]
      BY DEF IInv, TypeOK
    <3>2. CASE v = Absent
      BY <3>1, <3>2 DEF RunNotify
    <3>3. CASE v # Absent
      <4>1. v \in Values
        BY <1>2, <3>3
      <4>2. pin' = Retain(pin, v)
        BY <3>3 DEF RunNotify
      <4> QED
        BY <3>1, <4>1, <4>2, RetainRelease
    <3> QED
      BY <3>2, <3>3
  <2>2. pin' \in [Handles -> Nat]
    BY <1>4, <2>1, PinNat
  <2>3. cval' \in [Goroutines -> Refs \cup {NULL}]
    BY <1>1, <1>2 DEF RunNotify, IInv, TypeOK, Refs
  <2> QED
    BY <1>1, <2>2, <2>3 DEF RunNotify, IInv, TypeOK
<1>6. HeldSnapshotStable'
  BY <1>1 DEF RunNotify, IInv, TypeOK, HeldSnapshotStable, Deref
<1> QED
  BY <1>1, <1>3, <1>4, <1>5, <1>6
  DEF RunNotify, IInv, TypeOK, CvalIsClone, CvalByPc, NoStrandedWaiter

\* ten_env_set_property: the old value's handle loses the property's
\* reference and a freshly pinned handle gets its first one; a handle not
\* pinned before is referenced by nothing, so its count starts exact at 1.
LEMMA SetPropertyIInv ==
    ASSUME IInv, NEW p \in Paths, NEW v \in Values, SetProperty(p, v)
    PROVE  IInv'
<1> DEFINE o == prop[p]
<1>1. /\ o \in Values \cup {Absent}
      /\ pin \in [Handles -> Int]
      /\ v.type = "ptr" <=> v.obj \in Handles
      /\ o # Absent => (o.type = "ptr" <=> o.obj \in Handles)
  BY ValueObj DEF IInv, TypeOK
<1>2. ASSUME NEW h \in Handles
      PROVE  pin'[h] = IF h = v.obj THEN 1
                       ELSE IF o # Absent /\ h = o.obj THEN pin[h] - 1
                       ELSE pin[h]
  <2> DEFINE released == IF o = Absent THEN pin ELSE Release(pin, o)
  <2>1. released = [k \in Handles |-> IF o # Absent /\ k = o.obj THEN pin[k] - 1
                                      ELSE pin[k]]
    BY <1>1, RetainRelease
  <2>2. pin' = IF v.type = "ptr" THEN [released EXCEPT ![v.obj] = 1]
               ELSE released
    BY DEF SetProperty
  <2> QED
    BY <1>1, <2>1, <2>2
<1>3. pin' \in [Handles -> Int]
  BY <1>2, <1>1, RetainRelease DEF SetProperty
<1>4. ASSUME NEW h \in Handles
      PROVE  /\ PropRefs(h)' = (PropRefs(h) \ {p}) \cup (IF h = v.obj THEN {p} ELSE {})
             /\ p \in PropRefs(h) <=> (o # Absent /\ h = o.obj)
             /\ CloneRefs(h)' = CloneRefs(h)
  BY NullAssumption DEF SetProperty, PropRefs, CloneRefs, IInv, TypeOK
<1>5. PinCountAccurate'
  <2> SUFFICES ASSUME NEW h \in Handles
               PROVE  pin'[h] = Cardinality(PropRefs(h)') + Cardinality(CloneRefs(h)')
    BY DEF PinCountAccurate, PropRefs, CloneRefs
  <2>1. IsFiniteSet(PropRefs(h))
    BY FiniteRefs DEF PropRefs
  <2>2. pin[h] = Cardinality(PropRefs(h)) + Cardinality(CloneRefs(h))
    BY DEF IInv, PinCountAccurate, PropRefs, CloneRefs
  <2>3. CASE h = v.obj
    <3>1. h \notin used
      BY <2>3, <1>1 DEF SetProperty
    <3>2. PropRefs(h) = {} /\ CloneRefs(h) = {}
      BY <3>1 DEF IInv, UnusedUnreferenced
    <3>3. PropRefs(h)' = {p} /\ CloneRefs(h)' = {}
      BY <1>4, <2>3, <3>2
    <3>4. Cardinality({p}) = 1
      BY FS_Singleton
    <3>5. Cardinality({}) = 0
      BY FS_EmptySet
    <3> QED
      BY <1>2, <2>3, <3>3, <3>4, <3>5
  <2>4. CASE h # v.obj /\ p \in PropRefs(h)
    <3>1. PropRefs(h)' = PropRefs(h) \ {p}
      BY <1>4, <2>4
    <3>2. Cardinality(PropRefs(h)') = Cardinality(PropRefs(h)) - 1
      BY <2>1, <2>4, <3>1, FS_RemoveElement
    <3>3. pin'[h] = pin[h] - 1
      BY <1>2, <1>4, <2>4
    <3>4. CloneRefs(h)' = CloneRefs(h)
      BY <1>4
    <3>5. Cardinality(PropRefs(h)) \in Nat /\ Cardinality(CloneRefs(h)) \in Nat
      BY FiniteRefs DEF PropRefs, CloneRefs
    <3> QED
      BY <2>2, <3>2, <3>3, <3>4, <3>5
  <2>5. CASE h # v.obj /\ p \notin PropRefs(h)
    <3>1. PropRefs(h)' = PropRefs(h)
      BY <1>4, <2>5
    <3> QED
      BY <1>2, <1>4, <2>2, <2>5, <3>1
  <2> QED
    BY <2>3, <2>4, <2>5
<1>6. UnusedUnreferenced'
  <2> SUFFICES ASSUME NEW h \in Handles \ used'
               PROVE  PropRefs(h)' = {} /\ CloneRefs(h)' = {}
    BY DEF UnusedUnreferenced
  <2>1. h \notin used /\ h # v.obj
    BY <1>1, ConstAssumption DEF SetProperty
  <2> QED
    BY <1>4, <2>1 DEF IInv, UnusedUnreferenced
<1>7. TypeOK'
  <2>1. pin' \in [Handles -> Nat]
    BY <1>3, <1>5, PinNat
  <2> QED
    BY <1>1, <2>1 DEF SetProperty, IInv, TypeOK
<1>8. HeldSnapshotStable'
  BY DEF SetProperty, IInv, TypeOK, CvalIsClone, CvalByPc, HeldSnapshotStable,
         Deref
<1> QED
  BY <1>5, <1>6, <1>7, <1>8
  DEF SetProperty, IInv, CvalIsClone, CvalByPc, QueueOK, NoStrandedWaiter

\* Closing waits for every alive region, so no goroutine is waiting and the
\* queue, whose closures all belong to waiting goroutines, is empty; the
\* properties' references are dropped and only the clones' remain.
LEMMA CloseIInv ==
    ASSUME IInv, Close
    PROVE  IInv'
<1>1. ASSUME NEW h \in Handles
      PROVE  /\ PropRefs(h)' = {}
             /\ CloneRefs(h)' = CloneRefs(h)
             /\ pin'[h] = pin[h] - Cardinality(PropRefs(h))
             /\ Cardinality(PropRefs(h)) \in Nat
             /\ Cardinality(CloneRefs(h)) \in Nat
  BY FiniteRefs DEF Close, PropRefs, CloneRefs
<1>2. PinCountAccurate'
  <2> SUFFICES ASSUME NEW h \in Handles
               PROVE  pin'[h] = Cardinality(PropRefs(h)') + Cardinality(CloneRefs(h)')
    BY DEF PinCountAccurate, PropRefs, CloneRefs
  <2>1. pin[h] = Cardinality(PropRefs(h)) + Cardinality(CloneRefs(h))
    BY DEF IInv, PinCountAccurate, PropRefs, CloneRefs
  <2>2. Cardinality({}) = 0
    BY FS_EmptySet
  <2>3. /\ Cardinality(PropRefs(h)') = 0
        /\ CloneRefs(h)' = CloneRefs(h)
        /\ pin'[h] = pin[h] - Cardinality(PropRefs(h))
        /\ Cardinality(PropRefs(h)) \in Nat
        /\ Cardinality(CloneRefs(h)) \in Nat
    BY <1>1, <2>2
  <2> QED
    BY <2>1, <2>3
<1>3. TypeOK'
  <2>1. pin' \in [Handles -> Int]
    <3>1. pin' = [h \in Handles |-> pin[h] - Cardinality(PropRefs(h))]
      BY DEF Close, PropRefs
    <3>2. \A h \in Handles : pin[h] - Cardinality(PropRefs(h)) \in Int
      BY <1>1 DEF IInv, TypeOK
    <3> QED
      BY <3>1, <3>2
  <2>2. pin' \in [Handles -> Nat]
    BY <1>2, <2>1, PinNat
  <2> QED
    BY <2>2, NullAssumption DEF Close, IInv, TypeOK
<1>4. queue = <<>>
  <2> SUFFICES ASSUME queue # <<>> PROVE FALSE
    OBVIOUS
  <2>1. queue \in Seq(Goroutines)
    BY DEF IInv, TypeOK
  <2>2. 1 \in 1..Len(queue)
    BY <2>1, EmptySeq
  <2>3. pc[queue[1]] = "waiting" /\ queue[1] \in Goroutines
    BY <2>1, <2>2 DEF IInv, QueueOK
  <2> QED
    BY <2>3 DEF Close
<1>5. UnusedUnreferenced'
  BY <1>1 DEF Close, IInv, UnusedUnreferenced
<1>6. HeldSnapshotStable'
  <2> SUFFICES ASSUME NEW g \in Goroutines, pc'[g] = "holding"
               PROVE  LET v == Deref(cval[g])' IN
                        /\ v \in Values
                        /\ v.type = reported'[g].type
                        /\ v.size = reported'[g].size
    BY DEF HeldSnapshotStable
  <2>1. pc[g] = "holding" /\ cval'[g] = cval[g] /\ reported'[g] = reported[g]
    BY DEF Close
  <2>2. cval[g] # NULL /\ cval[g].ref = "clone"
    BY <2>1 DEF IInv, CvalIsClone, CvalByPc
  <2>3. Deref(cval[g])' = Deref(cval[g])
    BY <2>1, <2>2 DEF Deref
  <2> QED
    BY <2>1, <2>3 DEF IInv, HeldSnapshotStable
<1> QED
  BY <1>2, <1>3, <1>4, <1>5, <1>6
  DEF Close, IInv, TypeOK, CvalIsClone, CvalByPc, QueueOK, NoStrandedWaiter

-----------------------------------------------------------------------------
\* Every step of the system preserves the inductive invariant.
LEMMA NextIInv == IInv /\ [Next]_vars => IInv'
<1> SUFFICES ASSUME IInv, [Next]_vars PROVE IInv'
  OBVIOUS
<1>1. ASSUME NEW g \in Goroutines, ReturnScalar(g) PROVE IInv'
  <2>1. Deref(cval[g]) = cval[g].val
    BY <1>1 DEF ReturnScalar, Deref, IInv, CvalIsClone
  <2>2. res' \in [Goroutines -> [status: Statuses, handle: Handles \cup {NoHandle}]]
    BY <1>1 DEF ReturnScalar, IInv, TypeOK, Result, Statuses
  <2> QED
    BY <1>1, <2>1, <2>2, FinishCall DEF ReturnScalar
<1>2. ASSUME NEW g \in Goroutines, ReturnPtr(g) PROVE IInv'
  <2>1. Deref(cval[g]) = cval[g].val /\ cval[g].val \in Values
    BY <1>2 DEF ReturnPtr, Deref, IInv, TypeOK, CvalIsClone, Refs
  <2>2. res' \in [Goroutines -> [status: Statuses, handle: Handles \cup {NoHandle}]]
    BY <1>2, <2>1, ValueObj DEF ReturnPtr, IInv, TypeOK, Result, Statuses
  <2> QED
    BY <1>2, <2>1, <2>2, FinishCall DEF ReturnPtr
<1>3. ASSUME NEW g \in Goroutines, ReturnJson(g) PROVE IInv'
  <2>1. Deref(cval[g]) = cval[g].val
    BY <1>3 DEF ReturnJson, Deref, IInv, CvalIsClone
  <2>2. res' \in [Goroutines -> [status: Statuses, handle: Handles \cup {NoHandle}]]
    BY <1>3 DEF ReturnJson, IInv, TypeOK, Result, Statuses
  <2> QED
    BY <1>3, <2>1, <2>2, FinishCall DEF ReturnJson
<1>4. ASSUME NEW g \in Goroutines, GoReadHeld(g) PROVE IInv'
  <2>1. cval[g] # NULL /\ Deref(cval[g]) = cval[g].val /\ cval[g].val \in Values
    BY <1>4 DEF GoReadHeld, Deref, IInv, TypeOK, CvalIsClone, CvalByPc, Refs
  <2>2. res' \in [Goroutines -> [status: Statuses, handle: Handles \cup {NoHandle}]]
    BY <1>4, <2>1, ValueObj DEF GoReadHeld, IInv, TypeOK, Result, Statuses
  <2> QED
    BY <1>4, <2>1, <2>2, FinishCall DEF GoReadHeld
<1>5. ASSUME NEW g \in Goroutines, GoDestroyHeld(g) PROVE IInv'
  <2>1. cval[g] # NULL /\ Deref(cval[g]) = cval[g].val
    BY <1>5 DEF GoDestroyHeld, Deref, IInv, TypeOK, CvalIsClone, CvalByPc
  <2>2. pin' = Release(pin, cval[g].val)
    BY <1>5, <2>1 DEF GoDestroyHeld
  <2>3. res' \in [Goroutines -> [status: Statuses, handle: Handles \cup {NoHandle}]]
    BY <1>5 DEF GoDestroyHeld, IInv, TypeOK
  <2> QED
    BY <1>5, <2>1, <2>2, <2>3, FinishCall DEF GoDestroyHeld
<1>6. CASE UNCHANGED vars
  <2>1. UNCHANGED <<prop, pin, used, closed, queue, pc, op, path, evset, cval,
                    reported, res>>
    BY <1>6 DEF vars
  <2>2. TypeOK' /\ CvalIsClone' /\ CvalByPc' /\ QueueOK'
    BY <2>1 DEF IInv, TypeOK, CvalIsClone, CvalByPc, QueueOK
  <2>3. HeldSnapshotStable' /\ NoStrandedWaiter'
    BY <2>1 DEF IInv, HeldSnapshotStable, Deref, NoStrandedWaiter
  <2>4. PinCountAccurate' /\ UnusedUnreferenced'
    BY <2>1, CountsUnchanged
  <2> QED
    BY <2>2, <2>3, <2>4 DEF IInv
<1>7. ASSUME NEW g \in Goroutines, GoroutineStep(g) PROVE IInv'
  BY <1>1, <1>2, <1>3, <1>4, <1>5, <1>7, CallClosedIInv, CallIInv,
     CallNotifyRejectedIInv,
     ReturnNotFoundIInv, ReturnTypeAndSizeIInv
  DEF GoroutineStep
<1>8. ASSUME ExtensionThreadStep PROVE IInv'
  BY <1>8, RunNotifyIInv, SetPropertyIInv, CloseIInv DEF ExtensionThreadStep
<1> QED
  BY <1>6, <1>7, <1>8 DEF Next

-----------------------------------------------------------------------------
\* The inductive invariant holds in every reachable state.
THEOREM IInvInvariant == Spec => []IInv
BY InitIInv, NextIInv, PTL DEF Spec

\* Every variable of the cross-thread read keeps its type in every state,
\* the Go handles' reference counts in particular never dropping below
\* zero (no ten_value_destroy of a Ptr value without a matching clone).
THEOREM TypeCorrect == Spec => []TypeOK
<1>1. IInv => TypeOK
  BY DEF IInv
<1> QED
  BY <1>1, IInvInvariant, PTL

\* Between ten_go_ten_env_property_get_type_and_size and the
\* ten_go_value_get_<T> on its value_addr, the value Go holds has the type
\* and size reported in the first step, whatever the extension thread sets
\* or closes meanwhile.
THEOREM HeldSnapshotStableInvariant == Spec => []HeldSnapshotStable
<1>1. IInv => HeldSnapshotStable
  BY DEF IInv
<1> QED
  BY <1>1, IInvInvariant, PTL

\* The shared_ptr count of every Go handle equals the number of property
\* values and clones referencing it, so a handle is unpinned exactly when
\* its last value is destroyed.
THEOREM PinCountAccurateInvariant == Spec => []PinCountAccurate
<1>1. IInv => PinCountAccurate
  BY DEF IInv
<1> QED
  BY <1>1, IInvInvariant, PTL

=============================================================================
