-------------------------- MODULE ValueBridge_proofs --------------------------
(***************************************************************************)
(* Proofs about the v1 Go value wrappers: the types of the variables, and  *)
(* that the Go references pinned by Ptr values are exactly the live Ptr    *)
(* wrappers, for any number of wrappers and Go objects.                    *)
(***************************************************************************)
EXTENDS ValueBridge, FiniteSetTheorems, TLAPS

\* The live wrappers whose value is a Ptr to Go object r.
LivePtrs(r) == {w \in live : wval[w].type = "ptr" /\ wval[w].obj = r}

\* A live wrapper owns a real value, and a Ptr value's go_ref_id_shared has
\* exactly the one reference the value holds.
LiveOwned ==
    \A w \in live : /\ own[w]
                    /\ wval[w] \in Values
                    /\ wval[w].type = "ptr" => sp[w] = 1

\* A freed wrapper holds no value.
FreedEmpty == \A w \in Wrappers \ live : wval[w] = NoValue

\* The inductive invariant.
IInv == TypeOK /\ LiveOwned /\ FreedEmpty /\ PinsMatchLivePtrs

-----------------------------------------------------------------------------
LEMMA FiniteLivePtrs ==
    ASSUME TypeOK, NEW r
    PROVE  IsFiniteSet(LivePtrs(r)) /\ Cardinality(LivePtrs(r)) \in Nat
<1>1. LivePtrs(r) \subseteq Wrappers
  BY DEF TypeOK, LivePtrs
<1> QED
  BY <1>1, ConstAssumption, FS_Subset, FS_CardinalityType

\* PinsMatchLivePtrs, stated with LivePtrs.
LEMMA PinsAsLivePtrs ==
    PinsMatchLivePtrs <=> \A r \in GoRefs : pinned[r] = Cardinality(LivePtrs(r))
BY DEF PinsMatchLivePtrs, LivePtrs

LEMMA PinsAsLivePtrsPrime ==
    PinsMatchLivePtrs' <=> \A r \in GoRefs : pinned'[r] = Cardinality(LivePtrs(r)')
BY DEF PinsMatchLivePtrs, LivePtrs

\* "ptr" is not the type of a value that is not a Ptr.
LEMMA PtrNotNonPtr == "ptr" \notin NonPtrTypes /\ "none" \notin NonPtrTypes
BY ConstAssumption DEF NonPtrTypes

LEMMA InitIInv == Init => IInv
<1> SUFFICES ASSUME Init PROVE IInv
  OBVIOUS
<1>1. \A r \in GoRefs : LivePtrs(r) = {}
  BY DEF Init, LivePtrs
<1>2. PinsMatchLivePtrs
  BY <1>1, FS_EmptySet, PinsAsLivePtrs DEF Init
<1>3. TypeOK
  BY DEF Init, TypeOK, NoValue, Returns
<1> QED
  BY <1>2, <1>3 DEF Init, IInv, LiveOwned, FreedEmpty

-----------------------------------------------------------------------------
(* One lemma per action.                                                   *)

\* The getters change only what Go is handed back, and whether the process
\* died.
LEMMA GettersPreserve ==
    ASSUME IInv, NEW w \in Wrappers,
           \/ \E t \in ScalarTypes : GetScalarV1(w, t)
           \/ GetStringV1(w) \/ GetBufV1(w) \/ GetPtrV1(w) \/ ToJsonV1(w)
    PROVE  IInv'
<1>1. UNCHANGED <<live, wval, own, sp, pinned>>
  BY DEF GetScalarV1, GetStringV1, GetBufV1, GetPtrV1, ToJsonV1
<1>2. ret' \in [Wrappers -> Returns] /\ aborted' \in BOOLEAN
  BY DEF IInv, TypeOK, GetScalarV1, ScalarGet, GetStringV1, GetBufV1,
         GetPtrV1, ToJsonV1, Returns
<1>3. TypeOK'
  BY <1>1, <1>2 DEF IInv, TypeOK
<1>4. PinsMatchLivePtrs'
  BY <1>1 DEF IInv, PinsMatchLivePtrs
<1> QED
  BY <1>1, <1>3, <1>4 DEF IInv, LiveOwned, FreedEmpty

LEMMA CreateValuePreserves ==
    ASSUME IInv, NEW w \in Wrappers, NEW t \in NonPtrTypes, CreateValue(w, t)
    PROVE  IInv'
<1> DEFINE v == [type |-> t, obj |-> NoRef]
<1>1. v \in Values /\ v.type # "ptr"
  BY PtrNotNonPtr DEF Values
<1>2. /\ w \notin live /\ live' = live \cup {w}
      /\ wval' = [wval EXCEPT ![w] = v] /\ own' = [own EXCEPT ![w] = TRUE]
      /\ ret' = [ret EXCEPT ![w] = "none"]
      /\ UNCHANGED <<sp, pinned, aborted>>
  BY DEF CreateValue, Wrap
<1>3. TypeOK'
  BY <1>1, <1>2 DEF IInv, TypeOK, Returns
<1>4. LiveOwned' /\ FreedEmpty'
  BY <1>1, <1>2 DEF IInv, TypeOK, LiveOwned, FreedEmpty
<1>5. \A r \in GoRefs : LivePtrs(r)' = LivePtrs(r)
  BY <1>1, <1>2 DEF IInv, TypeOK, LivePtrs
<1> QED
  BY <1>2, <1>3, <1>4, <1>5, PinsAsLivePtrs, PinsAsLivePtrsPrime DEF IInv

LEMMA CreatePtrPreserves ==
    ASSUME IInv, NEW w \in Wrappers, NEW r0 \in GoRefs, CreatePtr(w, r0)
    PROVE  IInv'
<1> DEFINE v == [type |-> "ptr", obj |-> r0]
<1>1. v \in Values
  BY DEF Values
<1>2. /\ w \notin live /\ live' = live \cup {w}
      /\ wval' = [wval EXCEPT ![w] = v] /\ own' = [own EXCEPT ![w] = TRUE]
      /\ ret' = [ret EXCEPT ![w] = "none"]
      /\ sp' = [sp EXCEPT ![w] = 1]
      /\ pinned' = [pinned EXCEPT ![r0] = @ + 1]
      /\ UNCHANGED aborted
  BY DEF CreatePtr, Wrap
<1>3. TypeOK'
  BY <1>1, <1>2 DEF IInv, TypeOK, Returns
<1>4. LiveOwned' /\ FreedEmpty'
  BY <1>1, <1>2 DEF IInv, TypeOK, LiveOwned, FreedEmpty
<1>5. ASSUME NEW r \in GoRefs
      PROVE  pinned'[r] = Cardinality(LivePtrs(r)')
  <2>1. LivePtrs(r)' = IF r = r0 THEN LivePtrs(r) \cup {w} ELSE LivePtrs(r)
    BY <1>2 DEF IInv, TypeOK, LivePtrs
  <2>2. w \notin LivePtrs(r)
    BY <1>2 DEF LivePtrs
  <2>3. IsFiniteSet(LivePtrs(r)) /\ pinned[r] = Cardinality(LivePtrs(r))
    BY FiniteLivePtrs, PinsAsLivePtrs DEF IInv
  <2>4. Cardinality(LivePtrs(r) \cup {w}) = Cardinality(LivePtrs(r)) + 1
    BY <2>2, <2>3, FS_AddElement
  <2>5. pinned'[r] = IF r = r0 THEN pinned[r] + 1 ELSE pinned[r]
    BY <1>2 DEF IInv, TypeOK
  <2> QED
    BY <2>1, <2>3, <2>4, <2>5
<1> QED
  BY <1>3, <1>4, <1>5, PinsAsLivePtrsPrime DEF IInv

LEMMA FinalizePreserves ==
    ASSUME IInv, NEW w \in Wrappers, Finalize(w)
    PROVE  IInv'
<1>1. /\ w \in live /\ live' = live \ {w}
      /\ wval' = [wval EXCEPT ![w] = NoValue] /\ own' = [own EXCEPT ![w] = FALSE]
      /\ UNCHANGED <<ret, aborted>>
  BY DEF Finalize
<1>2. own[w] /\ wval[w] \in Values
  BY <1>1 DEF IInv, LiveOwned
<1>3. \A x \in Wrappers \ {w} : sp'[x] = sp[x]
  BY DEF Finalize, DestroyV1, IInv, TypeOK
<1>4. LiveOwned' /\ FreedEmpty'
  BY <1>1, <1>3 DEF IInv, TypeOK, LiveOwned, FreedEmpty
<1>5. CASE wval[w].type = "ptr"
  <2> DEFINE r0 == wval[w].obj
  <2>1. r0 \in GoRefs /\ sp[w] = 1
    BY <1>1, <1>2, <1>5, PtrNotNonPtr DEF IInv, LiveOwned, Values
  <2>2. sp' = [sp EXCEPT ![w] = 0]
        /\ pinned' = [pinned EXCEPT ![r0] = @ - 1]
    BY <1>2, <1>5, <2>1 DEF Finalize, DestroyV1, IInv, TypeOK
  <2>3. ASSUME NEW r \in GoRefs
        PROVE  /\ pinned'[r] = Cardinality(LivePtrs(r)')
               /\ pinned'[r] \in Nat
    <3>1. LivePtrs(r)' = IF r = r0 THEN LivePtrs(r) \ {w} ELSE LivePtrs(r)
      BY <1>1 DEF IInv, TypeOK, LivePtrs, NoValue
    <3>2. IsFiniteSet(LivePtrs(r)) /\ pinned[r] = Cardinality(LivePtrs(r))
          /\ pinned[r] \in Nat
      BY FiniteLivePtrs, PinsAsLivePtrs DEF IInv, TypeOK
    <3>3. r = r0 => w \in LivePtrs(r)
      BY <1>1, <1>5 DEF LivePtrs
    <3>4. r = r0 => Cardinality(LivePtrs(r) \ {w}) = Cardinality(LivePtrs(r)) - 1
      BY <3>2, <3>3, FS_RemoveElement
    <3>5. r = r0 => Cardinality(LivePtrs(r)) > 0
      BY <3>2, <3>3, FS_EmptySet
    <3>6. pinned'[r] = IF r = r0 THEN pinned[r] - 1 ELSE pinned[r]
      BY <2>2 DEF IInv, TypeOK
    <3> QED
      BY <3>1, <3>2, <3>4, <3>5, <3>6
  <2>4. TypeOK'
    BY <1>1, <2>2, <2>3 DEF IInv, TypeOK, NoValue
  <2> QED
    BY <1>4, <2>3, <2>4, PinsAsLivePtrsPrime DEF IInv
<1>6. CASE wval[w].type # "ptr"
  <2>1. UNCHANGED <<sp, pinned>>
    BY <1>6 DEF Finalize, DestroyV1
  <2>2. TypeOK'
    BY <1>1, <2>1 DEF IInv, TypeOK, NoValue
  <2>3. \A r \in GoRefs : LivePtrs(r)' = LivePtrs(r)
    BY <1>1, <1>6 DEF IInv, TypeOK, LivePtrs, NoValue
  <2> QED
    BY <1>4, <2>1, <2>2, <2>3, PinsAsLivePtrs, PinsAsLivePtrsPrime DEF IInv
<1> QED
  BY <1>5, <1>6

LEMMA NextIInv == IInv /\ [Next]_vars => IInv'
<1> SUFFICES ASSUME IInv, [Next]_vars PROVE IInv'
  OBVIOUS
<1>1. CASE UNCHANGED vars
  BY <1>1 DEF vars, IInv, TypeOK, LiveOwned, FreedEmpty, PinsMatchLivePtrs
<1>2. CASE Next
  BY <1>2, GettersPreserve, CreateValuePreserves, CreatePtrPreserves,
     FinalizePreserves DEF Next
<1> QED
  BY <1>1, <1>2

-----------------------------------------------------------------------------
\* Every variable of the v1 wrappers keeps its type in every reachable
\* state: in particular Finalize never takes a Go reference count below 0.
THEOREM TypeCorrect == Spec => []TypeOK
<1>1. IInv => TypeOK
  BY DEF IInv
<1> QED
  BY InitIInv, NextIInv, <1>1, PTL DEF Spec

\* The Go references handed to C by ten_go_value_create_ptr are given back
\* by the finalizer of exactly the wrapper that holds them, for any number
\* of wrappers and Go objects: none leaks, none is returned twice.
THEOREM PinsMatchLivePtrsInvariant == Spec => []PinsMatchLivePtrs
<1>1. IInv => PinsMatchLivePtrs
  BY DEF IInv
<1> QED
  BY InitIInv, NextIInv, <1>1, PTL DEF Spec

-----------------------------------------------------------------------------
(* Only a finalizer gives a Go reference back.                             *)

\* The step condition of UnpinOnlyByFinalize.
UnpinStep ==
    \A r \in GoRefs :
        pinned'[r] < pinned[r] =>
            \E w \in live \ live' : wval[w] = [type |-> "ptr", obj |-> r]

\* A step that leaves the counts alone releases nothing.
LEMMA PinnedKept ==
    ASSUME TypeOK, pinned' = pinned PROVE UnpinStep
BY DEF TypeOK, UnpinStep

LEMMA UnpinStepHolds == IInv /\ [Next]_vars => UnpinStep
<1> SUFFICES ASSUME IInv, [Next]_vars PROVE UnpinStep
  OBVIOUS
<1>1. TypeOK
  BY DEF IInv
<1>2. ASSUME NEW w \in Wrappers,
             \/ \E t \in ScalarTypes : GetScalarV1(w, t)
             \/ GetStringV1(w) \/ GetBufV1(w) \/ GetPtrV1(w) \/ ToJsonV1(w)
             \/ \E t \in NonPtrTypes : CreateValue(w, t)
      PROVE  UnpinStep
  BY <1>1, <1>2, PinnedKept
     DEF GetScalarV1, GetStringV1, GetBufV1, GetPtrV1, ToJsonV1, CreateValue
<1>3. ASSUME NEW w \in Wrappers, NEW r0 \in GoRefs, CreatePtr(w, r0)
      PROVE  UnpinStep
  \* ten_go_value_create_ptr only adds a reference.
  BY <1>1, <1>3 DEF CreatePtr, TypeOK, UnpinStep
<1>4. ASSUME NEW w \in Wrappers, Finalize(w) PROVE UnpinStep
  <2>1. w \in live /\ w \notin live'
    BY <1>4 DEF Finalize
  <2>2. CASE own[w] /\ wval[w].type = "ptr"
    \* go_ref_unlink_handler releases the object of w's own value.
    <3> DEFINE r0 == wval[w].obj
    <3>1. wval[w] \in Values
      BY <2>1 DEF IInv, LiveOwned
    <3>2. r0 \in GoRefs /\ wval[w] = [type |-> "ptr", obj |-> r0]
      BY <2>2, <3>1, PtrNotNonPtr DEF Values
    <3>3. \A r \in GoRefs \ {r0} : pinned'[r] = pinned[r]
      BY <1>1, <1>4, <2>2 DEF Finalize, DestroyV1, TypeOK
    <3> QED
      BY <1>1, <2>1, <3>2, <3>3 DEF TypeOK, UnpinStep
  <2>3. CASE ~(own[w] /\ wval[w].type = "ptr")
    BY <1>1, <1>4, <2>3, PinnedKept DEF Finalize, DestroyV1
  <2> QED
    BY <2>2, <2>3
<1>5. CASE UNCHANGED vars
  BY <1>1, <1>5, PinnedKept DEF vars
<1> QED
  BY <1>2, <1>3, <1>4, <1>5 DEF Next

\* The Go reference behind a Ptr value is given back only when Go's
\* finalizer destroys the live wrapper holding that value, for any number
\* of wrappers and Go objects: no *_v1 getter, no creation and no other
\* wrapper's finalizer releases the object behind a handle that
\* ten_go_value_get_ptr_v1 handed to Go.
THEOREM UnpinOnlyByFinalizeHolds == Spec => UnpinOnlyByFinalize
<1>1. IInv /\ [Next]_vars => [UnpinStep]_vars
  BY UnpinStepHolds
<1> QED
  BY InitIInv, NextIInv, <1>1, PTL DEF Spec, UnpinOnlyByFinalize, UnpinStep

=============================================================================
