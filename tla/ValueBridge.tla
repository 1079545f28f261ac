----------------------------- MODULE ValueBridge -----------------------------
(***************************************************************************)
(* The deprecated (v1) Go value wrappers of the Go binding                 *)
(* (core/src/ten_runtime/binding/go/native/value/value.c, lines 29-507).  *)
(*                                                                         *)
(* A ten_go_value_t bridges a Go object and a ten_value_t it owns.  It is  *)
(* created by ten_go_value_create_<T> (or _from_json, _byte_array, _ptr),  *)
(* read by the *_v1 getters, and freed when Go's finalizer calls           *)
(* ten_go_value_finalize: the Go part of the bridge is dropped, and as C   *)
(* holds no reference (sp_ref_by_c is NULL) ten_go_value_destroy_v1 runs   *)
(* and destroys the owned value.  A Ptr value wraps a shared_ptr to a copy *)
(* of a Go handle; when its last reference goes, go_ref_unlink_handler     *)
(* gives the Go reference back with tenGoUnrefObj.                         *)
(***************************************************************************)
EXTENDS Naturals, FiniteSets

CONSTANTS
    Wrappers,     \* ten_go_value_t bridges (memory that malloc may reuse)
    GoRefs,       \* Go objects whose handle a Ptr value may carry
    ScalarTypes,  \* number and bool TEN_TYPEs
    NoRef         \* "no Go object"

ASSUME ConstAssumption ==
    /\ Wrappers # {} /\ IsFiniteSet(Wrappers)
    /\ NoRef \notin GoRefs
    /\ ScalarTypes \cap {"string", "buf", "object", "ptr", "none"} = {}

IntTypes == {"int8", "int16", "int32", "int64",
             "uint8", "uint16", "uint32", "uint64"}

\* Types of the values that are not Ptrs: numbers and bools, strings,
\* buffers (create_byte_array), and what create_from_json may also build.
NonPtrTypes == ScalarTypes \cup {"string", "buf", "object"}

\* A ten_value_t: its type and, for a Ptr, the Go object it refers to.
Values == [type: NonPtrTypes, obj: {NoRef}] \cup [type: {"ptr"}, obj: GoRefs]

NoValue == [type |-> "none", obj |-> NoRef]

\* What a *_v1 call hands back to Go.
Returns == {"none", "value", "zero", "null", "garbage", "handle"}

\* ten_value_get_<want>(c_value, &err) with the error thrown away: the
\* number when the value has that type or converts to it (integer widths
\* convert when the number fits, abstracted), else the 0 of a failed get.
ScalarGet(want, t) ==
    IF want = t THEN {"value"}
    ELSE IF \/ want \in IntTypes /\ t \in IntTypes
            \/ want \in {"float32", "float64"} /\ t \in {"float32", "float64"}
         THEN {"value", "zero"}
         ELSE {"zero"}

VARIABLES
    live,     \* the wrappers allocated and not yet freed
    wval,     \* the c_value of each wrapper
    own,      \* whether the wrapper owns its c_value
    sp,       \* count of the go_ref_id_shared made by a Ptr wrapper
    pinned,   \* Go references handed to C with a handle, not yet returned
              \* by tenGoUnrefObj, per Go object
    ret,      \* what Go got from its last v1 call on each wrapper
    aborted   \* the process died (an assertion or a NULL dereference)

vars == <<live, wval, own, sp, pinned, ret, aborted>>

-----------------------------------------------------------------------------
Init ==
    /\ live = {}
    /\ wval = [w \in Wrappers |-> NoValue]
    /\ own = [w \in Wrappers |-> FALSE]
    /\ sp = [w \in Wrappers |-> 0]
    /\ pinned = [r \in GoRefs |-> 0]
    /\ ret = [w \in Wrappers |-> "none"]
    /\ aborted = FALSE

\* ten_go_create_empty_value + ten_go_wrap_value(value, true): a new bridge
\* owning a freshly created value.
Wrap(w, v) ==
    /\ w \notin live
    /\ live' = live \cup {w}
    /\ wval' = [wval EXCEPT ![w] = v]
    /\ own' = [own EXCEPT ![w] = TRUE]
    /\ ret' = [ret EXCEPT ![w] = "none"]

\* ten_go_value_create_<T>, _string, _byte_array, _from_json.
CreateValue(w, t) ==
    /\ ~aborted
    /\ Wrap(w, [type |-> t, obj |-> NoRef])
    /\ UNCHANGED <<sp, pinned, aborted>>

\* Variant of CreatePtr without the ten_shared_ptr_destroy of the local
\* reference to go_ref_id_shared.
CreatePtrKeepShared(w, r) ==
    /\ ~aborted
    /\ Wrap(w, [type |-> "ptr", obj |-> r])
    /\ sp' = [sp EXCEPT ![w] = 2]
    /\ pinned' = [pinned EXCEPT ![r] = @ + 1]
    /\ UNCHANGED aborted

\* ten_go_value_create_ptr: the Go handle is copied to the heap under a
\* new shared_ptr (count 1), the value takes a clone of it (2), the local
\* reference is destroyed (1).  The handle carries one Go reference to C.
CreatePtr(w, r) ==
    /\ ~aborted
    /\ Wrap(w, [type |-> "ptr", obj |-> r])
    /\ sp' = [sp EXCEPT ![w] = 1]
    /\ pinned' = [pinned EXCEPT ![r] = @ + 1]
    /\ UNCHANGED aborted

\* ten_go_value_get_<number|bool>_v1: the error of ten_value_get_<T> is
\* dropped and its result returned.
GetScalarV1(w, t) ==
    /\ ~aborted /\ w \in live
    /\ \E x \in ScalarGet(t, wval[w].type) : ret' = [ret EXCEPT ![w] = x]
    /\ UNCHANGED <<live, wval, own, sp, pinned, aborted>>

\* ten_go_value_get_string_v1: ten_value_peek_c_str on a value that is
\* not a string reads the union as a string: garbage, or a failed
\* integrity check of the string.
GetStringV1(w) ==
    /\ ~aborted /\ w \in live
    /\ IF wval[w].type = "string"
       THEN /\ ret' = [ret EXCEPT ![w] = "value"] /\ UNCHANGED aborted
       ELSE \/ /\ ret' = [ret EXCEPT ![w] = "garbage"] /\ UNCHANGED aborted
            \/ /\ aborted' = TRUE /\ UNCHANGED ret
    /\ UNCHANGED <<live, wval, own, sp, pinned>>

\* ten_go_value_get_buf_data / _get_buf_size: NULL and 0 unless a buffer.
GetBufV1(w) ==
    /\ ~aborted /\ w \in live
    /\ ret' = [ret EXCEPT ![w] = IF wval[w].type = "buf" THEN "value" ELSE "null"]
    /\ UNCHANGED <<live, wval, own, sp, pinned, aborted>>

\* ten_go_value_get_ptr_v1: the shared_ptr that ten_value_get_ptr returns
\* is dereferenced without looking at the error; for a value that is not a
\* Ptr it is NULL.
GetPtrV1(w) ==
    /\ ~aborted /\ w \in live
    /\ IF wval[w].type = "ptr"
       THEN /\ ret' = [ret EXCEPT ![w] = "handle"] /\ UNCHANGED aborted
       ELSE /\ aborted' = TRUE /\ UNCHANGED ret
    /\ UNCHANGED <<live, wval, own, sp, pinned>>

\* ten_go_value_to_json: asserts that ten_value_to_json succeeded, which it
\* does not for a Ptr.
ToJsonV1(w) ==
    /\ ~aborted /\ w \in live
    /\ IF wval[w].type # "ptr"
       THEN /\ ret' = [ret EXCEPT ![w] = "value"] /\ UNCHANGED aborted
       ELSE /\ aborted' = TRUE /\ UNCHANGED ret
    /\ UNCHANGED <<live, wval, own, sp, pinned>>

\* ten_go_value_destroy_v1: an owned value is destroyed; a Ptr value drops
\* its reference to go_ref_id_shared, and at zero go_ref_unlink_handler
\* calls tenGoUnrefObj.
DestroyV1(w) ==
    IF own[w] /\ wval[w].type = "ptr"
    THEN /\ sp' = [sp EXCEPT ![w] = @ - 1]
         /\ pinned' = IF sp[w] = 1
                      THEN [pinned EXCEPT ![wval[w].obj] = @ - 1]
                      ELSE pinned
    ELSE UNCHANGED <<sp, pinned>>

\* ten_go_value_finalize -> ten_go_bridge_destroy_go_part: the last
\* reference to the bridge goes (C holds none) and the wrapper is
\* destroyed with its value.
Finalize(w) ==
    /\ ~aborted /\ w \in live
    /\ live' = live \ {w}
    /\ DestroyV1(w)
    /\ wval' = [wval EXCEPT ![w] = NoValue]
    /\ own' = [own EXCEPT ![w] = FALSE]
    /\ UNCHANGED <<ret, aborted>>

Next ==
    \E w \in Wrappers :
        \/ \E t \in NonPtrTypes : CreateValue(w, t)
        \/ \E r \in GoRefs : CreatePtr(w, r)
        \/ \E t \in ScalarTypes : GetScalarV1(w, t)
        \/ GetStringV1(w)
        \/ GetBufV1(w)
        \/ GetPtrV1(w)
        \/ ToJsonV1(w)
        \/ Finalize(w)

Spec == Init /\ [][Next]_vars

-----------------------------------------------------------------------------
(***************************************************************************)
(* Properties                                                              *)
(***************************************************************************)

\* Every variable ranges over its type.
TypeOK ==
    /\ live \subseteq Wrappers
    /\ wval \in [Wrappers -> Values \cup {NoValue}]
    /\ own \in [Wrappers -> BOOLEAN]
    /\ sp \in [Wrappers -> Nat]
    /\ pinned \in [GoRefs -> Nat]
    /\ ret \in [Wrappers -> Returns]
    /\ aborted \in BOOLEAN

\* Every Go reference handed to C with a Ptr value is given back
\* (tenGoUnrefObj) exactly when the wrapper holding that value is
\* finalized: the Go references outstanding for an object are the live
\* Ptr values referring to it -- none leaks, none is returned early.
PinsMatchLivePtrs ==
    \A r \in GoRefs :
        pinned[r] = Cardinality({w \in live : wval[w].type = "ptr"
                                              /\ wval[w].obj = r})

\* A Go reference handed to C is given back (tenGoUnrefObj, from
\* go_ref_unlink_handler) only in a step that finalizes a live Ptr wrapper
\* referring to that object: no getter, creation or other wrapper's
\* finalizer releases the object behind a handle Go may still be using.
UnpinOnlyByFinalize ==
    [][\A r \in GoRefs :
         pinned'[r] < pinned[r] =>
             \E w \in live \ live' : wval[w] = [type |-> "ptr", obj |-> r]]_vars

\* The v1 API never takes the process down on a value of an unexpected
\* type: the current API reports such a call as an error status
\* (ten_go_ten_value_get_ptr, ten_go_ten_value_to_json).
NoAbort == ~aborted

=============================================================================
