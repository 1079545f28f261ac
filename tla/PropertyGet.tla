----------------------------- MODULE PropertyGet -----------------------------
(***************************************************************************)
(* Cross-thread property read of the Go binding                           *)
(* (core/src/ten_runtime/binding/go/native/ten_env/ten_env_get_property.c *)
(* and the value_addr getters of .../go/native/value/value.c).            *)
(*                                                                         *)
(* A goroutine, running on an OS thread of its own, asks for property p:  *)
(* it enters the "alive region" of its ten_env, posts a closure to the    *)
(* extension thread with ten_env_proxy_notify and blocks on an event.     *)
(* The extension thread runs the closure in FIFO order: it peeks the      *)
(* property, stores a CLONE in info->c_value and sets the event.  The     *)
(* goroutine then reads the clone and destroys it, or (for strings,       *)
(* buffers and the generic path) hands it to Go as value_addr, whose      *)
(* second cgo call reads it and destroys it.  Meanwhile the extension     *)
(* thread may overwrite the property.  A Ptr value carries a              *)
(* reference-counted handle of a pinned Go object; the handle is unpinned *)
(* when the last value referring to it is destroyed.                      *)
(***************************************************************************)
EXTENDS Naturals, Sequences, FiniteSets

CONSTANTS
    Goroutines,   \* Go threads calling the cgo getters
    Paths,        \* property paths
    ScalarTypes,  \* TEN_TYPEs read by a typed getter (int8 ... bool)
    SizedTypes,   \* TEN_TYPE_STRING, TEN_TYPE_BUF: reported with a size
    MaxSize,      \* largest string/buffer length considered
    Handles,      \* ten_go_handle_t ids of Go objects that can be pinned
    NoHandle,     \* "no handle"
    Absent,       \* no property at this path (peek returns NULL)
    NULL          \* the NULL ten_value_t*

ASSUME ConstAssumption ==
    /\ Goroutines # {} /\ Paths # {}
    /\ IsFiniteSet(Goroutines) /\ IsFiniteSet(Paths)
    /\ MaxSize \in Nat
    /\ "ptr" \notin ScalarTypes \cup SizedTypes
    /\ NoHandle \notin Handles

\* Integer TEN_TYPEs: ten_value_get_<int> converts between them when the
\* number fits, which depends on the number, abstracted here.
IntTypes == {"int8", "int16", "int32", "int64",
             "uint8", "uint16", "uint32", "uint64"}

\* A property value: its TEN_TYPE, the size get_type_and_size reports and,
\* for a Ptr, the handle of the Go object it references.
Values ==
    [type: ScalarTypes, size: {0}, obj: {NoHandle}]
      \cup [type: SizedTypes, size: 0..MaxSize, obj: {NoHandle}]
      \cup [type: {"ptr"}, size: {0}, obj: Handles]

\* A ten_value_t* held by a goroutine: a private clone ("clone") or a
\* pointer into the live property storage of path ref.
Refs == [ref: {"clone"} \cup Paths, val: Values]

\* The NULL pointer and "no property" are neither a pointer nor a value.
ASSUME NullAssumption == NULL \notin Refs /\ Absent \notin Values

\* The getters: a typed one per TEN_TYPE, and the two that hand a value on.
Ops == ScalarTypes \cup {"ptr", "type_and_size", "json"}

Statuses == {"none", "ok", "generic", "mismatch", "closed"}

VARIABLES
    prop,      \* the extension's properties: path -> value or Absent
    pin,       \* shared_ptr count of each Go handle
    used,      \* handles ever pinned (a handle is never reused)
    closed,    \* the Go ten_env is closed (c_ten_env gone)
    queue,     \* closures posted to the extension thread, FIFO
    pc,        \* goroutine: "idle", "waiting" (ten_event_wait), "holding"
    op,        \* the getter the goroutine is in
    path,      \* the path it asked for
    evset,     \* info->completed has been set
    cval,      \* info->c_value, later value_addr: a Ref or NULL
    reported,  \* type and size returned by get_type_and_size
    res        \* status and handle of the goroutine's last call

vars == <<prop, pin, used, closed, queue, pc, op, path, evset, cval,
          reported, res>>

-----------------------------------------------------------------------------
\* The value a held pointer denotes now.
Deref(c) == IF c.ref = "clone" THEN c.val ELSE prop[c.ref]

\* ten_value_clone of v: Ptr values take a reference (copy_for_smart_ptr).
Retain(pn, v) == IF v.type = "ptr" THEN [pn EXCEPT ![v.obj] = @ + 1] ELSE pn

\* ten_value_destroy of v: Ptr values drop a reference (destruct_for_smart_ptr);
\* at zero the handle is unpinned (ten_go_handle_unpin_from_go).
Release(pn, v) == IF v.type = "ptr" THEN [pn EXCEPT ![v.obj] = @ - 1] ELSE pn

\* ten_value_get_<want> on a value of type t may succeed; the outcomes
\* of the read (TRUE: TEN_ERRNO_OK), the number being abstracted.
Readable(want, t) ==
    \/ want = t
    \/ want \in IntTypes /\ t \in IntTypes
    \/ want \in {"float32", "float64"} /\ t \in {"float32", "float64"}

ReadOutcomes(want, t) ==
    {want = t} \cup (IF Readable(want, t) THEN {TRUE} ELSE {})

\* ten_value_to_json has a JSON form for every type but Ptr.
JsonConvertible(t) == t # "ptr"

Result(st, h) == [status |-> st, handle |-> h]

-----------------------------------------------------------------------------
Init ==
    /\ prop \in [Paths -> {Absent} \cup {v \in Values : v.type # "ptr"}]
    /\ pin = [h \in Handles |-> 0]
    /\ used = {}
    /\ closed = FALSE
    /\ queue = <<>>
    /\ pc = [g \in Goroutines |-> "idle"]
    /\ op = [g \in Goroutines |-> "json"]
    /\ path = [g \in Goroutines |-> CHOOSE p \in Paths : TRUE]
    /\ evset = [g \in Goroutines |-> FALSE]
    /\ cval = [g \in Goroutines |-> NULL]
    /\ reported = [g \in Goroutines |-> [type |-> "none", size |-> 0]]
    /\ res = [g \in Goroutines |-> Result("none", NoHandle)]

\* A getter is called on a closed env: the alive region is skipped.
CallClosed(g, o, p) ==
    /\ pc[g] = "idle" /\ closed
    /\ res' = [res EXCEPT ![g] = Result("closed", NoHandle)]
    /\ UNCHANGED <<prop, pin, used, closed, queue, pc, op, path, evset, cval,
                   reported>>

\* A getter enters the alive region, creates the info, posts the closure
\* with ten_env_proxy_notify and blocks in ten_event_wait.
Call(g, o, p) ==
    /\ pc[g] = "idle" /\ ~closed
    /\ queue' = Append(queue, g)
    /\ pc' = [pc EXCEPT ![g] = "waiting"]
    /\ op' = [op EXCEPT ![g] = o]
    /\ path' = [path EXCEPT ![g] = p]
    /\ evset' = [evset EXCEPT ![g] = FALSE]
    /\ cval' = [cval EXCEPT ![g] = NULL]
    /\ UNCHANGED <<prop, pin, used, closed, reported, res>>

\* ten_env_proxy_notify fails (the proxy no longer accepts closures): the
\* getter returns the error at once, with no value.
CallNotifyRejected(g, o, p) ==
    /\ pc[g] = "idle" /\ ~closed
    /\ res' = [res EXCEPT ![g] = Result("generic", NoHandle)]
    /\ UNCHANGED <<prop, pin, used, closed, queue, pc, op, path, evset, cval,
                   reported>>

\* Variant of RunNotify that forgets ten_event_set(info->completed).
RunNotifyNoSignal ==
    /\ ~closed /\ queue # <<>>
    /\ LET g == Head(queue)
           v == prop[path[g]]
       IN /\ cval' = [cval EXCEPT ![g] =
                        IF v = Absent THEN NULL
                        ELSE [ref |-> "clone", val |-> v]]
          /\ pin' = IF v = Absent THEN pin ELSE Retain(pin, v)
    /\ queue' = Tail(queue)
    /\ UNCHANGED <<prop, used, closed, pc, op, path, evset, reported, res>>

\* Variant of RunNotify that stores the peeked pointer itself in c_value
\* instead of a ten_value_clone of it.
RunNotifyShared ==
    /\ ~closed /\ queue # <<>>
    /\ LET g == Head(queue)
           v == prop[path[g]]
       IN /\ cval' = [cval EXCEPT ![g] =
                        IF v = Absent THEN NULL
                        ELSE [ref |-> path[g], val |-> v]]
          /\ evset' = [evset EXCEPT ![g] = TRUE]
    /\ queue' = Tail(queue)
    /\ UNCHANGED <<prop, pin, used, closed, pc, op, path, reported, res>>

\* ten_env_notify_get_property on the extension thread: peek, clone, signal.
RunNotify ==
    /\ ~closed /\ queue # <<>>
    /\ LET g == Head(queue)
           v == prop[path[g]]
       IN /\ cval' = [cval EXCEPT ![g] =
                        IF v = Absent THEN NULL
                        ELSE [ref |-> "clone", val |-> v]]
          /\ pin' = IF v = Absent THEN pin ELSE Retain(pin, v)
          /\ evset' = [evset EXCEPT ![g] = TRUE]
    /\ queue' = Tail(queue)
    /\ UNCHANGED <<prop, used, closed, pc, op, path, reported, res>>

\* The wait returns with c_value == NULL: TEN_ERRNO_GENERIC.
ReturnNotFound(g) ==
    /\ pc[g] = "waiting" /\ evset[g] /\ cval[g] = NULL
    /\ pc' = [pc EXCEPT ![g] = "idle"]
    /\ res' = [res EXCEPT ![g] = Result("generic", NoHandle)]
    /\ UNCHANGED <<prop, pin, used, closed, queue, op, path, evset, cval,
                   reported>>

\* ten_go_ten_env_property_get_<scalar>: read the clone, then destroy it.
ReturnScalar(g) ==
    /\ pc[g] = "waiting" /\ evset[g] /\ cval[g] # NULL
    /\ op[g] \in ScalarTypes
    /\ LET v == Deref(cval[g]) IN
         /\ \E ok \in ReadOutcomes(op[g], v.type) :
              res' = [res EXCEPT ![g] =
                        Result(IF ok THEN "ok" ELSE "mismatch", NoHandle)]
         /\ pin' = Release(pin, v)
    /\ pc' = [pc EXCEPT ![g] = "idle"]
    /\ cval' = [cval EXCEPT ![g] = NULL]
    /\ UNCHANGED <<prop, used, closed, queue, op, path, evset, reported>>

\* Variant of ReturnPtr without the ten_value_destroy of the clone.
ReturnPtrNoDestroy(g) ==
    /\ pc[g] = "waiting" /\ evset[g] /\ cval[g] # NULL
    /\ op[g] = "ptr"
    /\ LET v == Deref(cval[g]) IN
         res' = [res EXCEPT ![g] =
                   IF v.type = "ptr" THEN Result("ok", v.obj)
                   ELSE Result("mismatch", NoHandle)]
    /\ pc' = [pc EXCEPT ![g] = "idle"]
    /\ cval' = [cval EXCEPT ![g] = NULL]
    /\ UNCHANGED <<prop, pin, used, closed, queue, op, path, evset, reported>>

\* ten_go_ten_env_property_get_ptr: take the handle out of the clone
\* (ten_go_ten_value_get_ptr), destroy the clone, return the handle.
ReturnPtr(g) ==
    /\ pc[g] = "waiting" /\ evset[g] /\ cval[g] # NULL
    /\ op[g] = "ptr"
    /\ LET v == Deref(cval[g]) IN
         /\ res' = [res EXCEPT ![g] =
                      IF v.type = "ptr" THEN Result("ok", v.obj)
                      ELSE Result("mismatch", NoHandle)]
         /\ pin' = Release(pin, v)
    /\ pc' = [pc EXCEPT ![g] = "idle"]
    /\ cval' = [cval EXCEPT ![g] = NULL]
    /\ UNCHANGED <<prop, used, closed, queue, op, path, evset, reported>>

\* Variant of ReturnTypeAndSize that reports the type and size of the live
\* property instead of those of the clone it hands over.
ReturnTypeAndSizeRepeek(g) ==
    /\ pc[g] = "waiting" /\ evset[g] /\ cval[g] # NULL
    /\ op[g] = "type_and_size"
    /\ LET v == prop[path[g]] IN
         reported' = [reported EXCEPT ![g] = [type |-> v.type, size |-> v.size]]
    /\ pc' = [pc EXCEPT ![g] = "holding"]
    /\ res' = [res EXCEPT ![g] = Result("ok", NoHandle)]
    /\ UNCHANGED <<prop, pin, used, closed, queue, op, path, evset, cval>>

\* ten_go_ten_env_property_get_type_and_size: report type and size and hand
\* the clone to Go as value_addr; it is not destroyed here.
ReturnTypeAndSize(g) ==
    /\ pc[g] = "waiting" /\ evset[g] /\ cval[g] # NULL
    /\ op[g] = "type_and_size"
    /\ LET v == Deref(cval[g]) IN
         reported' = [reported EXCEPT ![g] = [type |-> v.type, size |-> v.size]]
    /\ pc' = [pc EXCEPT ![g] = "holding"]
    /\ res' = [res EXCEPT ![g] = Result("ok", NoHandle)]
    /\ UNCHANGED <<prop, pin, used, closed, queue, op, path, evset, cval>>

\* ten_go_ten_env_property_get_json_and_size: convert, destroy the clone.
ReturnJson(g) ==
    /\ pc[g] = "waiting" /\ evset[g] /\ cval[g] # NULL
    /\ op[g] = "json"
    /\ LET v == Deref(cval[g]) IN
         /\ res' = [res EXCEPT ![g] =
                      Result(IF JsonConvertible(v.type) THEN "ok" ELSE "generic",
                             NoHandle)]
         /\ pin' = Release(pin, v)
    /\ pc' = [pc EXCEPT ![g] = "idle"]
    /\ cval' = [cval EXCEPT ![g] = NULL]
    /\ UNCHANGED <<prop, used, closed, queue, op, path, evset, reported>>

\* Variant of GoReadHeld that destroys the value twice (once in the getter
\* and once more by a ten_go_value_destroy of the same value_addr).
GoReadHeldDoubleDestroy(g) ==
    /\ pc[g] = "holding"
    /\ LET v == Deref(cval[g])
           want == reported[g].type
       IN /\ res' = [res EXCEPT ![g] =
                       IF v.type # want THEN Result("mismatch", NoHandle)
                       ELSE Result("ok", v.obj)]
          /\ pin' = Release(Release(pin, v), v)
    /\ pc' = [pc EXCEPT ![g] = "idle"]
    /\ cval' = [cval EXCEPT ![g] = NULL]
    /\ UNCHANGED <<prop, used, closed, queue, op, path, evset, reported>>

\* ten_go_value_get_<T>(value_addr): Go's second call reads the value handed
\* over by get_type_and_size with the getter of the reported type (strings
\* and buffers are memcpy'd into a slice of the reported size), then
\* destroys it.
GoReadHeld(g) ==
    /\ pc[g] = "holding"
    /\ LET v == Deref(cval[g])
           want == reported[g].type
       IN /\ res' = [res EXCEPT ![g] =
                       IF v.type # want THEN Result("mismatch", NoHandle)
                       ELSE Result("ok", v.obj)]
          /\ pin' = Release(pin, v)
    /\ pc' = [pc EXCEPT ![g] = "idle"]
    /\ cval' = [cval EXCEPT ![g] = NULL]
    /\ UNCHANGED <<prop, used, closed, queue, op, path, evset, reported>>

\* ten_go_value_destroy(value_addr): Go drops the handed-over value unread.
GoDestroyHeld(g) ==
    /\ pc[g] = "holding"
    /\ pin' = Release(pin, Deref(cval[g]))
    /\ pc' = [pc EXCEPT ![g] = "idle"]
    /\ cval' = [cval EXCEPT ![g] = NULL]
    /\ UNCHANGED <<prop, used, closed, queue, op, path, evset, reported, res>>

\* ten_env_set_property on the extension thread: the old value is destroyed
\* and v installed.  A new Ptr value is made by ten_go_ten_value_create_ptr
\* for a freshly pinned handle and owns one reference.
SetProperty(p, v) ==
    /\ ~closed
    /\ v.type = "ptr" => v.obj \notin used
    /\ prop' = [prop EXCEPT ![p] = v]
    /\ LET released == IF prop[p] = Absent THEN pin ELSE Release(pin, prop[p])
       IN pin' = IF v.type = "ptr" THEN [released EXCEPT ![v.obj] = 1]
                 ELSE released
    /\ used' = IF v.type = "ptr" THEN used \cup {v.obj} ELSE used
    /\ UNCHANGED <<closed, queue, pc, op, path, evset, cval, reported, res>>

\* The Go ten_env is closed (on_deinit_done): the close takes the region
\* lock for writing, so it waits until no getter is inside an alive region;
\* the extension and its properties are then destroyed.
Close ==
    /\ ~closed
    /\ \A g \in Goroutines : pc[g] # "waiting"
    /\ closed' = TRUE
    /\ prop' = [p \in Paths |-> Absent]
    /\ pin' = [h \in Handles |->
                 pin[h] - Cardinality({p \in Paths : prop[p] # Absent
                                                    /\ prop[p].obj = h})]
    /\ UNCHANGED <<used, queue, pc, op, path, evset, cval, reported, res>>

-----------------------------------------------------------------------------
GoroutineStep(g) ==
    \/ \E o \in Ops, p \in Paths :
         CallClosed(g, o, p) \/ Call(g, o, p) \/ CallNotifyRejected(g, o, p)
    \/ ReturnNotFound(g)
    \/ ReturnScalar(g)
    \/ ReturnPtr(g)
    \/ ReturnTypeAndSize(g)
    \/ ReturnJson(g)
    \/ GoReadHeld(g)
    \/ GoDestroyHeld(g)

ExtensionThreadStep ==
    \/ RunNotify
    \/ \E p \in Paths, v \in Values : SetProperty(p, v)
    \/ Close

Next == ExtensionThreadStep \/ \E g \in Goroutines : GoroutineStep(g)

\* The extension thread's runloop keeps draining posted closures, and a
\* goroutine whose event is set is woken by the OS.  Setting properties,
\* closing and calling are the application's choice and get no fairness.
Fairness ==
    /\ WF_vars(RunNotify)
    /\ \A g \in Goroutines :
         WF_vars(ReturnNotFound(g) \/ ReturnScalar(g) \/ ReturnPtr(g)
                 \/ ReturnTypeAndSize(g) \/ ReturnJson(g))

Spec == Init /\ [][Next]_vars /\ Fairness

-----------------------------------------------------------------------------
(***************************************************************************)
(* Properties                                                              *)
(***************************************************************************)

\* Every variable ranges over its type.
TypeOK ==
    /\ prop \in [Paths -> Values \cup {Absent}]
    /\ pin \in [Handles -> Nat]
    /\ used \subseteq Handles
    /\ closed \in BOOLEAN
    /\ queue \in Seq(Goroutines)
    /\ pc \in [Goroutines -> {"idle", "waiting", "holding"}]
    /\ op \in [Goroutines -> Ops]
    /\ path \in [Goroutines -> Paths]
    /\ evset \in [Goroutines -> BOOLEAN]
    /\ cval \in [Goroutines -> Refs \cup {NULL}]
    /\ reported \in [Goroutines -> [type: {"none", "ptr"} \cup ScalarTypes
                                           \cup SizedTypes,
                                    size: 0..MaxSize]]
    /\ res \in [Goroutines -> [status: Statuses, handle: Handles \cup {NoHandle}]]

\* Two-step read (get_type_and_size, then ten_go_value_get_<T>): while Go
\* holds value_addr, the value it denotes still has the type and the size
\* reported in the first step, whatever the extension thread has written
\* to the property since -- so the memcpy of the second step fits the slice
\* Go allocated, and the value is still there after the env closed.
HeldSnapshotStable ==
    \A g \in Goroutines :
        pc[g] = "holding" =>
            LET v == Deref(cval[g]) IN
                /\ v \in Values
                /\ v.type = reported[g].type
                /\ v.size = reported[g].size

\* The reference count of every Go handle equals the number of live values
\* referring to it: the property storage plus the clones the goroutines
\* hold (copy_for_smart_ptr / destruct_for_smart_ptr keep it exact), so a
\* handle is unpinned exactly when its last value is destroyed.
PinCountAccurate ==
    \A h \in Handles :
        pin[h] = Cardinality({p \in Paths : prop[p] # Absent /\ prop[p].obj = h})
                 + Cardinality({g \in Goroutines :
                                  cval[g] # NULL /\ cval[g].ref = "clone"
                                  /\ cval[g].val.obj = h})

\* Every getter blocked in ten_event_wait(completed, -1) is eventually
\* woken: the wait has no timeout, so only the closure can end it.
WaitersAnswered ==
    \A g \in Goroutines : pc[g] = "waiting" ~> pc[g] # "waiting"

\* ten_go_ten_env_property_get_ptr and ten_go_value_get_ptr hand a Go
\* handle back to Go; the Go object must still be pinned in the handle map
\* when the call returns, or Go resolves a handle that was unpinned.
ReturnedHandlePinned ==
    [][\A g \in Goroutines :
          (pc[g] # "idle" /\ pc'[g] = "idle" /\ res'[g].handle # NoHandle)
             => pin'[res'[g].handle] > 0]_vars

=============================================================================
