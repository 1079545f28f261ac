------------------------- MODULE PropertyGetRefinement -------------------------
(***************************************************************************)
(* PropertyGet implements PropertyRegister.  A getter is "pending" from    *)
(* ten_env_proxy_notify until the closure has run (the event is set), and  *)
(* "answered" from then until the value is returned to Go -- through the   *)
(* second call of a two-step read, if there is one.  The value a read      *)
(* observed is the value info->c_value (later value_addr) denotes; the     *)
(* instant it takes effect is the closure's peek-and-clone.                *)
(***************************************************************************)
EXTENDS PropertyGet

\* The state of a getter as the abstract register sees it.
RState(g) ==
    IF pc[g] = "idle" THEN "idle"
    ELSE IF pc[g] = "waiting" /\ ~evset[g] THEN "pending"
    ELSE "answered"

\* The value a getter holds, or Absent when it holds none.
RSnap(g) == IF cval[g] = NULL THEN Absent ELSE Deref(cval[g])

stateBar == [g \in Goroutines |-> RState(g)]
snapBar == [g \in Goroutines |-> RSnap(g)]

Reg == INSTANCE PropertyRegister WITH
           rprop <- prop,
           rclosed <- closed,
           rstate <- stateBar,
           rpath <- path,
           rsnap <- snapBar

\* Every property read of the Go binding behaves as an atomic read of the
\* property, taking effect while the getter waits: the value a getter (or
\* Go's second call on value_addr) ends up with is the property's value at
\* the instant the closure ran on the extension thread -- never one
\* written later, even after the env closed -- and every waiting getter's
\* read takes effect.
RegSpec == Reg!Spec

=============================================================================
