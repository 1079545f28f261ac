--------------------------- MODULE PropertyRegister ---------------------------
(***************************************************************************)
(* What a property read of the Go binding promises, stated without        *)
(* threads, queues, clones or reference counts: the extension's           *)
(* properties are a register per path; a read is requested, takes effect  *)
(* at one instant (the value it observes is the register's value at that  *)
(* instant), and returns later with that value, however often the         *)
(* register is written in between.  Closing the env destroys the          *)
(* properties, but never while a read is waiting to take effect.          *)
(***************************************************************************)
CONSTANTS
    Goroutines,   \* the callers
    Paths,        \* property paths
    Values,       \* property values
    Absent        \* no property at this path

VARIABLES
    rprop,    \* the registers
    rclosed,  \* the env is closed
    rstate,   \* per caller: "idle", "pending" (requested, not yet read),
              \* "answered" (read, not yet returned to the caller)
    rpath,    \* the path a caller asked for
    rsnap     \* the value a caller's read observed (Absent before)

rvars == <<rprop, rclosed, rstate, rpath, rsnap>>

Init ==
    /\ rprop \in [Paths -> Values \cup {Absent}]
    /\ rclosed = FALSE
    /\ rstate = [g \in Goroutines |-> "idle"]
    /\ rpath \in [Goroutines -> Paths]
    /\ rsnap = [g \in Goroutines |-> Absent]

Request(g, p) ==
    /\ rstate[g] = "idle" /\ ~rclosed
    /\ rstate' = [rstate EXCEPT ![g] = "pending"]
    /\ rpath' = [rpath EXCEPT ![g] = p]
    /\ UNCHANGED <<rprop, rclosed, rsnap>>

\* The instant the read takes effect.
Read(g) ==
    /\ rstate[g] = "pending" /\ ~rclosed
    /\ rstate' = [rstate EXCEPT ![g] = "answered"]
    /\ rsnap' = [rsnap EXCEPT ![g] = rprop[rpath[g]]]
    /\ UNCHANGED <<rprop, rclosed, rpath>>

Return(g) ==
    /\ rstate[g] = "answered"
    /\ rstate' = [rstate EXCEPT ![g] = "idle"]
    /\ rsnap' = [rsnap EXCEPT ![g] = Absent]
    /\ UNCHANGED <<rprop, rclosed, rpath>>

Write(p, v) ==
    /\ ~rclosed
    /\ rprop' = [rprop EXCEPT ![p] = v]
    /\ UNCHANGED <<rclosed, rstate, rpath, rsnap>>

Close ==
    /\ ~rclosed
    /\ \A g \in Goroutines : rstate[g] # "pending"
    /\ rclosed' = TRUE
    /\ rprop' = [p \in Paths |-> Absent]
    /\ UNCHANGED <<rstate, rpath, rsnap>>

Next ==
    \/ \E g \in Goroutines : \/ \E p \in Paths : Request(g, p)
                             \/ Read(g)
                             \/ Return(g)
    \/ \E p \in Paths, v \in Values : Write(p, v)
    \/ Close

\* The safety part: the steps the register allows.
SafetySpec == Init /\ [][Next]_rvars

\* Every requested read takes effect; returning it to the caller is the
\* caller's business (Go may never make the second call of a two-step read).
Spec == Init /\ [][Next]_rvars /\ \A g \in Goroutines : WF_rvars(Read(g))

=============================================================================
