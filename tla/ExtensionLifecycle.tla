------------------------- MODULE ExtensionLifecycle -------------------------
(***************************************************************************)
(* The lifecycle of the extensions of one graph, as driven through the    *)
(* C++ binding (core/include/ten_runtime/binding/cpp/internal/extension.h) *)
(* and the engine's barriers (spec 4.5, 4.7).                              *)
(*                                                                         *)
(* The engine calls on_configure, on_init, on_start of every extension,   *)
(* each phase a barrier that ends when every extension has called the     *)
(* matching *_done; a stop_graph then runs on_stop and on_deinit the same *)
(* way.  The binding wraps each user callback in try/catch: an exception  *)
(* is logged and turned into a stop_graph command sent to the local       *)
(* engine (issue_stop_graph_cmd).  A callback may call its *_done before  *)
(* returning (the defaults do), later (asynchronously), or never, when it *)
(* throws first.                                                          *)
(***************************************************************************)
EXTENDS Naturals

CONSTANTS
    Extensions,       \* the extensions of the graph
    StartBehaviours,  \* what on_configure/on_init/on_start may do
    StopBehaviours,   \* what on_stop/on_deinit may do
    CmdBehaviours,    \* what on_cmd may do with the command's result
    StopSendResults,  \* what ten_env_send_cmd of a stop_graph may return
    MaxMsgs           \* messages delivered to one extension while running

\* "sync": *_done before returning (the default callbacks); "async": *_done
\* later; "throw_after": *_done, then an exception; "throw_before": an
\* exception before *_done was called.
Behaviours == {"sync", "async", "throw_after", "throw_before"}

ASSUME ConstAssumption ==
    /\ Extensions # {}
    /\ StartBehaviours \subseteq Behaviours /\ StartBehaviours # {}
    /\ StopBehaviours \subseteq Behaviours /\ StopBehaviours # {}
    /\ CmdBehaviours \subseteq Behaviours /\ CmdBehaviours # {}
    /\ StopSendResults \subseteq BOOLEAN /\ StopSendResults # {}
    /\ MaxMsgs \in Nat

StartPhases == {"configure", "init", "start"}
CallbackPhases == StartPhases \cup {"stop", "deinit"}
Phases == CallbackPhases \cup {"running", "closed"}

\* The phase each barrier leads to.
Successor == [configure |-> "init", init |-> "start", start |-> "running",
              stop |-> "deinit", deinit |-> "closed"]

\* Once a stop_graph has been accepted during start-up, the barrier of the
\* current start phase leads to the stop phase instead.
NextPhase(ph, stopReq) ==
    IF stopReq /\ ph \in StartPhases THEN "stop" ELSE Successor[ph]

VARIABLES
    phase,     \* the engine's lifecycle phase for the graph
    stage,     \* per extension, in the current phase: "pending" (callback not
               \* yet called), "async" (returned, *_done to come), "stuck"
               \* (threw before *_done), "done"
    stopQ,     \* stop_graph commands sent to the engine, not yet handled
    stopping,  \* a stop_graph was accepted during start-up
    extStop,   \* the client has sent its stop_graph
    msgs,      \* messages delivered to each extension
    owed,      \* per extension: commands whose result on_cmd will return
               \* later
    dropped    \* per extension: commands whose on_cmd threw before
               \* returning a result

vars == <<phase, stage, stopQ, stopping, extStop, msgs, owed, dropped>>

-----------------------------------------------------------------------------
\* The stage an extension is left in by a callback behaving as b: the
\* default callbacks call *_done at once; the try/catch only logs.
Outcome(b) ==
    CASE b \in {"sync", "throw_after"} -> "done"
      [] b = "async"                   -> "async"
      [] b = "throw_before"            -> "stuck"

\* issue_stop_graph_cmd: a caught exception sends one stop_graph; the
\* result of ten_env_send_cmd (ok) is not looked at, so a failed send is
\* only a stop_graph that never reaches the engine.
IssueStopGraphCmd(b, ok) ==
    IF b \in {"throw_after", "throw_before"} /\ ok THEN 1 ELSE 0

\* An on_cmd behaving as b has returned the command's result before
\* returning or throwing (the default on_cmd returns "default" at once).
Replied(b) == b \in {"sync", "throw_after"}

Init ==
    /\ phase = "configure"
    /\ stage = [e \in Extensions |-> "pending"]
    /\ stopQ = 0
    /\ stopping = FALSE
    /\ extStop = FALSE
    /\ msgs = [e \in Extensions |-> 0]
    /\ owed = [e \in Extensions |-> 0]
    /\ dropped = [e \in Extensions |-> 0]

\* proxy_on_<phase> -> invoke_cpp_extension_on_<phase>: the user callback
\* runs inside try/catch on the extension thread.
Invoke(e) ==
    /\ phase \in CallbackPhases
    /\ stage[e] = "pending"
    /\ \E b \in IF phase \in StartPhases THEN StartBehaviours
                ELSE StopBehaviours, ok \in StopSendResults :
         /\ stage' = [stage EXCEPT ![e] = Outcome(b)]
         /\ stopQ' = stopQ + IssueStopGraphCmd(b, ok)
    /\ UNCHANGED <<phase, stopping, extStop, msgs, owed, dropped>>

\* An asynchronous callback calls ten_env.on_<phase>_done later.
AsyncDone(e) ==
    /\ stage[e] = "async"
    /\ stage' = [stage EXCEPT ![e] = "done"]
    /\ UNCHANGED <<phase, stopQ, stopping, extStop, msgs, owed, dropped>>

\* The barrier: every extension has called *_done for the phase.
Advance ==
    /\ phase \in CallbackPhases
    /\ \A e \in Extensions : stage[e] = "done"
    /\ phase' = NextPhase(phase, stopping)
    /\ stage' = [e \in Extensions |-> "pending"]
    /\ UNCHANGED <<stopQ, stopping, extStop, msgs, owed, dropped>>

\* Variant of DeliverCmd whose catch only logs and issues no stop_graph.
DeliverCmdNoStop(e) ==
    /\ phase = "running"
    /\ msgs[e] < MaxMsgs
    /\ \E b \in CmdBehaviours :
         /\ owed' = [owed EXCEPT ![e] = @ + (IF b = "async" THEN 1 ELSE 0)]
         /\ dropped' = [dropped EXCEPT ![e] = @ + (IF Replied(b) \/ b = "async"
                                                   THEN 0 ELSE 1)]
    /\ msgs' = [msgs EXCEPT ![e] = @ + 1]
    /\ UNCHANGED <<phase, stage, stopQ, stopping, extStop>>

\* proxy_on_cmd -> invoke_cpp_extension_on_cmd: a command is delivered to a
\* running extension.  on_cmd returns its result at once, later, or not at
\* all when it throws first; an exception issues a stop_graph.
DeliverCmd(e) ==
    /\ phase = "running"
    /\ msgs[e] < MaxMsgs
    /\ \E b \in CmdBehaviours, ok \in StopSendResults :
         /\ owed' = [owed EXCEPT ![e] = @ + (IF b = "async" THEN 1 ELSE 0)]
         /\ dropped' = [dropped EXCEPT ![e] = @ + (IF Replied(b) \/ b = "async"
                                                   THEN 0 ELSE 1)]
         /\ stopQ' = stopQ + IssueStopGraphCmd(b, ok)
    /\ msgs' = [msgs EXCEPT ![e] = @ + 1]
    /\ UNCHANGED <<phase, stage, stopping, extStop>>

\* proxy_on_data/_audio_frame/_video_frame -> invoke_cpp_extension_on_<msg>:
\* the handler (a no-op by default) may throw.
DeliverMsg(e) ==
    /\ phase = "running"
    /\ msgs[e] < MaxMsgs
    /\ \E b \in {"sync", "throw_after"}, ok \in StopSendResults :
         stopQ' = stopQ + IssueStopGraphCmd(b, ok)
    /\ msgs' = [msgs EXCEPT ![e] = @ + 1]
    /\ UNCHANGED <<phase, stage, stopping, extStop, owed, dropped>>

\* An on_cmd that kept its command calls ten_env.return_result later.
ReturnResult(e) ==
    /\ owed[e] > 0
    /\ owed' = [owed EXCEPT ![e] = @ - 1]
    /\ UNCHANGED <<phase, stage, stopQ, stopping, extStop, msgs, dropped>>

\* The client (or app) sends its stop_graph.
ExternalStop ==
    /\ ~extStop
    /\ extStop' = TRUE
    /\ stopQ' = stopQ + 1
    /\ UNCHANGED <<phase, stage, stopping, msgs, owed, dropped>>

\* Variant of HandleStop that drops a stop_graph arriving during start-up.
HandleStopRunningOnly ==
    /\ stopQ > 0
    /\ stopQ' = stopQ - 1
    /\ IF phase = "running"
       THEN /\ phase' = "stop"
            /\ stage' = [e \in Extensions |-> "pending"]
       ELSE UNCHANGED <<phase, stage>>
    /\ UNCHANGED <<stopping, extStop, msgs, owed, dropped>>

\* Variant of HandleStop without its stopQ > 0 guard.
HandleStopUnguarded ==
    /\ stopQ' = stopQ - 1
    /\ IF phase = "running"
       THEN /\ phase' = "stop"
            /\ stage' = [e \in Extensions |-> "pending"]
            /\ UNCHANGED stopping
       ELSE /\ stopping' = (stopping \/ phase \in StartPhases)
            /\ UNCHANGED <<phase, stage>>
    /\ UNCHANGED <<extStop, msgs, owed, dropped>>

\* The engine takes a stop_graph: a running graph enters the stop phase; in
\* start-up the stop is remembered for the end of the current barrier; a
\* graph already stopping ignores it.
HandleStop ==
    /\ stopQ > 0
    /\ stopQ' = stopQ - 1
    /\ IF phase = "running"
       THEN /\ phase' = "stop"
            /\ stage' = [e \in Extensions |-> "pending"]
            /\ UNCHANGED stopping
       ELSE /\ stopping' = (stopping \/ phase \in StartPhases)
            /\ UNCHANGED <<phase, stage>>
    /\ UNCHANGED <<extStop, msgs, owed, dropped>>

Next ==
    \/ \E e \in Extensions : \/ Invoke(e) \/ AsyncDone(e)
                             \/ DeliverCmd(e) \/ DeliverMsg(e)
                             \/ ReturnResult(e)
    \/ Advance
    \/ ExternalStop
    \/ HandleStop

\* The extension thread runs every callback it owes, the engine passes every
\* complete barrier and takes every queued command; an asynchronous callback
\* is required to call its *_done eventually, and an on_cmd that keeps its
\* command to return the result eventually (spec 4.5).
Fairness ==
    /\ WF_vars(Advance)
    /\ WF_vars(HandleStop)
    /\ \A e \in Extensions : /\ WF_vars(Invoke(e)) /\ WF_vars(AsyncDone(e))
                             /\ WF_vars(ReturnResult(e))

Spec == Init /\ [][Next]_vars /\ Fairness

-----------------------------------------------------------------------------
\* Every variable ranges over its type.
TypeOK ==
    /\ phase \in Phases
    /\ stage \in [Extensions -> {"pending", "async", "stuck", "done"}]
    /\ stopQ \in Nat
    /\ stopping \in BOOLEAN
    /\ extStop \in BOOLEAN
    /\ msgs \in [Extensions -> 0..MaxMsgs]
    /\ owed \in [Extensions -> Nat]
    /\ dropped \in [Extensions -> Nat]

\* A stop_graph sent to the engine -- by the client or by the binding after
\* catching an exception in a callback -- eventually brings the whole graph
\* through on_stop and on_deinit to closed: a misbehaving extension cannot
\* wedge the engine (spec 4.5, 8.5).  It holds when every callback that
\* throws has called its *_done first; a throw before *_done, in a start
\* or a stop callback, leaves that barrier waiting forever.
StopCompletes == (stopQ > 0) ~> (phase = "closed")

\* No command is left unanswered on a live graph: every command delivered
\* to on_cmd eventually has its result returned, or -- when on_cmd threw
\* before returning one -- the stop_graph the binding issued brings the
\* graph to closed (spec 4.5: on_cmd must eventually return a result; a
\* misbehaving extension cannot wedge the framework).
CmdsSettled ==
    \A e \in Extensions :
        (owed[e] > 0 \/ dropped[e] > 0)
            ~> (owed[e] = 0 /\ (dropped[e] = 0 \/ phase = "closed"))

=============================================================================
