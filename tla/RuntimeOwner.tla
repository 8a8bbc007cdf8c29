---------------------------- MODULE RuntimeOwner ----------------------------
(***************************************************************************)
(* Who owns the runtime of a server process: the controller singleton of   *)
(* mcp_server/ros2_mcp_server.py, the controllers it has made              *)
(* (runtime/controller.py: discovery, validation, arming and stop_runtime) *)
(* and the factory each of them got (adapters/factory.py), which owns the  *)
(* ROS context, node, executor and thread.                                 *)
(*                                                                         *)
(* Tool calls run on threads of their own. Each asks for the controller    *)
(* and then uses what it got, while others use the same one, stop it or    *)
(* close the singleton. Only the factory's calls are serialised. The       *)
(* process may be killed; the audit file and its quarantine stay.          *)
(*                                                                         *)
(* Runs of a task are left to the other modules: the profile is one of     *)
(* hardware, and its gateway goes no further than ARMED or ESTOPPED. A     *)
(* challenge is accepted or not (module OperatorChallenge), what a stop    *)
(* waits for may fail or time out, and a record is appended if the audit   *)
(* worker accepts records (module AuditWorker).                            *)
(***************************************************************************)
EXTENDS Naturals, SequencesExt, FiniteSets

CONSTANTS Callers,        \* threads of tool calls
          Closers,        \* threads that call close_runtime_controller()
          MaxControllers, \* bound of the controllers ever made
          NoGateway

\* What a gateway's state can be in this module, and what it starts as here.
GatewayStates == {"NEW", "DISCOVERED", "VALIDATED", "ARMED", "ESTOPPED"}

ASSUME OwnerAssumption == /\ MaxControllers \in Nat
                          /\ Closers \cap Callers = {}
                          /\ NoGateway \notin GatewayStates

VARIABLES
  singleton,  \* _controller, or 0
  created,    \* how many were made
  closing, cleanupFailed, \* _controller_closing and _controller_cleanup_failed
  controller, \* of each controller: what the class keeps
  factory,    \* of each controller: what its factory keeps
  openTrail,  \* the audit file ends in the middle of a session
  quarantineFile,
  at,
  using,      \* the controller a thread has got
  met,        \* of its stop_runtime(): discovery had installed an adapter
  ok,         \* of its stop_runtime(): not cleanup_failed
  stopped,    \* controllers with a stop_runtime() that answered (history)
  missed      \* controllers with a stop that closed an adapter before it was
              \* bound, so that it came upon no issuer to close (history)

process == <<singleton, created, closing, cleanupFailed>>
runtime == <<controller, factory, openTrail, quarantineFile>>
thread == <<using, met, ok>>
history == <<stopped, missed>>
owner == <<process, runtime, thread, at, history>>

Threads == Callers \cup Closers
Controllers == 1..MaxControllers

\* What the factory owns, in the order _close_locked() ends it.
Parts == <<"executor", "thread", "node", "context">>

NewController == [gateway |-> NoGateway, issuer |-> "idle", audit |-> TRUE,
                  poisoned |-> FALSE, quarantined |-> FALSE]
NewFactory == [adapter |-> FALSE, live |-> {}, closed |-> FALSE]

OwnerInit == /\ singleton = 0 /\ created = 0 /\ closing = FALSE /\ cleanupFailed = FALSE
             /\ controller = [k \in Controllers |-> NewController]
             /\ factory = [k \in Controllers |-> NewFactory]
             /\ openTrail = FALSE /\ quarantineFile = FALSE
             /\ at = [t \in Threads |-> "idle"]
             /\ using = [t \in Threads |-> 0]
             /\ met = [t \in Threads |-> FALSE]
             /\ ok = [t \in Threads |-> TRUE]
             /\ stopped = {}
             /\ missed = {}

Go(t, place) == at' = [at EXCEPT ![t] = place]

Return(t) == /\ Go(t, "idle")
             /\ using' = [using EXCEPT ![t] = 0]
             /\ met' = [met EXCEPT ![t] = FALSE]
             /\ ok' = [ok EXCEPT ![t] = TRUE]

-----------------------------------------------------------------------------
(* get_runtime_controller() and close_runtime_controller().                *)

\* A controller starts quarantined if the file says so, or if the audit file
\* ends in the middle of a session.
Quarantined == quarantineFile \/ openTrail

Get(t, place) ==
    /\ at[t] = "idle"
    /\ ~closing
    /\ ~cleanupFailed
    /\ \/ /\ singleton # 0
          /\ using' = [using EXCEPT ![t] = singleton]
          /\ UNCHANGED <<process, runtime>>
       \/ /\ singleton = 0
          /\ created < MaxControllers
          /\ singleton' = created + 1
          /\ created' = created + 1
          /\ using' = [using EXCEPT ![t] = created + 1]
          /\ controller' = [controller EXCEPT ![created + 1].quarantined = Quarantined]
          /\ quarantineFile' = Quarantined
          /\ UNCHANGED <<closing, cleanupFailed, factory, openTrail>>
    /\ Go(t, place)
    /\ UNCHANGED <<met, ok, history>>

CloseBegin(x) ==
    /\ at[x] = "idle"
    /\ ~closing
    /\ singleton # 0
    /\ closing' = TRUE
    /\ using' = [using EXCEPT ![x] = singleton]
    /\ Go(x, "halt")
    /\ UNCHANGED <<singleton, created, cleanupFailed, runtime, met, ok, history>>

\* (fault) The controller is dropped whatever its stop answered.
CloseDrops(x) ==
    /\ at[x] = "closed"
    /\ singleton' = 0
    /\ cleanupFailed' = FALSE
    /\ closing' = FALSE
    /\ Return(x)
    /\ UNCHANGED <<created, runtime, history>>

CloseEnd(x) ==
    /\ at[x] = "closed"
    /\ singleton' = IF ok[x] THEN 0 ELSE singleton
    /\ cleanupFailed' = ~ok[x]
    /\ closing' = FALSE
    /\ Return(x)
    /\ UNCHANGED <<created, runtime, history>>

-----------------------------------------------------------------------------
(* The factory.                                                            *)

\* _close_locked() ends the parts in order and stops at the first it cannot.
AfterClosing(live) == {live \cap ToSet(SubSeq(Parts, n + 1, 4)) : n \in 0..4}

\* What _start_runtime() and the constructors have built when they fail.
Built == {ToSet(SubSeq(<<"context", "node", "executor", "thread">>, 1, n)) : n \in 0..4}

\* What a call that fails may leave: of an earlier call, or of its own.
Leftovers(k) == (AfterClosing(factory[k].live) \ {{}})
                \cup UNION {AfterClosing(built) : built \in Built}

\* (fault) A closed factory may be called again.
CloseForOnce(k, success) ==
    /\ \E left \in AfterClosing(factory[k].live) :
          /\ factory' = [factory EXCEPT ![k].live = left,
                                        ![k].adapter = factory[k].adapter /\ left # {}]
          /\ success = (left = {})

\* close(): "success" is its answer.
CloseFactory(k, success) ==
    IF factory[k].closed
    THEN success /\ UNCHANGED factory
    ELSE \E left \in AfterClosing(factory[k].live) :
            /\ success = (left = {})
            /\ factory' = [factory EXCEPT ![k].live = left, ![k].closed = success]

\* (fault) The factory makes another adapter for whoever asks.
MakesAnother(k) == ~factory[k].closed

MayMake(k) == ~factory[k].closed /\ ~factory[k].adapter

\* A call of the factory: refused, failed with what could not be cleaned up, or
\* done. What an earlier call left is ended first.
Make(t, k) ==
    /\ at[t] = "make"
    /\ \/ /\ ~MayMake(k)
          /\ UNCHANGED factory
          /\ Return(t)
       \/ /\ MayMake(k)
          /\ \E left \in Leftovers(k) : factory' = [factory EXCEPT ![k].live = left]
          /\ Return(t)
       \/ /\ MayMake(k)
          /\ factory' = [factory EXCEPT ![k].live = ToSet(Parts), ![k].adapter = TRUE]
          /\ Go(t, "judge")
          /\ UNCHANGED thread
    /\ UNCHANGED <<process, controller, openTrail, quarantineFile, history>>

-----------------------------------------------------------------------------
(* discover_robot().                                                       *)

\* _ensure_available()
Available(k) == ~controller[k].poisoned /\ ~controller[k].quarantined /\ ~quarantineFile

Leave(t) == Return(t) /\ UNCHANGED <<process, runtime, history>>

\* A profile or a graph that cannot be read ends a discovery before the
\* factory is called.
Discover(t, k) ==
    /\ at[t] = "discover"
    /\ \/ /\ Available(k)
          /\ controller[k].gateway = NoGateway
          /\ Go(t, "make")
          /\ UNCHANGED <<process, runtime, thread, history>>
       \/ Leave(t)

\* A conflict in the graph, or a probe that fails, closes the adapter again.
Reject(t, k) ==
    /\ at[t] = "judge"
    /\ \E success \in BOOLEAN :
          /\ CloseFactory(k, success)
          /\ controller' = [controller EXCEPT ![k].poisoned = controller[k].poisoned \/ ~success]
    /\ Return(t)
    /\ UNCHANGED <<process, openTrail, quarantineFile, history>>

Install(t, k) ==
    /\ at[t] = "judge"
    /\ controller' = [controller EXCEPT ![k].gateway = "NEW"]
    /\ Go(t, "bind")
    /\ UNCHANGED <<process, factory, openTrail, quarantineFile, thread, history>>

\* _append_audit(): a worker that takes no more records fails the append, which
\* quarantines the runtime and latches the gateway.
Record(k, state) ==
    IF controller[k].audit
    THEN /\ openTrail' = (state # "ESTOPPED")
         /\ controller' = [controller EXCEPT ![k].gateway = state]
         /\ UNCHANGED quarantineFile
    ELSE /\ quarantineFile' = TRUE
         /\ controller' = [controller EXCEPT ![k].quarantined = TRUE, ![k].gateway = "ESTOPPED"]
         /\ UNCHANGED openTrail

\* _latch_adapter_fault()
Fault(k) == /\ IF controller[k].gateway = "ESTOPPED"
               THEN UNCHANGED <<controller, openTrail, quarantineFile>>
               ELSE Record(k, "ESTOPPED")
            /\ UNCHANGED factory

\* The channel starts the issuer, unless it is closed; from then on the adapter's
\* close finds it.
Bind(t, k) ==
    /\ at[t] = "bind"
    /\ \/ /\ controller[k].issuer # "closed"
          /\ controller' = [controller EXCEPT ![k].issuer = "started"]
          /\ Go(t, "announce")
          /\ UNCHANGED <<factory, openTrail, quarantineFile, thread>>
       \/ /\ Fault(k)
          /\ Return(t)
    /\ UNCHANGED <<process, history>>

\* A transition of the gateway and its record.
Advance(t, k, from, to) ==
    /\ IF controller[k].gateway = from
       THEN Record(k, to)
       ELSE UNCHANGED <<controller, openTrail, quarantineFile>>
    /\ Return(t)
    /\ UNCHANGED <<process, factory, history>>

\* The physical stop's input, which may not be bound, and the transition.
Announce(t, k) == /\ at[t] = "announce"
                  /\ \/ Advance(t, k, "NEW", "DISCOVERED")
                     \/ /\ Fault(k)
                        /\ Return(t)
                        /\ UNCHANGED <<process, history>>

-----------------------------------------------------------------------------
(* validate_profile() and arm_robot().                                     *)

Validate(t, k) ==
    /\ at[t] = "validate"
    /\ \/ /\ Available(k)
          /\ controller[k].gateway # NoGateway
          /\ \/ Advance(t, k, "DISCOVERED", "VALIDATED")
             \/ /\ Fault(k)
                /\ Return(t)
                /\ UNCHANGED <<process, history>>
       \/ /\ ~Available(k) \/ controller[k].gateway = NoGateway
          /\ Leave(t)

Arm(t, k) ==
    /\ at[t] = "arm"
    /\ \/ /\ Available(k)
          /\ Advance(t, k, "VALIDATED", "ARMED")
       \/ Leave(t)

-----------------------------------------------------------------------------
(* stop_runtime(), by a tool call or by close_runtime_controller().        *)

\* What discovery has installed is looked up once, at the start. The gateway, the
\* transitions not yet recorded, the
\* monitor and the cleanups follow; "success" tells whether they, and the workers
\* closed next, end in time.
Halt(t, k) ==
    /\ at[t] = "halt"
    /\ \E success \in BOOLEAN : ok' = [ok EXCEPT ![t] = success /\ ~controller[k].poisoned]
    /\ met' = [met EXCEPT ![t] = controller[k].gateway # NoGateway]
    /\ Go(t, "audit")
    /\ UNCHANGED <<process, runtime, using, history>>

CloseAudit(t, k) ==
    /\ at[t] = "audit"
    /\ controller' = [controller EXCEPT ![k].audit = FALSE]
    /\ Go(t, "issuer")
    /\ UNCHANGED <<process, factory, openTrail, quarantineFile, thread, history>>

\* (fault) An adapter's close leaves the sequencer to whoever issued it.
CloseOwnIssuer(t, k) ==
    /\ at[t] = "issuer"
    /\ controller' = [controller EXCEPT ![k].issuer = IF met[t] THEN @ ELSE "closed"]
    /\ Go(t, "factory")
    /\ UNCHANGED <<process, factory, openTrail, quarantineFile, thread, history>>

\* A stop that met no adapter closes the issuer itself. An adapter closes it with
\* its own emergency worker, but only once it is bound to it.
CloseIssuer(t, k) ==
    /\ at[t] = "issuer"
    /\ IF met[t] /\ controller[k].issuer = "idle"
       THEN missed' = missed \cup {k} /\ UNCHANGED controller
       ELSE /\ controller' = [controller EXCEPT ![k].issuer = "closed"]
            /\ UNCHANGED missed
    /\ Go(t, "factory")
    /\ UNCHANGED <<process, factory, openTrail, quarantineFile, thread, stopped>>

\* The factory is closed by the adapter it has made, or by the controller, and
\* the stop answers.
StopFactory(t, k) ==
    /\ at[t] = "factory"
    /\ \E success \in BOOLEAN :
          /\ CloseFactory(k, success)
          /\ stopped' = IF ok[t] /\ success THEN stopped \cup {k} ELSE stopped
          /\ IF t \in Closers
             THEN Go(t, "closed") /\ ok' = [ok EXCEPT ![t] = @ /\ success]
                                   /\ UNCHANGED <<using, met>>
             ELSE Return(t)
    /\ UNCHANGED <<process, controller, openTrail, quarantineFile, missed>>

-----------------------------------------------------------------------------
(* The process and its surroundings.                                       *)

Call(t) == \E place \in {"discover", "validate", "arm", "halt"} : Get(t, place)

StopStep(t, k) == \/ Halt(t, k) \/ CloseAudit(t, k) \/ CloseIssuer(t, k) \/ StopFactory(t, k)

ToolStep(t, k) == \/ Discover(t, k) \/ Make(t, k) \/ Reject(t, k) \/ Install(t, k)
                  \/ Bind(t, k) \/ Announce(t, k) \/ Validate(t, k) \/ Arm(t, k)

\* The process ends and another starts; what the factories owned ends with it.
Restart == /\ created > 0
           /\ created < MaxControllers
           /\ singleton' = 0 /\ closing' = FALSE /\ cleanupFailed' = FALSE
           /\ controller' = [k \in Controllers |-> NewController]
           /\ factory' = [k \in Controllers |-> NewFactory]
           /\ at' = [t \in Threads |-> "idle"]
           /\ using' = [t \in Threads |-> 0]
           /\ met' = [t \in Threads |-> FALSE]
           /\ ok' = [t \in Threads |-> TRUE]
           /\ stopped' = {}
           /\ missed' = {}
           /\ UNCHANGED <<created, openTrail, quarantineFile>>

OwnerNext == \/ \E t \in Callers : \/ Call(t)
                                   \/ \E k \in Controllers \cap {using[t]} : ToolStep(t, k)
             \/ \E x \in Closers : CloseBegin(x) \/ CloseEnd(x)
             \/ \E t \in Threads : \E k \in Controllers \cap {using[t]} : StopStep(t, k)
             \/ Restart

OwnerSpec == OwnerInit /\ [][OwnerNext]_owner

-----------------------------------------------------------------------------
(* Properties.                                                             *)

\* At most one controller has live ROS resources: the singleton is replaced
\* only when everything its factory owned has ended, and a call that still
\* holds the old controller cannot make it own anything again
\* (mcp_server/ros2_mcp_server.py get_runtime_controller).
OneRuntime == Cardinality({k \in Controllers : factory[k].live # {}}) <= 1

\* Once a stop_runtime() has answered, its controller owns no ROS resources and
\* issues no permit for a motion, ever after. One discovery escapes the second
\* half: a stop that met its adapter installed and not yet bound closes no issuer,
\* and the discovery starts it. Then at least the audit takes no record any more,
\* without which no task is started (module AuditTrail).
StoppedStaysDown ==
    \A k \in stopped : /\ factory[k].live = {}
                       /\ \/ controller[k].issuer = "closed"
                          \/ k \in missed /\ ~controller[k].audit

\* Of two discoveries at once only one gets to install its gateway; none
\* replaces the gateway of another, with its latch and its watchdog.
OneGateway == \A t \in Callers : at[t] = "judge" => controller[using[t]].gateway = NoGateway

=============================================================================
