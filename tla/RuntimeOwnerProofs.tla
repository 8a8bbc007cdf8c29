------------------------- MODULE RuntimeOwnerProofs -------------------------
(***************************************************************************)
(* At most one runtime owns ROS resources, a stopped one owns none and     *)
(* stays stopped, and of two discoveries one installs its gateway, for any *)
(* number of tool calls, closers and controllers.  The invariant follows   *)
(* who may still reach an old controller: whoever holds one that is no     *)
(* longer the singleton holds a factory that is closed for good, since the *)
(* singleton is dropped only then.                                         *)
(*                                                                         *)
(* And the token an operator hands to whoever arms a runtime is accepted   *)
(* at most once, for any number of consumers, tokens, boots and any        *)
(* lifetime.  The record alone does not show it: a consumer may write back *)
(* a record it read before the last challenge was written, and the draft   *)
(* of a challenge is not in the file yet.  The invariant follows every     *)
(* copy of a record: one that is not marked used is of a token that was    *)
(* never accepted, and only the holder of the lock has one to write back.  *)
(***************************************************************************)
EXTENDS RuntimeOwner, OperatorChallenge, FiniteSetTheorems, SequenceTheorems, TLAPS

ControllerRecords == [gateway : GatewayStates \cup {NoGateway}, issuer : {"idle", "started", "closed"},
                      audit : BOOLEAN, poisoned : BOOLEAN, quarantined : BOOLEAN]
PartNames == {"executor", "thread", "node", "context"}
Places == {"idle", "discover", "validate", "arm", "halt", "make", "judge", "bind", "announce",
           "audit", "issuer", "factory", "closed"}
FactoryRecords == [adapter : BOOLEAN, live : SUBSET PartNames, closed : BOOLEAN]

OwnerTyped == /\ created \in 0..MaxControllers
              /\ singleton \in 0..created
              /\ closing \in BOOLEAN
              /\ controller \in [Controllers -> ControllerRecords]
              /\ factory \in [Controllers -> FactoryRecords]
              /\ at \in [Threads -> Places]
              /\ using \in [Threads -> 0..created]
              /\ ok \in [Threads -> BOOLEAN]
              /\ stopped \subseteq Controllers

\* One closer at a time, and it closes the singleton.
OneCloser == /\ \A x \in Closers : at[x] # "idle" => closing /\ using[x] = singleton
             /\ \A x, y \in Closers : at[x] # "idle" /\ at[y] # "idle" => x = y

\* A controller that is not the singleton owns nothing, and whoever still uses
\* it finds its factory closed.
OldIsDead == \A k \in Controllers :
                /\ factory[k].closed => factory[k].live = {}
                /\ k # singleton => /\ factory[k].live = {}
                                    /\ \A t \in Threads : using[t] = k => factory[k].closed

\* What a stop leaves of a controller, apart from its factory.
Down(k) == /\ ~controller[k].audit
           /\ controller[k].issuer = "closed" \/ k \in missed

\* What a stop has reached so far.
StopReaches == /\ \A t \in Threads, k \in Controllers :
                     /\ at[t] = "issuer" /\ using[t] = k => ~controller[k].audit
                     /\ at[t] = "factory" /\ using[t] = k => Down(k)
                     /\ at[t] = "closed" /\ using[t] = k /\ ok[t] => factory[k].closed
               /\ \A k \in stopped : factory[k].closed /\ Down(k)

\* Whoever judges a graph is alone with the one adapter of its factory, and no
\* gateway is there before it has judged; a gateway that is there stays.
JudgeIsAlone == /\ \A t \in Threads : at[t] = "judge" => using[t] \in Controllers
                /\ \A t \in Threads, k \in Controllers :
                      at[t] = "judge" /\ using[t] = k =>
                         /\ controller[k].gateway = NoGateway
                         /\ factory[k].adapter
                /\ \A t \in Threads, k \in Controllers :
                      at[t] \in {"bind", "announce"} /\ using[t] = k =>
                         controller[k].gateway # NoGateway
                /\ \A t, u \in Threads :
                      at[t] = "judge" /\ at[u] = "judge" /\ using[t] = using[u] => t = u
                /\ \A k \in Controllers : controller[k].gateway # NoGateway => factory[k].adapter

OwnerInv == OwnerTyped /\ OneCloser /\ OldIsDead /\ StopReaches /\ JudgeIsAlone

LEMMA OwnerInitInv == OwnerInit => OwnerInv
<1> SUFFICES ASSUME OwnerInit PROVE OwnerInv
    OBVIOUS
<1> USE OwnerAssumption
<1>1. OwnerTyped
  <2>1. NewController \in ControllerRecords
        BY DEF NewController, ControllerRecords
  <2>2. NewFactory \in FactoryRecords
        BY DEF NewFactory, FactoryRecords
  <2>3. controller \in [Controllers -> ControllerRecords] /\ factory \in [Controllers -> FactoryRecords]
        BY <2>1, <2>2 DEF OwnerInit
  <2>4. 0 \in 0..MaxControllers /\ 0 \in 0..0
        OBVIOUS
  <2>7. created = 0 /\ singleton = 0 /\ stopped = {}
        BY DEF OwnerInit
  <2>8. at \in [Threads -> Places]
        BY DEF OwnerInit, Places
  <2>9. using \in [Threads -> 0..0]
        BY <2>4 DEF OwnerInit
  <2>5. at \in [Threads -> Places] /\ using \in [Threads -> 0..created]
        BY <2>7, <2>8, <2>9
  <2>6. ok \in [Threads -> BOOLEAN] /\ closing \in BOOLEAN
        BY DEF OwnerInit
  <2> QED BY <2>3, <2>4, <2>5, <2>6, <2>7 DEF OwnerTyped
<1>2. OneCloser /\ OldIsDead /\ StopReaches /\ JudgeIsAlone
      BY DEF OwnerInit, OneCloser, OldIsDead, StopReaches, JudgeIsAlone, NewController, NewFactory,
             Threads
<1> QED BY <1>1, <1>2 DEF OwnerInv

-----------------------------------------------------------------------------
(* What the steps of one thread have in common.                            *)

\* A step that opens nothing again which a stop has closed.
KeepsDown(j) == /\ controller[j].issuer = "closed" => controller'[j].issuer = "closed"
                /\ ~controller[j].audit => ~controller'[j].audit

\* A step of a thread keeps the invariant if it closes no factory open again,
\* starts no closed issuer or audit, gives nothing to an old controller, and leaves the
\* gateway alone of whoever else is judging.
LEMMA ThreadStep ==
    ASSUME OwnerInv,
           NEW t \in Threads, NEW k \in Controllers, using[t] = k,
           at[t] # "idle",
           UNCHANGED <<singleton, created, closing>>,
           NEW place \in Places, at' = [at EXCEPT ![t] = place],
           \/ using' = using
           \/ place = "idle" /\ using' = [using EXCEPT ![t] = 0],
           ok' \in [Threads -> BOOLEAN],
           \A u \in Threads \ {t} : ok'[u] = ok[u],
           controller' \in [Controllers -> ControllerRecords],
           factory' \in [Controllers -> FactoryRecords],
           \A j \in Controllers :
              /\ factory[j].closed => factory'[j].closed
              /\ factory[j].adapter => factory'[j].adapter
              /\ factory'[j].closed => factory'[j].live = {}
              /\ j # singleton => factory'[j].live = {}
              /\ KeepsDown(j)
              /\ controller'[j].gateway # controller[j].gateway =>
                    /\ controller'[j].gateway # NoGateway
                    /\ factory[j].adapter
                    /\ \A u \in Threads : at'[u] = "judge" => using[u] # j,
           place = "judge" => /\ at[t] # "judge"
                              /\ controller'[k].gateway = NoGateway
                              /\ factory'[k].adapter
                              /\ \A u \in Threads : at[u] = "judge" => using[u] # k,
           place \in {"bind", "announce"} => controller'[k].gateway # NoGateway,
           place = "issuer" => ~controller'[k].audit,
           place = "factory" => Down(k)',
           place = "closed" /\ ok'[t] => factory'[k].closed,
           stopped' \subseteq Controllers,
           missed \subseteq missed',
           \A j \in stopped' \ stopped : factory'[j].closed /\ Down(j)'
    PROVE  OwnerInv'
<1> USE DEF OwnerInv
<1>1. OwnerTyped'
  <2>1. at' \in [Threads -> Places] /\ using' \in [Threads -> 0..created]
        BY OwnerAssumption DEF OwnerTyped
  <2> QED BY <2>1 DEF OwnerTyped
<1>2. \A u \in Threads : u # t => at'[u] = at[u] /\ using'[u] = using[u]
      BY DEF OwnerTyped
<1>3. at'[t] = place /\ (place # "idle" => using'[t] = using[t]) /\ using'[t] \in {0, using[t]}
      BY DEF OwnerTyped
<1>4. OneCloser'
      BY <1>2, <1>3 DEF OneCloser, Threads
<1>5. OldIsDead'
      BY <1>2, <1>3 DEF OldIsDead, Controllers
<1>6. StopReaches'
  <2>0. \A j \in Controllers : Down(j) => Down(j)'
        BY DEF Down, KeepsDown
  <2>1. ASSUME NEW u \in Threads, NEW j \in Controllers
        PROVE  /\ at'[u] = "issuer" /\ using'[u] = j => ~controller'[j].audit
               /\ at'[u] = "factory" /\ using'[u] = j => Down(j)'
               /\ at'[u] = "closed" /\ using'[u] = j /\ ok'[u] => factory'[j].closed
    <3>1. CASE u = t
          BY <1>3, <3>1
    <3>2. CASE u # t
          BY <1>2, <2>0, <3>2 DEF StopReaches, KeepsDown
    <3> QED BY <3>1, <3>2
  <2>2. \A j \in stopped' : factory'[j].closed /\ Down(j)'
        BY <2>0 DEF StopReaches, OwnerTyped
  <2> QED BY <2>1, <2>2 DEF StopReaches
<1>7. JudgeIsAlone'
  <2>1. ASSUME NEW u \in Threads, NEW j \in Controllers, at'[u] = "judge", using'[u] = j
        PROVE  controller'[j].gateway = NoGateway /\ factory'[j].adapter
    <3>1. CASE u = t
          BY <1>3, <2>1, <3>1
    <3>2. CASE u # t
      <4>1. at[u] = "judge" /\ using[u] = j
            BY <1>2, <2>1, <3>2
      <4>2. controller[j].gateway = NoGateway /\ factory[j].adapter
            BY <4>1 DEF JudgeIsAlone
      <4> QED BY <2>1, <4>1, <4>2
    <3> QED BY <3>1, <3>2
  <2>2. ASSUME NEW u \in Threads, NEW v \in Threads, at'[u] = "judge", at'[v] = "judge",
               using'[u] = using'[v]
        PROVE  u = v
    <3>1. CASE u # t /\ v # t
          BY <1>2, <2>2, <3>1 DEF JudgeIsAlone
    <3>2. CASE u = t \/ v = t
          BY <1>2, <1>3, <2>2, <3>2
    <3> QED BY <3>1, <3>2
  <2>3. \A j \in Controllers : controller'[j].gateway # NoGateway => factory'[j].adapter
        BY DEF JudgeIsAlone
  <2>4. ASSUME NEW u \in Threads, NEW j \in Controllers, at'[u] \in {"bind", "announce"},
               using'[u] = j
        PROVE  controller'[j].gateway # NoGateway
    <3>1. CASE u = t
          BY <1>3, <2>4, <3>1
    <3>2. CASE u # t
          BY <1>2, <2>4, <3>2 DEF JudgeIsAlone
    <3> QED BY <3>1, <3>2
  <2>5. ASSUME NEW u \in Threads, at'[u] = "judge"
        PROVE  using'[u] \in Controllers
        BY <1>2, <1>3, <2>5 DEF JudgeIsAlone
  <2> QED BY <2>1, <2>2, <2>3, <2>4, <2>5 DEF JudgeIsAlone, Controllers
<1> QED BY <1>1, <1>4, <1>5, <1>6, <1>7

-----------------------------------------------------------------------------
(* What the helpers do.                                                    *)

\* Closing parts leaves some of them.
LEMMA ClosingShrinks == \A live : \A left \in AfterClosing(live) : left \subseteq live
BY DEF AfterClosing

\* What a factory has built is made of its parts.
LEMMA BuiltFromParts == /\ \A built \in Built : built \subseteq PartNames
                        /\ ToSet(Parts) \subseteq PartNames
<1>1. ASSUME NEW n \in 0..4
      PROVE  ToSet(SubSeq(<<"context", "node", "executor", "thread">>, 1, n)) \subseteq PartNames
  <2> DEFINE s == <<"context", "node", "executor", "thread">>
  <2>1. s \in Seq(PartNames) /\ Len(s) = 4
        BY DEF PartNames
  <2>2. SubSeq(s, 1, n) \in Seq(PartNames)
    <3> HIDE DEF s
    <3>1. \A i \in 1..n : s[i] \in PartNames
          BY <2>1
    <3> QED BY <3>1, SubSeqProperties
  <2> QED BY <2>2 DEF ToSet
<1>2. ToSet(Parts) \subseteq PartNames
      BY DEF ToSet, Parts, PartNames
<1> QED BY <1>1, <1>2 DEF Built

\* A factory that answers success has ended its parts for good.
LEMMA CloseFactoryFades ==
    ASSUME OwnerTyped, OldIsDead, NEW k \in Controllers, NEW success, CloseFactory(k, success)
    PROVE  /\ factory' \in [Controllers -> FactoryRecords]
           /\ \A j \in Controllers :
                 /\ factory'[j].live \subseteq factory[j].live
                 /\ factory'[j].adapter = factory[j].adapter
                 /\ factory[j].closed => factory'[j].closed
                 /\ factory'[j].closed => factory'[j].live = {}
           /\ success => factory'[k].closed
<1>1. CASE factory[k].closed
      BY <1>1 DEF CloseFactory, OwnerTyped, OldIsDead
<1>2. CASE ~factory[k].closed
  <2>1. PICK left \in AfterClosing(factory[k].live) :
           /\ success = (left = {})
           /\ factory' = [factory EXCEPT ![k].live = left, ![k].closed = success]
        BY <1>2 DEF CloseFactory
  <2>2. left \subseteq factory[k].live
        BY ClosingShrinks
  <2>3. factory[k] \in FactoryRecords
        BY DEF OwnerTyped
  <2>4. factory' = [factory EXCEPT ![k] = [factory[k] EXCEPT !.live = left, !.closed = (left = {})]]
        BY <2>1 DEF OwnerTyped
  <2>5. [factory[k] EXCEPT !.live = left, !.closed = (left = {})] \in FactoryRecords
        BY <2>2, <2>3 DEF FactoryRecords
  <2>6. factory' \in [Controllers -> FactoryRecords]
        BY <2>4, <2>5 DEF OwnerTyped
  <2>7. /\ factory'[k].live = left /\ factory'[k].adapter = factory[k].adapter
        /\ factory'[k].closed = (left = {})
        BY <2>3, <2>4 DEF OwnerTyped, FactoryRecords
  <2>8. \A j \in Controllers \ {k} : factory'[j] = factory[j]
        BY <2>4 DEF OwnerTyped
  <2> QED BY <1>2, <2>1, <2>2, <2>6, <2>7, <2>8 DEF OldIsDead
<1> QED BY <1>1, <1>2

\* A record changes the gateway it is of, and neither an issuer nor the audit.
LEMMA RecordAdvances ==
    ASSUME OwnerTyped, NEW k \in Controllers, NEW state \in GatewayStates, Record(k, state)
    PROVE  /\ controller' \in [Controllers -> ControllerRecords]
           /\ \A j \in Controllers : KeepsDown(j)
           /\ \A j \in Controllers \ {k} : controller'[j] = controller[j]
           /\ controller'[k].gateway # NoGateway
<1> USE OwnerAssumption
<1>1. controller[k] \in ControllerRecords
      BY DEF OwnerTyped
<1>2. CASE controller[k].audit
  <2>1. controller' = [controller EXCEPT ![k] = [controller[k] EXCEPT !.gateway = state]]
        BY <1>2 DEF Record, OwnerTyped
  <2>2. [controller[k] EXCEPT !.gateway = state] \in ControllerRecords
        BY <1>1 DEF ControllerRecords
  <2>3. /\ [controller[k] EXCEPT !.gateway = state].issuer = controller[k].issuer
        /\ [controller[k] EXCEPT !.gateway = state].audit = controller[k].audit
        /\ [controller[k] EXCEPT !.gateway = state].gateway # NoGateway
        BY <1>1 DEF ControllerRecords
  <2> QED BY <2>1, <2>2, <2>3 DEF OwnerTyped, KeepsDown
<1>3. CASE ~controller[k].audit
  <2>1. controller' = [controller EXCEPT ![k] =
                          [controller[k] EXCEPT !.quarantined = TRUE, !.gateway = "ESTOPPED"]]
        BY <1>3 DEF Record, OwnerTyped
  <2>2. [controller[k] EXCEPT !.quarantined = TRUE, !.gateway = "ESTOPPED"] \in ControllerRecords
        BY <1>1 DEF ControllerRecords, GatewayStates
  <2>3. /\ [controller[k] EXCEPT !.quarantined = TRUE, !.gateway = "ESTOPPED"].issuer
              = controller[k].issuer
        /\ [controller[k] EXCEPT !.quarantined = TRUE, !.gateway = "ESTOPPED"].audit
              = controller[k].audit
        /\ [controller[k] EXCEPT !.quarantined = TRUE, !.gateway = "ESTOPPED"].gateway # NoGateway
        BY <1>1 DEF ControllerRecords, GatewayStates
  <2> QED BY <2>1, <2>2, <2>3 DEF OwnerTyped, KeepsDown
<1> QED BY <1>2, <1>3

-----------------------------------------------------------------------------
(* One step per operation.                                                 *)

\* The record of a transition of a gateway that is there.
LEMMA RecordStep ==
    ASSUME OwnerInv, NEW t \in Threads, NEW k \in Controllers, using[t] = k, at[t] # "idle",
           UNCHANGED <<process, factory, history>>, Return(t),
           NEW state \in GatewayStates, controller[k].gateway # NoGateway,
           Record(k, state) \/ UNCHANGED controller
    PROVE  OwnerInv'
<1> USE DEF OwnerInv
<1>1. controller' \in [Controllers -> ControllerRecords]
      BY RecordAdvances DEF OwnerTyped
<1>2. \A j \in Controllers : /\ KeepsDown(j)
                             /\ j # k => controller'[j] = controller[j]
                             /\ j = k => controller'[j].gateway # NoGateway
      BY RecordAdvances DEF KeepsDown
<1>3. \A u \in Threads : at'[u] = "judge" => using[u] # k
      BY DEF Return, Go, OwnerTyped, JudgeIsAlone
<1>4. factory[k].adapter
      BY DEF JudgeIsAlone
<1>5. \A j \in Controllers : controller'[j].gateway # controller[j].gateway =>
                                /\ controller'[j].gateway # NoGateway
                                /\ factory[j].adapter
                                /\ \A u \in Threads : at'[u] = "judge" => using[u] # j
      BY <1>2, <1>3, <1>4
<1>6. ok' \in [Threads -> BOOLEAN] /\ \A u \in Threads \ {t} : ok'[u] = ok[u]
      BY DEF Return, OwnerTyped
<1>7. /\ at' = [at EXCEPT ![t] = "idle"] /\ using' = [using EXCEPT ![t] = 0]
      /\ "idle" \in Places
      BY DEF Return, Go, Places
<1>8. factory' \in [Controllers -> FactoryRecords] /\ stopped' \subseteq Controllers
      BY DEF OwnerTyped, history
<1>9. \A j \in Controllers : /\ factory'[j].closed => factory'[j].live = {}
                             /\ j # singleton => factory'[j].live = {}
      BY DEF OldIsDead
<1>10. UNCHANGED <<singleton, created, closing, factory, stopped, missed>>
      BY DEF process, history
<1>11. /\ \A j \in Controllers :
             /\ factory[j].closed => factory'[j].closed
             /\ factory[j].adapter => factory'[j].adapter
             /\ KeepsDown(j)
       /\ \A j \in stopped' \ stopped : factory'[j].closed /\ Down(j)'
       BY <1>2, <1>10
<1> HIDE DEF OwnerInv
<1> QED BY <1>1, <1>5, <1>6, <1>7, <1>8, <1>9, <1>10, <1>11, ThreadStep

\* A step that changes neither a controller nor a factory.
LEMMA MoveStep ==
    ASSUME OwnerInv, NEW t \in Threads, NEW k \in Controllers, using[t] = k, at[t] # "idle",
           UNCHANGED <<process, controller, factory, history>>,
           NEW place \in Places \ {"judge", "bind", "announce", "issuer", "factory", "closed"}, Go(t, place),
           \/ using' = using
           \/ place = "idle" /\ using' = [using EXCEPT ![t] = 0],
           ok' \in [Threads -> BOOLEAN], \A u \in Threads \ {t} : ok'[u] = ok[u]
    PROVE  OwnerInv'
<1> USE DEF OwnerInv
<1>1. /\ controller' \in [Controllers -> ControllerRecords]
      /\ factory' \in [Controllers -> FactoryRecords]
      /\ stopped' \subseteq Controllers
      BY DEF OwnerTyped, history
<1>2. \A j \in Controllers : /\ factory'[j].closed => factory'[j].live = {}
                             /\ j # singleton => factory'[j].live = {}
      BY DEF OldIsDead
<1>3. /\ UNCHANGED <<singleton, created, closing, controller, factory, stopped, missed>>
      /\ at' = [at EXCEPT ![t] = place]
      BY DEF process, history, Go
<1>4. \A j \in Controllers : KeepsDown(j)
      BY <1>3 DEF KeepsDown
<1> QED BY <1>1, <1>2, <1>3, <1>4, ThreadStep

\* A step that changes one field of a controller other than the gateway.
LEMMA FieldStep ==
    ASSUME OwnerInv, NEW t \in Threads, NEW k \in Controllers, using[t] = k, at[t] # "idle",
           UNCHANGED <<process, factory, thread, stopped>>, missed \subseteq missed',
           NEW place \in Places \ {"idle", "judge", "bind", "closed"}, Go(t, place),
           controller' \in [Controllers -> ControllerRecords],
           \A j \in Controllers \ {k} : controller'[j] = controller[j],
           controller'[k].gateway = controller[k].gateway,
           KeepsDown(k),
           place = "announce" => controller[k].gateway # NoGateway,
           place = "issuer" => ~controller'[k].audit,
           place = "factory" => Down(k)'
    PROVE  OwnerInv'
<1> USE DEF OwnerInv
<1>1. \A j \in Controllers : /\ factory[j].closed => factory[j].live = {}
                             /\ j # singleton => factory[j].live = {}
      BY DEF OldIsDead
<1>2. /\ UNCHANGED <<singleton, created, closing, factory, using, ok, stopped>>
      /\ at' = [at EXCEPT ![t] = place]
      BY DEF process, thread, Go
<1>3. /\ factory' \in [Controllers -> FactoryRecords]
      /\ stopped' \subseteq Controllers
      /\ ok' \in [Threads -> BOOLEAN]
      BY <1>2 DEF OwnerTyped
<1>4. \A j \in Controllers :
         /\ factory[j].closed => factory'[j].closed
         /\ factory[j].adapter => factory'[j].adapter
         /\ factory'[j].closed => factory'[j].live = {}
         /\ j # singleton => factory'[j].live = {}
         /\ KeepsDown(j)
         /\ controller'[j].gateway = controller[j].gateway
      BY <1>1, <1>2 DEF KeepsDown
<1>5. stopped' \ stopped = {}
      BY <1>2
<1> HIDE DEF OwnerInv
<1> QED BY <1>2, <1>3, <1>4, <1>5, ThreadStep

\* A transition of the gateway, made or refused.
LEMMA AdvanceStep ==
    ASSUME OwnerInv, NEW t \in Threads, NEW k \in Controllers, using[t] = k, at[t] # "idle",
           NEW from \in GatewayStates, NEW to \in GatewayStates, Advance(t, k, from, to)
    PROVE  OwnerInv'
<1>1. UNCHANGED <<process, factory, history>> /\ Return(t)
      BY DEF Advance
<1>2. CASE controller[k].gateway = from
      BY <1>1, <1>2, RecordStep, OwnerAssumption DEF Advance
<1>3. CASE controller[k].gateway # from
  <2>1. UNCHANGED controller
        BY <1>3 DEF Advance
  <2>2. /\ "idle" \in Places \ {"judge", "bind", "announce", "issuer", "factory", "closed"} /\ Go(t, "idle")
        /\ using' = [using EXCEPT ![t] = 0]
        /\ ok' \in [Threads -> BOOLEAN] /\ \A u \in Threads \ {t} : ok'[u] = ok[u]
        BY <1>1 DEF Return, OwnerInv, OwnerTyped, Places
  <2> QED BY <1>1, <2>1, <2>2, MoveStep
<1> QED BY <1>2, <1>3

\* Of the discovery, what keeps to the controller.
LEMMA DiscoverSteps ==
    ASSUME OwnerInv, NEW t \in Threads, NEW k \in Controllers, using[t] = k,
           Discover(t, k) \/ Install(t, k) \/ Bind(t, k) \/ Announce(t, k)
    PROVE  OwnerInv'
<1>0. /\ OwnerTyped /\ JudgeIsAlone
      /\ controller[k] \in ControllerRecords
      BY DEF OwnerInv, OwnerTyped
<1>1. CASE Discover(t, k)
  <2>1. at[t] = "discover" /\ UNCHANGED <<process, controller, factory, history>>
        BY <1>1 DEF Discover, Leave, runtime
  <2>2. CASE Go(t, "make") /\ UNCHANGED thread
        BY <1>0, <2>1, <2>2, MoveStep DEF thread, OwnerTyped, Places
  <2>3. CASE Return(t)
        BY <1>0, <2>1, <2>3, MoveStep DEF Return, OwnerTyped, Places
  <2> QED BY <1>1, <2>2, <2>3 DEF Discover, Leave
<1>2. CASE Install(t, k)
  <2> DEFINE new == [controller[k] EXCEPT !.gateway = "NEW"]
  <2>1. /\ at[t] = "judge" /\ at' = [at EXCEPT ![t] = "bind"]
        /\ controller' = [controller EXCEPT ![k] = new]
        /\ UNCHANGED <<singleton, created, closing, factory, using, ok, stopped, missed>>
        BY <1>0, <1>2 DEF Install, Go, process, thread, history, OwnerTyped
  <2>2. /\ new \in ControllerRecords /\ new.gateway # NoGateway
        /\ new.issuer = controller[k].issuer /\ new.audit = controller[k].audit
        BY <1>0, OwnerAssumption DEF ControllerRecords, GatewayStates
  <2>3. /\ controller'[k].gateway # NoGateway
        /\ controller' \in [Controllers -> ControllerRecords]
        /\ \A j \in Controllers : KeepsDown(j)
        /\ \A j \in Controllers \ {k} : controller'[j] = controller[j]
    <3> HIDE DEF new
    <3> QED BY <1>0, <2>1, <2>2 DEF OwnerTyped, KeepsDown
  <2>4. factory[k].adapter
        BY <1>0, <2>1 DEF JudgeIsAlone
  <2>5. \A u \in Threads : at'[u] = "judge" => using[u] # k
        BY <1>0, <2>1 DEF JudgeIsAlone, OwnerTyped
  <2>6. \A j \in Controllers : controller'[j].gateway # controller[j].gateway =>
                                  /\ controller'[j].gateway # NoGateway
                                  /\ factory[j].adapter
                                  /\ \A u \in Threads : at'[u] = "judge" => using[u] # j
        BY <2>3, <2>4, <2>5
  <2>7. /\ factory' \in [Controllers -> FactoryRecords] /\ stopped' \subseteq Controllers
        /\ ok' \in [Threads -> BOOLEAN] /\ "bind" \in Places
        BY <1>0, <2>1 DEF OwnerTyped, Places
  <2>8. \A j \in Controllers : /\ factory'[j].closed => factory'[j].live = {}
                               /\ j # singleton => factory'[j].live = {}
        BY <2>1 DEF OldIsDead, OwnerInv
  <2>9. /\ \A j \in Controllers :
              /\ factory[j].closed => factory'[j].closed
              /\ factory[j].adapter => factory'[j].adapter
              /\ factory'[j].closed => factory'[j].live = {}
              /\ j # singleton => factory'[j].live = {}
              /\ KeepsDown(j)
              /\ controller'[j].gateway # controller[j].gateway =>
                    /\ controller'[j].gateway # NoGateway
                    /\ factory[j].adapter
                    /\ \A u \in Threads : at'[u] = "judge" => using[u] # j
        /\ \A j \in stopped' \ stopped : factory'[j].closed /\ Down(j)'
        BY <2>1, <2>3, <2>6, <2>8
  <2>10. at[t] # "idle" /\ controller'[k].gateway # NoGateway
         BY <2>1, <2>3
  <2> HIDE DEF new
  <2> QED BY <2>1, <2>3, <2>7, <2>9, <2>10, ThreadStep
<1>3. CASE Bind(t, k)
  <2>1. at[t] = "bind" /\ UNCHANGED <<process, factory, history>>
        BY <1>3 DEF Bind, Fault
  <2>2. CASE /\ controller[k].issuer # "closed" /\ Go(t, "announce") /\ UNCHANGED thread
             /\ controller' = [controller EXCEPT ![k].issuer = "started"]
    <3> DEFINE new == [controller[k] EXCEPT !.issuer = "started"]
    <3>1. /\ controller' = [controller EXCEPT ![k] = new]
          /\ "announce" \in Places \ {"idle", "judge", "bind", "closed"}
          BY <1>0, <2>2 DEF OwnerTyped, Places
    <3>2. /\ new \in ControllerRecords /\ new.gateway = controller[k].gateway
          /\ new.audit = controller[k].audit
          BY <1>0 DEF ControllerRecords
    <3>3. at[t] # "idle" /\ Go(t, "announce") /\ controller[k].gateway # NoGateway
          BY <1>0, <2>1, <2>2 DEF JudgeIsAlone
    <3> HIDE DEF new
    <3>4. /\ controller' \in [Controllers -> ControllerRecords]
          /\ \A j \in Controllers \ {k} : controller'[j] = controller[j]
          /\ controller'[k].gateway = controller[k].gateway
          /\ KeepsDown(k)
          BY <1>0, <2>2, <3>1, <3>2 DEF OwnerTyped, KeepsDown
    <3>5. UNCHANGED stopped /\ missed \subseteq missed'
          BY <2>1 DEF history
    <3> QED BY <2>1, <2>2, <3>1, <3>3, <3>4, <3>5, FieldStep
  <2>3. CASE Fault(k) /\ Return(t)
    <3>1. Record(k, "ESTOPPED") \/ UNCHANGED controller
          BY <2>3 DEF Fault
    <3>2. "ESTOPPED" \in GatewayStates /\ controller[k].gateway # NoGateway
          BY <1>0, <2>1 DEF JudgeIsAlone, GatewayStates
    <3> QED BY <2>1, <2>3, <3>1, <3>2, RecordStep
  <2> QED BY <1>3, <2>2, <2>3 DEF Bind
<1>4. CASE Announce(t, k)
  <2>1. CASE at[t] = "announce" /\ Advance(t, k, "NEW", "DISCOVERED")
        BY <2>1, AdvanceStep DEF GatewayStates
  <2>2. CASE /\ at[t] = "announce" /\ Fault(k) /\ Return(t)
             /\ UNCHANGED <<process, history>>
    <3>1. /\ Record(k, "ESTOPPED") \/ UNCHANGED controller
          /\ UNCHANGED <<process, factory, history>>
          BY <2>2 DEF Fault
    <3>2. "ESTOPPED" \in GatewayStates /\ controller[k].gateway # NoGateway
          BY <1>0, <2>2 DEF JudgeIsAlone, GatewayStates
    <3> QED BY <2>2, <3>1, <3>2, RecordStep
  <2> QED BY <1>4, <2>1, <2>2 DEF Announce
<1> QED BY <1>1, <1>2, <1>3, <1>4

\* Validation and arming.
LEMMA ArmSteps ==
    ASSUME OwnerInv, NEW t \in Threads, NEW k \in Controllers, using[t] = k,
           Validate(t, k) \/ Arm(t, k)
    PROVE  OwnerInv'
<1>1. CASE Leave(t) /\ at[t] # "idle"
  <2>1. /\ UNCHANGED <<process, controller, factory, history>>
        /\ "idle" \in Places \ {"judge", "bind", "announce", "issuer", "factory", "closed"} /\ Go(t, "idle")
        /\ using' = [using EXCEPT ![t] = 0]
        /\ ok' \in [Threads -> BOOLEAN] /\ \A u \in Threads \ {t} : ok'[u] = ok[u]
        BY <1>1 DEF Leave, Return, runtime, OwnerInv, OwnerTyped, Places
  <2> QED BY <1>1, <2>1, MoveStep
<1>2. CASE at[t] = "validate" /\ Advance(t, k, "DISCOVERED", "VALIDATED")
      BY <1>2, AdvanceStep DEF GatewayStates
<1>3. CASE at[t] = "arm" /\ Advance(t, k, "VALIDATED", "ARMED")
      BY <1>3, AdvanceStep DEF GatewayStates
<1>4. CASE /\ at[t] = "validate" /\ Fault(k) /\ Return(t) /\ UNCHANGED <<process, history>>
           /\ controller[k].gateway # NoGateway
  <2>1. /\ Record(k, "ESTOPPED") \/ UNCHANGED controller
        /\ UNCHANGED <<process, factory, history>>
        /\ "ESTOPPED" \in GatewayStates
        BY <1>4 DEF Fault, GatewayStates
  <2> QED BY <1>4, <2>1, RecordStep
<1> QED BY <1>1, <1>2, <1>3, <1>4 DEF Validate, Arm

\* The stop, as far as the factory.
LEMMA StopSteps ==
    ASSUME OwnerInv, NEW t \in Threads, NEW k \in Controllers, using[t] = k,
           Halt(t, k) \/ CloseAudit(t, k) \/ CloseIssuer(t, k)
    PROVE  OwnerInv'
<1>0. controller[k] \in ControllerRecords /\ controller \in [Controllers -> ControllerRecords]
      BY DEF OwnerInv, OwnerTyped
<1>1. CASE Halt(t, k)
  <2>1. /\ UNCHANGED <<process, controller, factory, history>> /\ using' = using
        /\ at[t] # "idle"
        /\ "audit" \in Places \ {"judge", "bind", "announce", "issuer", "factory", "closed"} /\ Go(t, "audit")
        BY <1>1 DEF Halt, runtime, Places
  <2>2. PICK success \in BOOLEAN : ok' = [ok EXCEPT ![t] = success /\ ~controller[k].poisoned]
        BY <1>1 DEF Halt
  <2>3. (success /\ ~controller[k].poisoned) \in BOOLEAN
        OBVIOUS
  <2>4. ok' \in [Threads -> BOOLEAN] /\ \A u \in Threads \ {t} : ok'[u] = ok[u]
        BY <2>2, <2>3 DEF OwnerInv, OwnerTyped
  <2> QED BY <2>1, <2>4, MoveStep
<1>2. CASE CloseAudit(t, k)
  <2> DEFINE new == [controller[k] EXCEPT !.audit = FALSE]
  <2>1. /\ controller' = [controller EXCEPT ![k] = new]
        /\ UNCHANGED <<process, factory, thread, stopped, missed>>
        /\ at[t] # "idle"
        /\ "issuer" \in Places \ {"idle", "judge", "bind", "closed"} /\ Go(t, "issuer")
        BY <1>0, <1>2 DEF CloseAudit, history, Places
  <2>2. new \in ControllerRecords /\ new.gateway = controller[k].gateway
        /\ new.issuer = controller[k].issuer /\ new.audit = FALSE
        BY <1>0 DEF ControllerRecords
  <2> HIDE DEF new
  <2>3. /\ controller' \in [Controllers -> ControllerRecords]
        /\ \A j \in Controllers \ {k} : controller'[j] = controller[j]
        /\ controller'[k].gateway = controller[k].gateway
        /\ KeepsDown(k) /\ ~controller'[k].audit
        BY <1>0, <2>1, <2>2 DEF KeepsDown
  <2> QED BY <2>1, <2>3, FieldStep
<1>3. CASE CloseIssuer(t, k)
  <2>1. /\ UNCHANGED <<process, factory, thread, stopped>>
        /\ at[t] # "idle"
        /\ "factory" \in Places \ {"idle", "judge", "bind", "closed"} /\ Go(t, "factory")
        /\ ~controller[k].audit
        BY <1>3 DEF CloseIssuer, OwnerInv, StopReaches, Places
  <2>2. CASE missed' = missed \cup {k} /\ UNCHANGED controller
    <3>1. KeepsDown(k) /\ Down(k)' /\ missed \subseteq missed'
          BY <2>1, <2>2 DEF KeepsDown, Down
    <3> QED BY <1>0, <2>1, <2>2, <3>1, FieldStep
  <2>3. CASE /\ controller' = [controller EXCEPT ![k].issuer = "closed"]
             /\ UNCHANGED missed
    <3> DEFINE new == [controller[k] EXCEPT !.issuer = "closed"]
    <3>1. controller' = [controller EXCEPT ![k] = new]
          BY <1>0, <2>3
    <3>2. /\ new \in ControllerRecords /\ new.gateway = controller[k].gateway
          /\ new.issuer = "closed" /\ new.audit = controller[k].audit
          BY <1>0 DEF ControllerRecords
    <3> HIDE DEF new
    <3>3. /\ controller' \in [Controllers -> ControllerRecords]
          /\ \A j \in Controllers \ {k} : controller'[j] = controller[j]
          /\ controller'[k].gateway = controller[k].gateway
          /\ KeepsDown(k) /\ Down(k)' /\ missed \subseteq missed'
          BY <1>0, <2>1, <2>3, <3>1, <3>2 DEF KeepsDown, Down
    <3> QED BY <2>1, <3>3, FieldStep
  <2> QED BY <1>3, <2>2, <2>3 DEF CloseIssuer
<1> QED BY <1>1, <1>2, <1>3

\* A step in which the factory's parts end.
LEMMA FadeStep ==
    ASSUME OwnerInv, NEW t \in Threads, NEW k \in Controllers, using[t] = k, at[t] # "idle",
           UNCHANGED process,
           NEW place \in Places \ {"judge", "bind", "announce", "issuer", "factory"}, Go(t, place),
           using' = using \/ using' = [using EXCEPT ![t] = 0],
           using' = using \/ place = "idle",
           ok' \in [Threads -> BOOLEAN], \A u \in Threads \ {t} : ok'[u] = ok[u],
           NEW success \in BOOLEAN, CloseFactory(k, success),
           place # "closed" \/ (ok'[t] => success),
           controller' \in [Controllers -> ControllerRecords],
           \A j \in Controllers : /\ KeepsDown(j)
                                  /\ controller'[j].gateway = controller[j].gateway,
           UNCHANGED missed,
           \/ stopped' = stopped
           \/ stopped' = stopped \cup {k} /\ success /\ Down(k)
    PROVE  OwnerInv'
<1>1. OwnerTyped /\ OldIsDead
      BY DEF OwnerInv
<1>2. /\ factory' \in [Controllers -> FactoryRecords]
      /\ \A j \in Controllers : /\ factory'[j].live \subseteq factory[j].live
                                /\ factory'[j].adapter = factory[j].adapter
                                /\ factory[j].closed => factory'[j].closed
                                /\ factory'[j].closed => factory'[j].live = {}
      /\ success => factory'[k].closed
      BY <1>1, CloseFactoryFades
<1>3. \A j \in Controllers : j # singleton => factory'[j].live = {}
      BY <1>1, <1>2 DEF OldIsDead
<1>4. stopped' \subseteq Controllers
      BY <1>1 DEF OwnerTyped
<1>5. \A j \in stopped' \ stopped : factory'[j].closed /\ Down(j)'
      BY <1>2 DEF Down, KeepsDown
<1>6. /\ UNCHANGED <<singleton, created, closing>>
      /\ at' = [at EXCEPT ![t] = place]
      BY DEF process, Go
<1>7. \A j \in Controllers :
         /\ factory[j].closed => factory'[j].closed
         /\ factory[j].adapter => factory'[j].adapter
         /\ factory'[j].closed => factory'[j].live = {}
         /\ j # singleton => factory'[j].live = {}
         /\ KeepsDown(j)
         /\ controller'[j].gateway = controller[j].gateway
      BY <1>2, <1>3
<1>8. place = "closed" /\ ok'[t] => factory'[k].closed
      BY <1>2
<1> QED BY <1>2, <1>4, <1>5, <1>6, <1>7, <1>8, ThreadStep, ZenonT(60)

\* A discovery that is rejected, and the end of a stop.
LEMMA CloseSteps ==
    ASSUME OwnerInv, NEW t \in Threads, NEW k \in Controllers, using[t] = k,
           Reject(t, k) \/ StopFactory(t, k)
    PROVE  OwnerInv'
<1>0. /\ controller[k] \in ControllerRecords /\ controller \in [Controllers -> ControllerRecords]
      /\ ok \in [Threads -> BOOLEAN]
      BY DEF OwnerInv, OwnerTyped
<1>1. CASE Reject(t, k)
  <2>1. PICK success \in BOOLEAN :
           /\ CloseFactory(k, success)
           /\ controller' = [controller EXCEPT ![k].poisoned = controller[k].poisoned \/ ~success]
        BY <1>1 DEF Reject
  <2> DEFINE new == [controller[k] EXCEPT !.poisoned = (controller[k].poisoned \/ ~success)]
  <2>2. controller' = [controller EXCEPT ![k] = new]
        BY <1>0, <2>1
  <2>3. new \in ControllerRecords /\ new.gateway = controller[k].gateway
        /\ new.issuer = controller[k].issuer /\ new.audit = controller[k].audit
    <3>1. (controller[k].poisoned \/ ~success) \in BOOLEAN
          OBVIOUS
    <3> QED BY <1>0, <3>1 DEF ControllerRecords
  <2> HIDE DEF new
  <2>4. /\ controller' \in [Controllers -> ControllerRecords]
        /\ \A j \in Controllers : /\ KeepsDown(j)
                                  /\ controller'[j].gateway = controller[j].gateway
        BY <1>0, <2>2, <2>3 DEF KeepsDown
  <2>5. /\ at[t] # "idle" /\ UNCHANGED <<process, stopped, missed>>
        /\ "idle" \in Places \ {"judge", "bind", "announce", "issuer", "factory"} /\ Go(t, "idle")
        /\ using' = [using EXCEPT ![t] = 0]
        /\ ok' \in [Threads -> BOOLEAN] /\ \A u \in Threads \ {t} : ok'[u] = ok[u]
        BY <1>0, <1>1 DEF Reject, Return, history, Places
  <2>6. /\ CloseFactory(k, success)
        /\ using' = using \/ using' = [using EXCEPT ![t] = 0]
        /\ "idle" # "closed" \/ (ok'[t] => success)
        /\ \/ stopped' = stopped
           \/ stopped' = stopped \cup {k} /\ success /\ Down(k)
        BY <2>1, <2>5
  <2> QED BY <2>4, <2>5, <2>6, FadeStep
<1>2. CASE StopFactory(t, k)
  <2>1. PICK success \in BOOLEAN :
           /\ CloseFactory(k, success)
           /\ stopped' = IF ok[t] /\ success THEN stopped \cup {k} ELSE stopped
           /\ IF t \in Closers
              THEN Go(t, "closed") /\ ok' = [ok EXCEPT ![t] = @ /\ success] /\ UNCHANGED using
              ELSE Return(t)
        BY <1>2 DEF StopFactory
  <2>2. at[t] = "factory" /\ UNCHANGED <<process, controller, missed>>
        BY <1>2 DEF StopFactory
  <2>3. /\ Down(k) /\ at[t] # "idle"
        /\ controller' \in [Controllers -> ControllerRecords]
        /\ \A j \in Controllers : /\ KeepsDown(j)
                                  /\ controller'[j].gateway = controller[j].gateway
        BY <1>0, <2>2 DEF OwnerInv, StopReaches, KeepsDown
  <2>4. \/ stopped' = stopped
        \/ stopped' = stopped \cup {k} /\ success /\ Down(k)
        BY <2>1, <2>3
  <2>5. CASE t \in Closers
    <3>1. (ok[t] /\ success) \in BOOLEAN
          OBVIOUS
    <3>2. ok' = [ok EXCEPT ![t] = (ok[t] /\ success)]
          BY <2>1, <2>5
    <3>3. /\ ok' \in [Threads -> BOOLEAN] /\ \A u \in Threads \ {t} : ok'[u] = ok[u]
          /\ ok'[t] => success
          BY <1>0, <3>1, <3>2
    <3>4. /\ "closed" \in Places \ {"judge", "bind", "announce", "issuer", "factory"} /\ Go(t, "closed")
          /\ using' = using
          BY <2>1, <2>5 DEF Places
    <3> QED BY <2>1, <2>2, <2>3, <2>4, <3>3, <3>4, FadeStep
  <2>6. CASE t \notin Closers
    <3>1. /\ "idle" \in Places \ {"judge", "bind", "announce", "issuer", "factory"} /\ Go(t, "idle")
          /\ using' = [using EXCEPT ![t] = 0]
          /\ ok' \in [Threads -> BOOLEAN] /\ \A u \in Threads \ {t} : ok'[u] = ok[u]
          BY <1>0, <2>1, <2>6 DEF Return, Places
    <3>2. /\ using' = using \/ using' = [using EXCEPT ![t] = 0]
          /\ "idle" # "closed" \/ (ok'[t] => success)
          BY <3>1
    <3> QED BY <2>1, <2>2, <2>3, <2>4, <3>1, <3>2, FadeStep
  <2> QED BY <2>5, <2>6
<1> QED BY <1>1, <1>2

\* A call of the factory: only one that is open and has made no adapter yet
\* gives anything to its controller, which is the singleton.
LEMMA MakeStep ==
    ASSUME OwnerInv, NEW t \in Threads, NEW k \in Controllers, using[t] = k, Make(t, k)
    PROVE  OwnerInv'
<1>0. OwnerTyped /\ OldIsDead /\ JudgeIsAlone /\ factory[k] \in FactoryRecords
      BY DEF OwnerInv, OwnerTyped
<1>1. at[t] = "make" /\ UNCHANGED <<process, controller, history>>
      BY DEF Make
<1>2. CASE UNCHANGED factory /\ Return(t)
  <2>1. /\ "idle" \in Places \ {"judge", "bind", "announce", "issuer", "factory", "closed"} /\ Go(t, "idle")
        /\ using' = [using EXCEPT ![t] = 0]
        /\ ok' \in [Threads -> BOOLEAN] /\ \A u \in Threads \ {t} : ok'[u] = ok[u]
        BY <1>0, <1>2 DEF Return, OwnerTyped, Places
  <2> QED BY <1>1, <1>2, <2>1, MoveStep
<1>3. ASSUME MayMake(k), NEW new \in FactoryRecords, factory' = [factory EXCEPT ![k] = new],
             new.closed = FALSE
      PROVE  /\ factory' \in [Controllers -> FactoryRecords]
             /\ \A j \in Controllers :
                   /\ factory[j].closed => factory'[j].closed
                   /\ factory[j].adapter => factory'[j].adapter
                   /\ factory'[j].closed => factory'[j].live = {}
                   /\ j # singleton => factory'[j].live = {}
  <2>1. ~factory[k].closed /\ ~factory[k].adapter
        BY <1>3 DEF MayMake
  <2>2. k = singleton
        BY <1>0, <2>1 DEF OldIsDead
  <2> QED BY <1>0, <1>3, <2>1, <2>2 DEF OldIsDead, OwnerTyped
<1>4. CASE /\ MayMake(k) /\ Return(t)
           /\ \E left \in Leftovers(k) : factory' = [factory EXCEPT ![k].live = left]
  <2>1. PICK left \in Leftovers(k) : factory' = [factory EXCEPT ![k].live = left]
        BY <1>4
  <2>2. left \subseteq PartNames
        BY <1>0, ClosingShrinks, BuiltFromParts DEF Leftovers, FactoryRecords
  <2> DEFINE new == [factory[k] EXCEPT !.live = left]
  <2>3. new \in FactoryRecords /\ new.closed = FALSE /\ factory' = [factory EXCEPT ![k] = new]
        BY <1>0, <1>4, <2>1, <2>2 DEF FactoryRecords, MayMake, OwnerTyped
  <2> HIDE DEF new
  <2>4. /\ UNCHANGED <<singleton, created, closing, controller, stopped, missed>>
        /\ at[t] # "idle" /\ "idle" \in Places /\ at' = [at EXCEPT ![t] = "idle"]
        /\ using' = [using EXCEPT ![t] = 0]
        /\ ok' \in [Threads -> BOOLEAN] /\ \A u \in Threads \ {t} : ok'[u] = ok[u]
        /\ controller' \in [Controllers -> ControllerRecords] /\ stopped' \subseteq Controllers
        BY <1>0, <1>1, <1>4 DEF Return, Go, process, history, OwnerTyped, Places
  <2>5. /\ factory' \in [Controllers -> FactoryRecords]
        /\ \A j \in Controllers :
              /\ factory[j].closed => factory'[j].closed
              /\ factory[j].adapter => factory'[j].adapter
              /\ factory'[j].closed => factory'[j].live = {}
              /\ j # singleton => factory'[j].live = {}
              /\ KeepsDown(j)
        BY <1>3, <1>4, <2>3, <2>4 DEF KeepsDown
  <2> QED BY <2>4, <2>5, ThreadStep
<1>5. CASE /\ MayMake(k) /\ Go(t, "judge") /\ UNCHANGED thread
           /\ factory' = [factory EXCEPT ![k].live = ToSet(Parts), ![k].adapter = TRUE]
  <2> DEFINE new == [factory[k] EXCEPT !.live = ToSet(Parts), !.adapter = TRUE]
  <2>1. /\ new \in FactoryRecords /\ new.closed = FALSE /\ new.adapter = TRUE
        /\ factory' = [factory EXCEPT ![k] = new]
        BY <1>0, <1>5, BuiltFromParts DEF FactoryRecords, MayMake, OwnerTyped
  <2> HIDE DEF new
  <2>2. /\ UNCHANGED <<singleton, created, closing, controller, using, ok, stopped, missed>>
        /\ at[t] # "idle" /\ at[t] # "judge" /\ "judge" \in Places /\ at' = [at EXCEPT ![t] = "judge"]
        /\ ok' \in [Threads -> BOOLEAN]
        /\ controller' \in [Controllers -> ControllerRecords] /\ stopped' \subseteq Controllers
        BY <1>0, <1>1, <1>5 DEF Go, process, thread, history, OwnerTyped, Places
  <2>3. /\ factory' \in [Controllers -> FactoryRecords]
        /\ \A j \in Controllers :
              /\ factory[j].closed => factory'[j].closed
              /\ factory[j].adapter => factory'[j].adapter
              /\ factory'[j].closed => factory'[j].live = {}
              /\ j # singleton => factory'[j].live = {}
              /\ KeepsDown(j)
        BY <1>3, <1>5, <2>1, <2>2 DEF KeepsDown
  <2>4. factory'[k].adapter
        BY <1>0, <2>1 DEF OwnerTyped
  <2>5. /\ controller'[k].gateway = NoGateway
        /\ \A u \in Threads : at[u] = "judge" => using[u] # k
        BY <1>0, <1>5, <2>2 DEF MayMake, JudgeIsAlone
  <2> QED BY <2>2, <2>3, <2>4, <2>5, ThreadStep, ZenonT(60)
<1> QED BY <1>2, <1>4, <1>5 DEF Make

\* A call that gets the controller: an old one is dead, and a new one is nobody's.
LEMMA GetStep ==
    ASSUME OwnerInv, NEW t \in Callers, NEW place \in {"discover", "validate", "arm", "halt"},
           Get(t, place)
    PROVE  OwnerInv'
<1> USE DEF OwnerInv
<1>0. /\ t \in Threads /\ t \notin Closers
      /\ place \in Places /\ place \notin {"idle", "judge", "bind", "announce", "issuer", "factory", "closed"}
      BY OwnerAssumption DEF Threads, Places
<1>1. /\ at[t] = "idle" /\ ~closing
      /\ at' = [at EXCEPT ![t] = place]
      /\ UNCHANGED <<closing, factory, ok, stopped, missed>>
      BY DEF Get, Go, process, runtime, history
<1>2. /\ singleton' \in 1..created' /\ created' \in 0..MaxControllers /\ created <= created'
      /\ singleton # 0 => singleton' = singleton
      /\ using' = [using EXCEPT ![t] = singleton']
      BY OwnerAssumption DEF Get, OwnerTyped, process
<1>3. /\ controller' \in [Controllers -> ControllerRecords]
      /\ \A j \in Controllers : /\ KeepsDown(j)
                                /\ controller'[j].gateway = controller[j].gateway
  <2>1. CASE UNCHANGED controller
        BY <2>1 DEF OwnerTyped, KeepsDown
  <2>2. CASE /\ created < MaxControllers
             /\ controller' = [controller EXCEPT ![created + 1].quarantined = Quarantined]
    <3> DEFINE new == [controller[created + 1] EXCEPT !.quarantined = Quarantined]
    <3>1. created + 1 \in Controllers
          BY <2>2, OwnerAssumption DEF OwnerTyped, Controllers
    <3>2. controller[created + 1] \in ControllerRecords /\ Quarantined \in BOOLEAN
          BY <3>1 DEF OwnerTyped, Quarantined
    <3>3. /\ new \in ControllerRecords /\ new.issuer = controller[created + 1].issuer
          /\ new.audit = controller[created + 1].audit
          /\ new.gateway = controller[created + 1].gateway
          BY <3>2 DEF ControllerRecords
    <3>4. controller' = [controller EXCEPT ![created + 1] = new]
          BY <2>2, <3>1 DEF OwnerTyped
    <3> HIDE DEF new
    <3> QED BY <3>1, <3>3, <3>4 DEF OwnerTyped, KeepsDown
  <2> QED BY <2>1, <2>2 DEF Get, runtime
<1>4. OwnerTyped'
  <2>1. at' \in [Threads -> Places] /\ using' \in [Threads -> 0..created']
        BY <1>0, <1>1, <1>2, OwnerAssumption DEF OwnerTyped
  <2> QED BY <1>1, <1>2, <1>3, <2>1, OwnerAssumption DEF OwnerTyped
<1>5. \A u \in Threads \ {t} : at'[u] = at[u] /\ using'[u] = using[u]
      BY <1>1, <1>2 DEF OwnerTyped
<1>6. at'[t] = place /\ using'[t] = singleton'
      BY <1>0, <1>1, <1>2 DEF OwnerTyped
<1>7. OneCloser'
      BY <1>0, <1>1, <1>5 DEF OneCloser, Threads
<1>8. OldIsDead'
  <2>1. ASSUME NEW j \in Controllers, j # singleton'
        PROVE  j # singleton
        BY <1>2, <2>1, OwnerAssumption DEF Controllers, OwnerTyped
  <2> QED BY <1>1, <1>5, <1>6, <2>1 DEF OldIsDead
<1>9. StopReaches'
      BY <1>0, <1>1, <1>3, <1>5, <1>6 DEF StopReaches, OwnerTyped, KeepsDown, Down
<1>10. JudgeIsAlone'
       BY <1>0, <1>1, <1>3, <1>5, <1>6 DEF JudgeIsAlone
<1> QED BY <1>4, <1>7, <1>8, <1>9, <1>10

\* Closing the singleton begins, and ends in dropping it if it has stopped.
LEMMA SingletonSteps ==
    ASSUME OwnerInv, NEW x \in Closers, CloseBegin(x) \/ CloseEnd(x)
    PROVE  OwnerInv'
<1> USE DEF OwnerInv
<1>0. x \in Threads
      BY DEF Threads
<1>1. CASE CloseBegin(x)
  <2>1. /\ at[x] = "idle" /\ ~closing /\ closing' = TRUE
        /\ at' = [at EXCEPT ![x] = "halt"]
        /\ using' = [using EXCEPT ![x] = singleton]
        /\ UNCHANGED <<singleton, created, controller, factory, ok, stopped, missed>>
        BY <1>1 DEF CloseBegin, Go, runtime, history
  <2>2. /\ \A u \in Threads \ {x} : at'[u] = at[u] /\ using'[u] = using[u]
        /\ at'[x] = "halt" /\ using'[x] = singleton
        BY <1>0, <2>1 DEF OwnerTyped
  <2>3. \A y \in Closers \ {x} : at'[y] = "idle"
        BY <2>1, <2>2 DEF OneCloser, Threads
  <2>4. OwnerTyped'
    <3>1. "halt" \in Places
          BY DEF Places
    <3> QED BY <2>1, <3>1 DEF OwnerTyped
  <2>5. OneCloser'
        BY <2>1, <2>2, <2>3 DEF OneCloser
  <2>6. OldIsDead'
        BY <2>1, <2>2 DEF OldIsDead
  <2>7. StopReaches' /\ JudgeIsAlone'
        BY <2>1, <2>2 DEF StopReaches, Down, JudgeIsAlone
  <2> QED BY <2>4, <2>5, <2>6, <2>7
<1>2. CASE CloseEnd(x)
  <2>1. /\ at[x] = "closed" /\ closing' = FALSE
        /\ singleton' = IF ok[x] THEN 0 ELSE singleton
        /\ at' = [at EXCEPT ![x] = "idle"]
        /\ using' = [using EXCEPT ![x] = 0]
        /\ ok' = [ok EXCEPT ![x] = TRUE]
        /\ UNCHANGED <<created, controller, factory, stopped, missed>>
        BY <1>2 DEF CloseEnd, Return, Go, runtime, history
  <2>2. /\ \A u \in Threads \ {x} : at'[u] = at[u] /\ using'[u] = using[u] /\ ok'[u] = ok[u]
        /\ at'[x] = "idle" /\ using'[x] = 0
        BY <1>0, <2>1 DEF OwnerTyped
  <2>3. /\ using[x] = singleton
        /\ \A y \in Closers : at'[y] = "idle"
        BY <1>0, <2>1, <2>2 DEF OneCloser, Threads
  <2>4. OwnerTyped'
    <3>1. at' \in [Threads -> Places] /\ ok' \in [Threads -> BOOLEAN]
          BY <1>0, <2>1 DEF OwnerTyped, Places
    <3>2. using' \in [Threads -> 0..created'] /\ singleton' \in 0..created'
          BY <1>0, <2>1, OwnerAssumption DEF OwnerTyped
    <3> QED BY <2>1, <3>1, <3>2 DEF OwnerTyped
  <2>5. OneCloser'
        BY <2>1, <2>3 DEF OneCloser
  <2>6. OldIsDead'
    <3>1. ASSUME NEW j \in Controllers, j # singleton', j = singleton
          PROVE  factory[j].closed
      <4>1. ok[x]
            BY <2>1, <3>1
      <4> QED BY <1>0, <2>1, <2>3, <3>1, <4>1 DEF StopReaches
    <3> QED BY <2>1, <2>2, <3>1 DEF OldIsDead, Controllers
  <2>7. StopReaches' /\ JudgeIsAlone'
        BY <2>1, <2>2 DEF StopReaches, Down, JudgeIsAlone
  <2> QED BY <2>4, <2>5, <2>6, <2>7
<1> QED BY <1>1, <1>2

\* Nothing of a runtime outlives its process.
LEMMA RestartStep == OwnerInv /\ Restart => OwnerInv'
<1> SUFFICES ASSUME OwnerInv, Restart PROVE OwnerInv'
    OBVIOUS
<1>1. /\ singleton' = 0 /\ closing' = FALSE /\ stopped' = {} /\ created' = created
      /\ controller' = [k \in Controllers |-> NewController]
      /\ factory' = [k \in Controllers |-> NewFactory]
      /\ at' = [t \in Threads |-> "idle"]
      /\ using' = [t \in Threads |-> 0]
      /\ ok' = [t \in Threads |-> TRUE]
      BY DEF Restart
<1>2. NewController \in ControllerRecords /\ NewFactory \in FactoryRecords
      BY DEF NewController, ControllerRecords, NewFactory, FactoryRecords
<1>3. created \in 0..MaxControllers
      BY DEF OwnerInv, OwnerTyped
<1>4. OwnerTyped'
  <2>1. controller' \in [Controllers -> ControllerRecords] /\ factory' \in [Controllers -> FactoryRecords]
        BY <1>1, <1>2
  <2>2. at' \in [Threads -> Places] /\ ok' \in [Threads -> BOOLEAN]
        BY <1>1 DEF Places
  <2>3. 0 \in 0..created /\ using' \in [Threads -> 0..created]
        BY <1>1, <1>3, OwnerAssumption
  <2>4. singleton' \in 0..created' /\ closing' \in BOOLEAN /\ stopped' \subseteq Controllers
        BY <1>1, <2>3
  <2> QED BY <1>1, <1>3, <2>1, <2>2, <2>3, <2>4 DEF OwnerTyped
<1>5. OneCloser' /\ OldIsDead'
      BY <1>1 DEF OneCloser, OldIsDead, NewFactory, Controllers, Threads
<1>6. StopReaches' /\ JudgeIsAlone'
      BY <1>1 DEF StopReaches, JudgeIsAlone, NewController, NewFactory, Threads
<1> QED BY <1>4, <1>5, <1>6 DEF OwnerInv

LEMMA OwnerStutters == OwnerInv /\ UNCHANGED owner => OwnerInv'
BY DEF OwnerInv, OwnerTyped, OneCloser, OldIsDead, StopReaches, Down, JudgeIsAlone, owner, process,
       runtime, thread, history

LEMMA OwnerNextInv == OwnerInv /\ [OwnerNext]_owner => OwnerInv'
<1> SUFFICES ASSUME OwnerInv, [OwnerNext]_owner PROVE OwnerInv'
    OBVIOUS
<1>1. ASSUME NEW t \in Callers, Call(t)
      PROVE  OwnerInv'
      BY <1>1, GetStep DEF Call
<1>2. ASSUME NEW t \in Callers, NEW k \in Controllers \cap {using[t]}, ToolStep(t, k)
      PROVE  OwnerInv'
  <2>1. t \in Threads /\ k \in Controllers /\ using[t] = k
        BY <1>2 DEF Threads
  <2> QED BY <1>2, <2>1, DiscoverSteps, MakeStep, CloseSteps, ArmSteps DEF ToolStep
<1>3. ASSUME NEW x \in Closers, CloseBegin(x) \/ CloseEnd(x)
      PROVE  OwnerInv'
      BY <1>3, SingletonSteps
<1>4. ASSUME NEW t \in Threads, NEW k \in Controllers \cap {using[t]}, StopStep(t, k)
      PROVE  OwnerInv'
      BY <1>4, StopSteps, CloseSteps DEF StopStep
<1>5. CASE Restart
      BY <1>5, RestartStep
<1>6. CASE UNCHANGED owner
      BY <1>6, OwnerStutters
<1> QED BY <1>1, <1>2, <1>3, <1>4, <1>5, <1>6 DEF OwnerNext

\* The invariant holds of every behaviour.
THEOREM OwnerInvariant == OwnerSpec => []OwnerInv
<1>1. OwnerInit => OwnerInv
      BY OwnerInitInv
<1>2. OwnerInv /\ [OwnerNext]_owner => OwnerInv'
      BY OwnerNextInv
<1> QED BY <1>1, <1>2, PTL DEF OwnerSpec

\* At most one controller owns ROS resources, for any number of tool calls,
\* closers and controllers (get_runtime_controller against close).
THEOREM OwnerOneRuntime == OwnerSpec => []OneRuntime
<1>1. OwnerInv => OneRuntime
  <2> SUFFICES ASSUME OwnerInv PROVE OneRuntime
      OBVIOUS
  <2> DEFINE Owning == {k \in Controllers : factory[k].live # {}}
  <2>1. Owning \subseteq {singleton}
        BY DEF OwnerInv, OldIsDead
  <2>2. IsFiniteSet({singleton}) /\ Cardinality({singleton}) = 1
        BY FS_Singleton
  <2>3. Cardinality(Owning) <= 1
        BY <2>1, <2>2, FS_Subset
  <2> QED BY <2>3 DEF OneRuntime
<1> QED BY <1>1, OwnerInvariant, PTL

\* A controller whose stop_runtime() has answered owns nothing and issues no
\* permit, ever after, unless the stop met an adapter that was not bound yet; then
\* its audit takes no record, without which no task starts.
THEOREM OwnerStoppedStaysDown == OwnerSpec => []StoppedStaysDown
<1>1. OwnerInv => StoppedStaysDown
      BY DEF OwnerInv, OwnerTyped, StopReaches, Down, OldIsDead, StoppedStaysDown
<1> QED BY <1>1, OwnerInvariant, PTL

\* Of any number of discoveries at once one gets to install its gateway.
THEOREM OwnerOneGateway == OwnerSpec => []OneGateway
<1>1. OwnerInv => OneGateway
  <2> SUFFICES ASSUME OwnerInv, NEW t \in Callers, at[t] = "judge"
               PROVE  controller[using[t]].gateway = NoGateway
      BY DEF OneGateway
  <2>1. t \in Threads
        BY DEF Threads
  <2> QED BY <2>1 DEF OwnerInv, JudgeIsAlone
<1> QED BY <1>1, OwnerInvariant, PTL

-----------------------------------------------------------------------------
(* The operator's challenge: the inductive invariant.                      *)

Copies == Records \cup {NoRecord}

ConsumerPlaces == {"idle", "lock", "read", "judge", "write", "accepted", "refused"}

Typed == /\ record \in Copies /\ draft \in Copies
         /\ issued \subseteq Tokens
         /\ holder \in Consumers \cup {Nil}
         /\ step \in [Consumers -> ConsumerPlaces]
         /\ presented \in [Consumers -> Tokens \cup {Nil}]
         /\ read \in [Consumers -> Copies]
         /\ uses \in [Tokens -> Nat]
         /\ now \in Nat /\ boot \in Nat

\* Only the holder of the lock is between reading and answering.
Exclusive == \A c \in Consumers : step[c] \in {"read", "judge", "write"} => holder = c

\* A record not marked used is of a token that was issued and never accepted.
Fresh(copy) == ~copy.used => copy.token \in issued /\ uses[copy.token] = 0

\* The holder's copy is as fresh as the record, and the one it is about to mark
\* is of the token it presents.
CopiesFresh == /\ Fresh(record) /\ Fresh(draft)
               /\ \A c \in Consumers :
                     /\ step[c] \in {"judge", "write"} => Fresh(read[c])
                     /\ step[c] = "write" => ~read[c].used /\ read[c].token = presented[c]

\* A draft is of a token no copy of the record has seen.
DraftUnseen == draft # NoRecord => /\ record.token # draft.token
                                   /\ \A c \in Consumers : read[c].token # draft.token
                                   /\ draft.token \in issued

\* A token not issued is on no record.
Unissued == \A t \in Tokens \ issued : /\ record.token # t
                                       /\ \A c \in Consumers : read[c].token # t
                                       /\ uses[t] = 0

ChallengeInv == Typed /\ Exclusive /\ CopiesFresh /\ DraftUnseen /\ Unissued /\ SingleUse

\* The parts of a record, and what marking it changes.
LEMMA CopyParts ==
    \A copy \in Copies : /\ copy.used \in BOOLEAN
                         /\ copy.token \in Tokens \cup {Nil}
                         /\ ~copy.used => copy.token \in Tokens
                         /\ Used(copy) \in Copies
                         /\ Used(copy).used
                         /\ Used(copy).token = copy.token
<1> SUFFICES ASSUME NEW copy \in Copies
             PROVE  /\ copy.used \in BOOLEAN
                    /\ copy.token \in Tokens \cup {Nil}
                    /\ ~copy.used => copy.token \in Tokens
                    /\ Used(copy) \in Copies
    BY DEF Used
<1>1. CASE copy \in Records
    BY <1>1 DEF Copies, Records, Used
<1>2. CASE copy = NoRecord
  <2>1. copy.used /\ copy.token = Nil
        BY <1>2 DEF NoRecord
  <2>2. Used(copy) = NoRecord
        BY <1>2 DEF NoRecord, Used
  <2> QED BY <2>1, <2>2 DEF Copies
<1> QED BY <1>1, <1>2 DEF Copies

LEMMA ChallengeInitInv == ChallengeInit => ChallengeInv
BY ChallengeAssumption DEF ChallengeInit, ChallengeInv, Typed, Exclusive, CopiesFresh, DraftUnseen,
      Unissued, SingleUse, Fresh, Copies, Records, NoRecord, ConsumerPlaces

\* The operator draws a token no copy has seen, and writes it to the record.
LEMMA OperatorStep ==
    ASSUME ChallengeInv, OperatorNext
    PROVE  ChallengeInv'
<1> USE DEF Fresh
<1>1. /\ NoRecord \in Copies /\ NoRecord.used /\ NoRecord.token = Nil
      /\ \A t \in Tokens : t # Nil
      BY ChallengeAssumption DEF NoRecord, Copies
<1>2. ASSUME NEW t \in Tokens, DrawToken(t)
      PROVE  ChallengeInv'
  <2>1. now + TimeToLive \in Nat
        BY ChallengeAssumption DEF ChallengeInv, Typed
  <2>2. draft' \in Records /\ draft'.token = t /\ ~draft'.used
        BY <1>2, <2>1 DEF DrawToken, Records, ChallengeInv, Typed
  <2>3. Typed'
        BY <1>2, <2>2 DEF DrawToken, ChallengeInv, Typed, Copies
  <2>4. Exclusive'
        BY <1>2 DEF DrawToken, ChallengeInv, Exclusive
  <2>5. CopiesFresh'
        BY <1>2, <2>2 DEF DrawToken, ChallengeInv, CopiesFresh, Unissued
  <2>6. DraftUnseen'
        BY <1>2, <2>2 DEF DrawToken, ChallengeInv, DraftUnseen, Unissued
  <2>7. Unissued' /\ SingleUse'
        BY <1>2 DEF DrawToken, ChallengeInv, Unissued, SingleUse
  <2> QED BY <2>3, <2>4, <2>5, <2>6, <2>7 DEF ChallengeInv
<1>3. CASE WriteChallenge
  <2>1. Typed' /\ Exclusive'
        BY <1>1, <1>3 DEF WriteChallenge, ChallengeInv, Typed, Exclusive
  <2>2. CopiesFresh'
        BY <1>1, <1>3 DEF WriteChallenge, ChallengeInv, CopiesFresh
  <2>3. DraftUnseen'
        BY <1>3 DEF WriteChallenge, DraftUnseen
  <2>4. Unissued' /\ SingleUse'
        BY <1>3 DEF WriteChallenge, ChallengeInv, Unissued, SingleUse, DraftUnseen
  <2> QED BY <2>1, <2>2, <2>3, <2>4 DEF ChallengeInv
<1> QED BY <1>2, <1>3 DEF OperatorNext

\* A consumer answers: it drops its copy and its lock, whatever it has written.
LEMMA AnswerStep ==
    ASSUME ChallengeInv, NEW c \in Consumers, NEW place \in {"accepted", "refused"},
           step[c] \in {"judge", "write"}, Answer(c, place)
    PROVE  /\ step' \in [Consumers -> ConsumerPlaces] /\ holder' \in Consumers \cup {Nil}
           /\ presented' \in [Consumers -> Tokens \cup {Nil}]
           /\ read' \in [Consumers -> Copies]
           /\ Exclusive'
           /\ read'[c] = NoRecord /\ step'[c] = place
           /\ \A d \in Consumers \ {c} : step'[d] \notin {"read", "judge", "write"}
           /\ \A d \in Consumers \ {c} : read'[d] = read[d]
<1>1. holder = c
      BY DEF ChallengeInv, Exclusive
<1>2. step' \in [Consumers -> ConsumerPlaces] /\ step'[c] = place
      BY DEF Answer, At, ChallengeInv, Typed, ConsumerPlaces
<1>3. /\ read' \in [Consumers -> Copies] /\ read'[c] = NoRecord
      /\ \A d \in Consumers \ {c} : read'[d] = read[d]
      BY DEF Answer, ChallengeInv, Typed, Copies
<1>4. \A d \in Consumers \ {c} : step'[d] \notin {"read", "judge", "write"}
      BY <1>1 DEF Answer, At, ChallengeInv, Typed, Exclusive
<1>5. holder' = Nil /\ presented' \in [Consumers -> Tokens \cup {Nil}]
      BY <1>1 DEF Answer, ChallengeInv, Typed
<1> QED BY <1>2, <1>3, <1>4, <1>5 DEF Exclusive

\* A consumer waits for the lock, reads the record and judges its copy of it.
LEMMA JudgeStep ==
    ASSUME ChallengeInv, NEW c \in Consumers,
           Lock(c) \/ ReadRecord(c) \/ Judge(c)
    PROVE  ChallengeInv'
<1> USE DEF Fresh
<1>1. /\ NoRecord \in Copies /\ NoRecord.used /\ NoRecord.token = Nil
      /\ \A t \in Tokens : t # Nil
      BY ChallengeAssumption DEF NoRecord, Copies
<1>2. CASE Lock(c)
  <2>1. Typed'
        BY <1>2 DEF Lock, At, ChallengeInv, Typed, ConsumerPlaces
  <2>2. Exclusive'
        BY <1>2, ChallengeAssumption DEF Lock, At, ChallengeInv, Typed, Exclusive
  <2>3. CopiesFresh' /\ DraftUnseen' /\ Unissued' /\ SingleUse'
        BY <1>2 DEF Lock, At, ChallengeInv, Typed, CopiesFresh, DraftUnseen, Unissued, SingleUse
  <2> QED BY <2>1, <2>2, <2>3 DEF ChallengeInv
<1>3. CASE ReadRecord(c)
  <2>1. Typed'
        BY <1>3 DEF ReadRecord, At, ChallengeInv, Typed, ConsumerPlaces
  <2>2. Exclusive'
        BY <1>3 DEF ReadRecord, At, ChallengeInv, Typed, Exclusive
  <2>3. CopiesFresh'
        BY <1>3 DEF ReadRecord, At, ChallengeInv, Typed, CopiesFresh
  <2>4. DraftUnseen' /\ Unissued' /\ SingleUse'
        BY <1>3 DEF ReadRecord, ChallengeInv, Typed, DraftUnseen, Unissued, SingleUse
  <2> QED BY <2>1, <2>2, <2>3, <2>4 DEF ChallengeInv
<1>4. ASSUME Judge(c), Valid(c)
      PROVE  ChallengeInv'
  <2>0. /\ step[c] = "judge" /\ At(c, "write")
        /\ UNCHANGED <<record, draft, issued, holder, presented, read, uses, now, boot>>
        BY <1>4 DEF Judge
  <2>1. Typed' /\ Exclusive'
        BY <2>0 DEF At, ChallengeInv, Typed, ConsumerPlaces, Exclusive
  <2>2. CopiesFresh'
        BY <2>0, <1>4 DEF At, ChallengeInv, Typed, CopiesFresh, Valid
  <2>3. DraftUnseen' /\ Unissued' /\ SingleUse'
        BY <2>0 DEF ChallengeInv, DraftUnseen, Unissued, SingleUse
  <2> QED BY <2>1, <2>2, <2>3 DEF ChallengeInv
<1>5. ASSUME Judge(c), ~Valid(c)
      PROVE  ChallengeInv'
  <2>0. step[c] = "judge" /\ Answer(c, "refused") /\ UNCHANGED <<record, uses>>
        BY <1>5 DEF Judge
  <2>1. UNCHANGED <<record, uses, draft, issued, now, boot>>
        BY <2>0 DEF Answer
  <2>2. Typed' /\ Exclusive'
        BY <2>0, <2>1, AnswerStep DEF ChallengeInv, Typed
  <2>3. CopiesFresh'
        BY <2>0, <2>1, AnswerStep DEF ChallengeInv, CopiesFresh
  <2>4. DraftUnseen' /\ Unissued' /\ SingleUse'
        BY <1>1, <2>0, <2>1, AnswerStep DEF ChallengeInv, Typed, DraftUnseen, Unissued, SingleUse
  <2> QED BY <2>2, <2>3, <2>4 DEF ChallengeInv
<1> QED BY <1>2, <1>3, <1>4, <1>5

\* A consumer replaces the record by its copy, marked used: it is the only
\* consumer with a copy to write back, and the copy is of a token never accepted.
LEMMA MarkStep ==
    ASSUME ChallengeInv, NEW c \in Consumers,
           MarkUsed(c) \/ MarkFails(c)
    PROVE  ChallengeInv'
<1> USE DEF Fresh
<1> DEFINE token == presented[c]
<1>1. /\ NoRecord \in Copies /\ NoRecord.used /\ NoRecord.token = Nil
      /\ \A t \in Tokens : t # Nil
      BY ChallengeAssumption DEF NoRecord, Copies
<1>2. step[c] = "write" /\ \E place \in {"accepted", "refused"} : Answer(c, place)
      BY DEF MarkUsed, MarkFails
<1>3. UNCHANGED <<draft, issued, now, boot>>
      BY <1>2 DEF Answer
<1>4. read[c] \in Copies /\ ~read[c].used /\ read[c].token = token
      BY <1>2 DEF ChallengeInv, CopiesFresh, Typed
<1>5. token \in issued /\ uses[token] = 0 /\ token \in Tokens
      BY <1>2, <1>4 DEF ChallengeInv, CopiesFresh, Typed
<1>6. draft # NoRecord => draft.token # token
      BY <1>4 DEF ChallengeInv, DraftUnseen
<1>7. /\ record' \in Copies
      /\ \/ record' = record
         \/ record'.used /\ record'.token = token
      BY <1>4, CopyParts DEF MarkUsed, MarkFails, ChallengeInv, Typed
<1>8. /\ uses' \in [Tokens -> Nat]
      /\ \A t \in Tokens : t # token => uses'[t] = uses[t]
      /\ uses'[token] \in {0, 1}
      BY <1>5 DEF MarkUsed, MarkFails, ChallengeInv, Typed
<1>9. /\ Exclusive'
      /\ read'[c] = NoRecord /\ step'[c] \in {"accepted", "refused"}
      /\ \A d \in Consumers \ {c} : /\ step'[d] \notin {"read", "judge", "write"}
                                    /\ read'[d] = read[d]
      BY <1>2, AnswerStep
<1>10. Typed'
      BY <1>2, <1>3, <1>7, <1>8, AnswerStep DEF ChallengeInv, Typed
<1>11. CASE UNCHANGED uses
  <2>1. CopiesFresh'
        BY <1>3, <1>7, <1>9, <1>11 DEF ChallengeInv, CopiesFresh
  <2>2. DraftUnseen'
        BY <1>1, <1>3, <1>6, <1>7, <1>9 DEF ChallengeInv, Typed, DraftUnseen
  <2>3. Unissued' /\ SingleUse'
        BY <1>1, <1>3, <1>5, <1>7, <1>9, <1>11 DEF ChallengeInv, Unissued, SingleUse
  <2> QED BY <1>9, <1>10, <2>1, <2>2, <2>3 DEF ChallengeInv
<1>12. CASE MarkUsed(c)
  <2>1. record'.used /\ record'.token = token
        BY <1>4, <1>12, CopyParts DEF MarkUsed
  <2>2. CopiesFresh'
    <3>1. Fresh(draft)'
          BY <1>3, <1>6, <1>8, CopyParts DEF ChallengeInv, CopiesFresh, Typed, NoRecord
    <3> QED BY <2>1, <1>9, <3>1 DEF CopiesFresh
  <2>3. DraftUnseen'
        BY <1>1, <1>3, <1>6, <2>1, <1>9 DEF ChallengeInv, Typed, DraftUnseen
  <2>4. Unissued' /\ SingleUse'
        BY <1>1, <1>3, <1>5, <2>1, <1>8, <1>9 DEF ChallengeInv, Unissued, SingleUse
  <2> QED BY <1>9, <1>10, <2>2, <2>3, <2>4 DEF ChallengeInv
<1> QED BY <1>11, <1>12 DEF MarkFails

\* What no consumer does to its copy: presenting a token, taking an answer, the
\* clock, and the end of processes, which drops copies.
LEMMA OtherStep ==
    ASSUME ChallengeInv,
           \/ TimePasses \/ Reboot
           \/ \E c \in Consumers : Forget(c) \/ \E t \in issued \cup {Nil} : Present(c, t)
           \/ \E S \in SUBSET Consumers : KillConsumers(S)
           \/ UNCHANGED challenge
    PROVE  ChallengeInv'
<1> USE DEF Fresh
<1>1. /\ NoRecord \in Copies /\ NoRecord.used /\ NoRecord.token = Nil
      /\ \A t \in Tokens : t # Nil
      BY ChallengeAssumption DEF NoRecord, Copies
<1>2. CASE TimePasses \/ UNCHANGED challenge
    BY <1>2 DEF TimePasses, challenge, ChallengeInv, Typed, Exclusive, CopiesFresh, DraftUnseen,
       Unissued, SingleUse
<1>3. ASSUME NEW c \in Consumers, NEW t \in issued \cup {Nil}, Present(c, t)
      PROVE  ChallengeInv'
  <2>1. Typed' /\ Exclusive'
        BY <1>3 DEF Present, At, ChallengeInv, Typed, Exclusive, ConsumerPlaces
  <2>2. CopiesFresh' /\ DraftUnseen' /\ Unissued' /\ SingleUse'
        BY <1>3 DEF Present, At, ChallengeInv, Typed, CopiesFresh, DraftUnseen, Unissued, SingleUse
  <2> QED BY <2>1, <2>2 DEF ChallengeInv
<1>4. ASSUME NEW c \in Consumers, Forget(c)
      PROVE  ChallengeInv'
  <2>1. Typed' /\ Exclusive'
        BY <1>4 DEF Forget, At, ChallengeInv, Typed, Exclusive, ConsumerPlaces
  <2>2. CopiesFresh' /\ DraftUnseen' /\ Unissued' /\ SingleUse'
        BY <1>4 DEF Forget, At, ChallengeInv, Typed, CopiesFresh, DraftUnseen, Unissued, SingleUse
  <2> QED BY <2>1, <2>2 DEF ChallengeInv
<1>5. ASSUME NEW S \in SUBSET Consumers, Killed(S), UNCHANGED <<record, issued, uses>>,
             draft' \in {draft, NoRecord}, now' \in Nat, boot' \in Nat
      PROVE  ChallengeInv'
  <2>1. Typed'
        BY <1>1, <1>5 DEF Killed, ChallengeInv, Typed, ConsumerPlaces
  <2>2. /\ \A c \in Consumers : \/ step'[c] = step[c] /\ c \notin S /\ read'[c] = read[c]
                                   /\ presented'[c] = presented[c]
                                \/ step'[c] = "idle" /\ read'[c] = NoRecord
        BY <1>5 DEF Killed
  <2>3. Exclusive'
        BY <1>5, <2>2 DEF Killed, ChallengeInv, Exclusive
  <2>4. CopiesFresh'
        BY <1>1, <1>5, <2>2 DEF ChallengeInv, CopiesFresh
  <2>5. DraftUnseen' /\ Unissued' /\ SingleUse'
        BY <1>1, <1>5, <2>2 DEF ChallengeInv, Typed, DraftUnseen, Unissued, SingleUse
  <2> QED BY <2>1, <2>3, <2>4, <2>5 DEF ChallengeInv
<1>6. CASE Reboot
    BY <1>5, <1>6 DEF Reboot, ChallengeInv, Typed
<1>7. ASSUME NEW S \in SUBSET Consumers, KillConsumers(S)
      PROVE  ChallengeInv'
    BY <1>5, <1>7 DEF KillConsumers, ChallengeInv, Typed
<1> QED BY <1>2, <1>3, <1>4, <1>6, <1>7

LEMMA ChallengeStep == ChallengeInv /\ [ChallengeNext]_challenge => ChallengeInv'
<1> SUFFICES ASSUME ChallengeInv, [ChallengeNext]_challenge
             PROVE  ChallengeInv'
    OBVIOUS
<1>1. ASSUME NEW c \in Consumers, Consume(c)
      PROVE  ChallengeInv'
    BY <1>1, JudgeStep, MarkStep DEF Consume
<1> QED BY <1>1, OperatorStep, OtherStep DEF ChallengeNext

\* For any number of consumers, tokens, boots and any lifetime of a record, a
\* token is accepted at most once.
THEOREM ChallengeSingleUse == ChallengeSpec => []SingleUse
<1>1. ChallengeInv => SingleUse
      BY DEF ChallengeInv
<1> QED BY <1>1, ChallengeInitInv, ChallengeStep, PTL DEF ChallengeSpec

=============================================================================
