---------------------------- MODULE Startup_proofs ----------------------------
(***************************************************************************)
(* Theorems about Startup: type correctness, that nobody reaches a gNMI    *)
(* server that is not ready, and that nothing runs before the metric       *)
(* server, through any number of exits, signals and outages.               *)
(***************************************************************************)
EXTENDS Startup, TLAPS

(* What the goroutines find depends on how far main had come when it       *)
(* started them.                                                           *)
AfterGnmi == {"metrics", "state", "serve", "manage", "managing"}
AfterMetrics == {"state", "serve", "manage", "managing"}

Ready ==
    /\ proc.main \in AfterGnmi \/ proc.gnmi # "none" =>
          proc.wired /\ proc.loaded
    /\ proc.main \in AfterMetrics \/ proc.gnmi # "none" \/ proc.loop # "none"
          => proc.metrics = "listening"
    /\ proc.gnmi \in {"listening", "lost"} => proc.permits

IInv == TypeOK /\ Ready

LEMMA BlankIsProcess ==
    ASSUME NEW main \in {"manager", "exited"}
    PROVE  Blank(main) \in Processes
BY DEF Blank, Processes

LEMMA InitIInv == Init => IInv
<1> SUFFICES ASSUME Init PROVE IInv
  OBVIOUS
<1>1. proc \in Processes
  BY BlankIsProcess DEF Init
<1>2. Held = {}
  BY DEF Init, Held, Blank
<1> QED
  BY <1>1, <1>2, BoundsAssumption
  DEF Init, IInv, TypeOK, Ready, Blank, AfterGnmi, AfterMetrics

----------------------------------------------------------------------------
(* Type correctness *)

(* A process that is no more holds no port.                                *)
LEMMA BlankTyped ==
    ASSUME TypeOK, NEW main \in {"manager", "exited"},
           proc' = Blank(main), UNCHANGED environment
    PROVE  TypeOK'
<1>1. proc' \in Processes
  BY BlankIsProcess
<1>2. Held' = {}
  BY DEF Held, Blank
<1> QED
  BY <1>1, <1>2 DEF TypeOK, environment

(* A step of the process keeps the types if what it binds was free.        *)
LEMMA StepTyped ==
    ASSUME TypeOK, proc' \in Processes, UNCHANGED environment,
           Held' \cap taken = {}
    PROVE  TypeOK'
BY DEF TypeOK, environment

LEMMA MainTyped == ASSUME TypeOK, RunE PROVE TypeOK'
<1> USE DEF At
<1>1. CASE NewManager
  <2>1. CASE api /\ "manager" \notin taken
    <3>1. proc' = [proc EXCEPT !.main = "client"]
      BY <1>1, <2>1 DEF NewManager
    <3>2. proc' \in Processes
      BY <3>1 DEF TypeOK, Processes
    <3>3. Held' \subseteq Held \cup {"manager"}
      BY <3>1 DEF Held, TypeOK, Processes
    <3> QED
      BY <1>1, <2>1, <3>2, <3>3, StepTyped DEF NewManager, TypeOK
  <2>2. CASE ~(api /\ "manager" \notin taken)
    BY <1>1, <2>2, BlankTyped DEF NewManager, Exit
  <2> QED BY <2>1, <2>2
<1>2. CASE \/ (NewClient \/ NewGnmi) /\ api
           \/ NewRoot \/ SetupControllers \/ RunRestconf
           \/ GetState \/ RunGnmi \/ Manage
  <2>1. proc' \in Processes
    <3> USE DEF TypeOK, Processes
    <3>1. CASE NewClient /\ api
      BY <3>1 DEF NewClient
    <3>2. CASE NewGnmi /\ api
      <4> DEFINE half == [proc EXCEPT !.main = "metrics", !.wired = TRUE]
      <4>1. half \in Processes
        OBVIOUS
      <4>2. [half EXCEPT !.loaded = TRUE] \in Processes
        BY <4>1
      <4>3. proc' = [half EXCEPT !.loaded = TRUE]
        BY <3>2 DEF NewGnmi
      <4> QED
        BY <4>2, <4>3
    <3>3. CASE NewRoot \/ SetupControllers
      BY ZenonT(30), <3>3 DEF NewRoot, SetupControllers
    <3>4. CASE RunRestconf
      BY <3>4 DEF RunRestconf
    <3>5. CASE GetState
      BY <3>5 DEF GetState
    <3>6. CASE RunGnmi
      BY <3>6 DEF RunGnmi
    <3>7. CASE Manage
      BY <3>7 DEF Manage
    <3> QED
      BY <1>2, <3>1, <3>2, <3>3, <3>4, <3>5, <3>6, <3>7
  <2>2. Held' \subseteq Held
    BY ZenonT(30), <1>2
    DEF Held, TypeOK, Processes, NewClient, NewGnmi, NewRoot,
       SetupControllers, RunRestconf, GetState, RunGnmi, Manage
  <2>3. UNCHANGED environment
    BY <1>2 DEF NewClient, NewGnmi, NewRoot,
       SetupControllers, RunRestconf, GetState, RunGnmi, Manage
  <2> QED
    BY <2>1, <2>2, <2>3, StepTyped DEF TypeOK
<1>3. CASE (NewClient \/ NewGnmi) /\ ~api
  BY <1>3, BlankTyped DEF NewClient, NewGnmi, Exit
<1>4. CASE StartMetrics
  <2>1. proc' \in Processes
    BY <1>4 DEF TypeOK, Processes, StartMetrics
  <2>2. Held' \subseteq Held \cup {"metrics"}
    BY <1>4 DEF Held, TypeOK, Processes, StartMetrics
  <2> QED
    BY <1>4, <2>1, <2>2, StepTyped DEF TypeOK, StartMetrics
<1> QED
  BY <1>1, <1>2, <1>3, <1>4 DEF RunE

Goroutines == \/ ListenRestconf \/ MakePermits \/ ListenGnmi
              \/ AnswerRestconf \/ WatcherEnds \/ Connect \/ Reconciled

LEMMA GoroutinesTyped == ASSUME TypeOK, Goroutines PROVE TypeOK'
<1>1. CASE ListenRestconf
  <2>1. proc' \in Processes
    BY <1>1 DEF TypeOK, Processes, ListenRestconf, Outcome
  <2>2. Held' \subseteq Held \cup ({"restconf"} \ taken)
    BY <1>1 DEF Held, TypeOK, Processes, ListenRestconf, Outcome
  <2> QED
    BY <1>1, <2>1, <2>2, StepTyped DEF TypeOK, ListenRestconf
<1>2. CASE ListenGnmi
  <2>1. proc' \in Processes
    BY <1>2 DEF TypeOK, Processes, ListenGnmi, Outcome
  <2>2. Held' \subseteq Held \cup ({"gnmi"} \ taken)
    BY <1>2 DEF Held, TypeOK, Processes, ListenGnmi, Outcome
  <2> QED
    BY <1>2, <2>1, <2>2, StepTyped DEF TypeOK, ListenGnmi
<1>3. CASE MakePermits \/ AnswerRestconf \/ WatcherEnds \/ Connect \/ Reconciled
  <2>1. proc' \in Processes
    <3> USE DEF TypeOK, Processes
    <3>1. CASE AnswerRestconf
      BY <3>1 DEF AnswerRestconf
    <3>2. CASE MakePermits \/ WatcherEnds
      BY ZenonT(30), <3>2 DEF MakePermits, WatcherEnds
    <3>3. CASE Connect \/ Reconciled
      BY <3>3 DEF Connect, Reconciled
    <3> QED
      BY <1>3, <3>1, <3>2, <3>3
  <2>2. Held' = Held
    BY <1>3 DEF Held, TypeOK, Processes, MakePermits, AnswerRestconf,
       WatcherEnds, Connect, Reconciled
  <2>3. UNCHANGED environment
    BY <1>3 DEF MakePermits, AnswerRestconf, WatcherEnds, Connect, Reconciled
  <2> QED
    BY <2>1, <2>2, <2>3, StepTyped DEF TypeOK
<1> QED
  BY <1>1, <1>2, <1>3 DEF Goroutines

Outside == TakePort \/ FreePort \/ ApiGoes \/ ApiComes

LEMMA OutsideTyped == ASSUME TypeOK, Outside PROVE TypeOK'
<1>1. proc' = proc
  BY DEF Outside, TakePort, FreePort, ApiGoes, ApiComes
<1>2. Held' = Held
  BY <1>1 DEF Held
<1>3. troubles' \in 0 .. MaxTroubles
  BY BoundsAssumption
  DEF Outside, TakePort, FreePort, ApiGoes, ApiComes, Trouble, TypeOK
<1>4. api' \in BOOLEAN
  BY DEF Outside, TakePort, FreePort, ApiGoes, ApiComes, TypeOK
<1>5. taken' \subseteq Ports \ Held
  BY DEF Outside, TakePort, FreePort, ApiGoes, ApiComes, TypeOK
<1> QED
  BY <1>1, <1>2, <1>3, <1>4, <1>5 DEF TypeOK

LEMMA SignalTyped == ASSUME TypeOK, Signal PROVE TypeOK'
<1>1. proc' = Blank("exited")
  BY DEF Signal, Exit
<1>2. proc' \in Processes
  BY <1>1, BlankIsProcess
<1>3. Held' = {}
  BY <1>1 DEF Held, Blank
<1> QED
  BY <1>2, <1>3, BoundsAssumption DEF Signal, Trouble, TypeOK

LEMMA TypedNext == TypeOK /\ [Next]_vars => TypeOK'
<1> SUFFICES ASSUME TypeOK, [Next]_vars PROVE TypeOK'
  OBVIOUS
<1>1. CASE RunE \/ Goroutines \/ Outside \/ Signal
  BY <1>1, MainTyped, GoroutinesTyped, OutsideTyped, SignalTyped
<1>2. CASE StartAgain
  BY <1>2, BlankTyped DEF StartAgain
<1>3. CASE UNCHANGED vars
  BY <1>3 DEF vars, TypeOK, Held
<1> QED
  BY <1>1, <1>2, <1>3 DEF Next, Goroutines, Outside

----------------------------------------------------------------------------
(* The order of the start *)

(* A process that has done nothing yet owes nothing.                       *)
LEMMA BlankReady ==
    ASSUME NEW main \in {"manager", "exited"}, proc' = Blank(main)
    PROVE  Ready'
BY DEF Ready, Blank, AfterGnmi, AfterMetrics

LEMMA MainReady == ASSUME IInv, RunE PROVE Ready'
<1> USE DEF At, IInv, TypeOK, Processes, Ready, AfterGnmi, AfterMetrics
<1>1. CASE NewManager \/ NewClient \/ NewGnmi
  <2>1. CASE proc' = Blank("exited")
    BY <2>1, BlankReady
  <2>2. CASE proc' # Blank("exited")
    BY ZenonT(30), <1>1, <2>2 DEF NewManager, NewClient, NewGnmi, Exit
  <2> QED BY <2>1, <2>2
<1>2. CASE NewRoot \/ SetupControllers \/ RunRestconf
  <2>1. CASE NewRoot
    BY <2>1 DEF NewRoot
  <2>2. CASE SetupControllers
    BY <2>2 DEF SetupControllers
  <2>3. CASE RunRestconf
    BY <2>3 DEF RunRestconf
  <2> QED BY <1>2, <2>1, <2>2, <2>3
<1>3. CASE StartMetrics
  BY <1>3 DEF StartMetrics
<1>4. CASE GetState
  BY <1>4 DEF GetState
<1>5. CASE RunGnmi
  BY <1>5 DEF RunGnmi
<1>6. CASE Manage
  BY <1>6 DEF Manage
<1> QED
  BY <1>1, <1>2, <1>3, <1>4, <1>5, <1>6 DEF RunE

LEMMA GoroutinesReady == ASSUME IInv, Goroutines PROVE Ready'
<1> USE DEF IInv, TypeOK, Processes, Ready, AfterGnmi, AfterMetrics
<1>1. CASE ListenRestconf
  BY <1>1 DEF ListenRestconf, Outcome
<1>2. CASE MakePermits
  BY <1>2 DEF MakePermits
<1>3. CASE ListenGnmi
  BY <1>3 DEF ListenGnmi, Outcome
<1>4. CASE AnswerRestconf \/ WatcherEnds
  BY <1>4 DEF AnswerRestconf, WatcherEnds
<1>5. CASE Connect \/ Reconciled
  BY <1>5 DEF Connect, Reconciled
<1> QED
  BY <1>1, <1>2, <1>3, <1>4, <1>5 DEF Goroutines

LEMMA ReadyNext == IInv /\ [Next]_vars => Ready'
<1> SUFFICES ASSUME IInv, [Next]_vars PROVE Ready'
  OBVIOUS
<1>1. CASE RunE \/ Goroutines
  BY <1>1, MainReady, GoroutinesReady
<1>2. CASE Signal \/ StartAgain
  BY <1>2, BlankReady DEF Signal, Exit, StartAgain
<1>3. CASE Outside \/ UNCHANGED vars
  BY <1>3 DEF Outside, TakePort, FreePort, ApiGoes, ApiComes, vars, IInv, Ready
<1> QED
  BY <1>1, <1>2, <1>3 DEF Next, Goroutines, Outside

LEMMA SpecInv == Spec => []IInv
<1>1. IInv /\ [Next]_vars => IInv'
  BY TypedNext, ReadyNext DEF IInv
<1> QED
  BY <1>1, InitIInv, PTL DEF Spec

----------------------------------------------------------------------------
(* The theorems *)

(* Every process that start.go can come to is one of Processes, and no     *)
(* port has two holders.                                                   *)
THEOREM TypeCorrect == Spec => []TypeOK
<1>1. IInv => TypeOK
  BY DEF IInv
<1> QED BY <1>1, SpecInv, PTL

(* Whoever reaches the gNMI server finds it ready (gnmiserver/server.go,   *)
(* New and Start, called in this order by start.go).                       *)
THEOREM AnswersAreReadyHolds == Spec => []AnswersAreReady
<1>1. IInv => AnswersAreReady
  BY DEF IInv, Ready, AnswersAreReady
<1> QED BY <1>1, SpecInv, PTL

(* Without a metric server there is no gNMI server and no reconciler       *)
(* (start.go:199 and metricserver/server.go, Start).                       *)
THEOREM NothingBeforeMetricsHolds == Spec => []NothingBeforeMetrics
<1>1. IInv => NothingBeforeMetrics
  BY DEF IInv, Ready, NothingBeforeMetrics
<1> QED BY <1>1, SpecInv, PTL
===============================================================================
