------------------------------- MODULE Startup -------------------------------
(***************************************************************************)
(* The life of the process: RunE of cmd/intent/start.go, which makes the   *)
(* caches, the servers and the controllers in a fixed order, and the       *)
(* goroutines that it leaves behind: the target watcher, the listeners of  *)
(* restconf and of the gNMI server, and the reconciler, which is a client  *)
(* of that gNMI server.                                                    *)
(*                                                                         *)
(* The environment holds ports, takes the API server away, ends the        *)
(* process and starts it again.  What the servers answer is the subject of *)
(* the other modules.                                                      *)
(***************************************************************************)
EXTENDS Naturals

CONSTANT
    MaxTroubles   \* bound: ports taken, outages of the API server, signals

ASSUME BoundsAssumption == MaxTroubles \in Nat

VARIABLES
    proc,         \* the process
    api,          \* the API server answers
    taken,        \* ports that somebody else holds
    troubles

vars == <<proc, api, taken, troubles>>
environment == <<api, taken, troubles>>

Ports == {"manager", "restconf", "gnmi", "metrics"}

(* main: the step of RunE that is to come; watcher: the goroutine of       *)
(* NewTarget; wired: cache events have their handlers; loaded: the state   *)
(* cache has what Kubernetes knows; permits: the semaphores exist; loop:   *)
(* the reconciler; reply: what restconf has written to its last client.    *)
Processes ==
    [main : {"manager", "client", "root", "setup", "restconf", "gnmi",
             "metrics", "state", "serve", "manage", "managing", "exited"},
     watcher : {"none", "polling", "dead"},
     wired : BOOLEAN, loaded : BOOLEAN, permits : BOOLEAN,
     restconf : {"none", "starting", "listening", "lost"},
     gnmi     : {"none", "starting", "listening", "lost"},
     metrics  : {"none", "listening"},
     loop : {"none", "idle", "connected"},
     reply : SUBSET {"error", "document"}]

(* A process that has done nothing yet, or is no more.                     *)
Blank(main) ==
    [main |-> main, watcher |-> "none", wired |-> FALSE, loaded |-> FALSE,
     permits |-> FALSE, restconf |-> "none", gnmi |-> "none",
     metrics |-> "none", loop |-> "none", reply |-> {}]

(* The manager's own ports are bound when it is made.                      *)
Held == {p \in {"restconf", "gnmi", "metrics"} : proc[p] = "listening"}
        \cup IF proc.main \in {"manager", "exited"} THEN {} ELSE {"manager"}

TypeOK ==
    /\ proc \in Processes
    /\ api \in BOOLEAN
    /\ taken \subseteq Ports \ Held
    /\ troubles \in 0 .. MaxTroubles

Init ==
    /\ proc = Blank("manager")
    /\ api \in BOOLEAN /\ taken \in SUBSET Ports
    /\ troubles = 0

----------------------------------------------------------------------------
(* RunE *)

At(step) == proc.main = step /\ UNCHANGED environment

(* An error that RunE returns ends the process.                            *)
Exit == proc' = Blank("exited")

(* ctrl.NewManager asks the API server and binds two ports.                *)
NewManager ==
    /\ At("manager")
    /\ IF api /\ "manager" \notin taken
       THEN proc' = [proc EXCEPT !.main = "client"]
       ELSE Exit

(* kapi.New: a client has the API server tell it what there is.            *)
NewClient ==
    /\ At("client")
    /\ IF api THEN proc' = [proc EXCEPT !.main = "root"] ELSE Exit

(* applogic.NewRoot: the watcher polls from here on, before there is any   *)
(* server and anything to observe it.                                      *)
NewRoot ==
    /\ At("root")
    /\ proc' = [proc EXCEPT !.main = "setup", !.watcher = "polling"]

(* controllers.Setup registers the reconciler, for the manager to start.   *)
SetupControllers ==
    /\ At("setup")
    /\ proc' = [proc EXCEPT !.main = "restconf"]

(* rcs.Run spawns the listener and never returns an error.                 *)
RunRestconf ==
    /\ At("restconf")
    /\ proc' = [proc EXCEPT !.main = "gnmi", !.restconf = "starting"]

(* gnmiserver.New: the handlers of cache events, then GetInitialState.     *)
NewGnmi ==
    /\ At("gnmi")
    /\ IF api
       THEN proc' = [proc EXCEPT !.main = "metrics",
                                 !.wired = TRUE, !.loaded = TRUE]
       ELSE Exit

(* Seeded fault: the metric server is spawned like the others.             *)
StartMetricsSpawned ==
    /\ At("metrics")
    /\ proc' = [proc EXCEPT !.main = "state",
                    !.metrics = IF "metrics" \in taken THEN @ ELSE "listening"]

(* ms.Start is called, not spawned: it sleeps and tries again until it     *)
(* listens, and so long RunE does not go on.                               *)
StartMetrics ==
    /\ At("metrics") /\ "metrics" \notin taken
    /\ proc' = [proc EXCEPT !.main = "state", !.metrics = "listening"]

(* gs.GetState, to log it.                                                 *)
GetState == At("state") /\ proc' = [proc EXCEPT !.main = "serve"]

(* gs.Run spawns Start and never returns an error.                         *)
RunGnmi ==
    /\ At("serve")
    /\ proc' = [proc EXCEPT !.main = "manage", !.gnmi = "starting"]

(* mgr.Start: the probes are answered and the reconciler runs.             *)
Manage ==
    /\ At("manage")
    /\ proc' = [proc EXCEPT !.main = "managing", !.loop = "idle"]

RunE == \/ NewManager \/ NewClient \/ NewRoot \/ SetupControllers
        \/ RunRestconf \/ NewGnmi \/ StartMetrics \/ GetState
        \/ RunGnmi \/ Manage

----------------------------------------------------------------------------
(* The goroutines *)

(* Seeded fault: nobody asks who holds the port.                           *)
OutcomeUnchecked(port) == IF port \in Ports THEN "listening" ELSE "lost"

(* A listener that cannot have its port hands its error to a channel that  *)
(* nobody reads, and is gone.                                              *)
Outcome(port) == IF port \in taken THEN "lost" ELSE "listening"

ListenRestconf ==
    /\ proc.restconf = "starting"
    /\ proc' = [proc EXCEPT !.restconf = Outcome("restconf")]
    /\ UNCHANGED environment

(* gnmiserver.Start makes the semaphores ...                               *)
MakePermits ==
    /\ proc.gnmi = "starting" /\ ~proc.permits
    /\ proc' = [proc EXCEPT !.permits = TRUE]
    /\ UNCHANGED environment

(* Seeded fault: it serves before it makes them.                           *)
ListenGnmiAtOnce ==
    /\ proc.gnmi = "starting"
    /\ proc' = [proc EXCEPT !.gnmi = Outcome("gnmi")]
    /\ UNCHANGED environment

(* ... and then serves.                                                    *)
ListenGnmi ==
    /\ proc.gnmi = "starting" /\ proc.permits
    /\ proc' = [proc EXCEPT !.gnmi = Outcome("gnmi")]
    /\ UNCHANGED environment

(* handleRestconf: the document follows, also after an error.              *)
AnswerRestconf ==
    /\ proc.restconf = "listening"
    /\ \E r \in {{"document"}, {"error", "document"}} :
         proc' = [proc EXCEPT !.reply = r]
    /\ UNCHANGED environment

(* targetWatcher: a List that fails ends it.                               *)
WatcherEnds ==
    /\ proc.watcher = "polling" /\ ~api
    /\ proc' = [proc EXCEPT !.watcher = "dead"]
    /\ UNCHANGED environment

(* Every reconcile dials the program's own gNMI server first; as long as   *)
(* nobody listens there it fails and is tried again.                       *)
Connect ==
    /\ proc.loop = "idle" /\ api /\ proc.gnmi = "listening"
    /\ proc' = [proc EXCEPT !.loop = "connected"]
    /\ UNCHANGED environment

(* Seeded fault: a reconcile that the API server interrupts hangs.         *)
ReconciledIfAnswered ==
    /\ proc.loop = "connected"
    /\ proc' = [proc EXCEPT !.loop = IF api THEN "idle" ELSE "none"]
    /\ UNCHANGED environment

(* It is over; the next one comes after the poll interval.                 *)
Reconciled ==
    /\ proc.loop = "connected"
    /\ proc' = [proc EXCEPT !.loop = "idle"]
    /\ UNCHANGED environment

----------------------------------------------------------------------------
(* The environment *)

Trouble == troubles < MaxTroubles /\ troubles' = troubles + 1

TakePort ==
    /\ Trouble
    /\ \E p \in Ports \ (Held \cup taken) : taken' = taken \cup {p}
    /\ UNCHANGED <<proc, api>>

FreePort ==
    /\ \E p \in taken : taken' = taken \ {p}
    /\ UNCHANGED <<proc, api, troubles>>

ApiGoes == Trouble /\ api /\ api' = FALSE /\ UNCHANGED <<proc, taken>>

ApiComes == ~api /\ api' = TRUE /\ UNCHANGED <<proc, taken, troubles>>

(* A signal.  No server is shut down, the process ends.                    *)
Signal == Trouble /\ proc.main # "exited" /\ Exit /\ UNCHANGED <<api, taken>>

(* The kubelet starts the container again.                                 *)
StartAgain ==
    /\ proc.main = "exited" /\ proc' = Blank("manager")
    /\ UNCHANGED environment

----------------------------------------------------------------------------
Next ==
    \/ RunE
    \/ ListenRestconf \/ MakePermits \/ ListenGnmi \/ AnswerRestconf
    \/ WatcherEnds \/ Connect \/ Reconciled
    \/ TakePort \/ FreePort \/ ApiGoes \/ ApiComes \/ Signal \/ StartAgain

Spec == Init /\ [][Next]_vars

(* Goroutines run, sleeps end, and the kubelet does its work.              *)
FairSpec ==
    /\ Spec
    /\ WF_vars(RunE) /\ WF_vars(StartAgain)
    /\ WF_vars(MakePermits \/ ListenGnmi)
    /\ WF_vars(Connect \/ Reconciled)

----------------------------------------------------------------------------
(* Properties *)

(* Whoever reaches the gNMI server finds its semaphores made, the cache    *)
(* events wired and the initial state loaded, though it is main that does  *)
(* the one and a goroutine the other (gnmiserver/server.go:163-184,        *)
(* 206-218).                                                               *)
AnswersAreReady ==
    proc.gnmi = "listening" => proc.permits /\ proc.wired /\ proc.loaded

(* As long as the metric server has no port the configuration stands       *)
(* still: there is neither a gNMI server nor a reconciler (start.go:199).  *)
NothingBeforeMetrics ==
    proc.metrics # "listening" => proc.gnmi = "none" /\ proc.loop = "none"

EnvironmentIsFine == api /\ taken = {}

(* Once the ports are free and the API server answers, the process comes   *)
(* to manage with its metric server up, through exits, signals and retries *)
(* (start.go:71-224, metricserver/server.go:139-165).                      *)
ComesUp == <>[]EnvironmentIsFine =>
               <>[](proc.main = "managing" /\ proc.metrics = "listening")

(* Then the reconciler reaches the gNMI server again and again, unless the *)
(* one moment at which the server asked for its port was the wrong one     *)
(* (gnmiserver/server.go:206-211, 223).                                    *)
Reconciles == <>[]EnvironmentIsFine =>
                  []<>(proc.loop = "connected") \/ <>[](proc.gnmi = "lost")

----------------------------------------------------------------------------
(* What texts of the source say and the code does not do *)

(* "unable to start grpc server" (start.go:208): RunE does not go on       *)
(* without it.                                                             *)
LostServerEndsProcess == proc.gnmi = "lost" ~> proc.gnmi # "lost"

(* "get targets" (applogic/target.go:142): they are got as long as the     *)
(* process manages.                                                        *)
WatcherGoesOn == proc.main = "managing" => proc.watcher = "polling"

(* A request to restconf gets an error or a document                       *)
(* (restconf/server.go:189-194).                                           *)
OneAnswer == proc.reply # {"error", "document"}
=============================================================================
