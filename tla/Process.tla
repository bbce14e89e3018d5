------------------------------- MODULE Process -------------------------------
(***************************************************************************)
(* The life of the process, as cmd/dns-flow/main.go directs it: start-up,  *)
(* step by step, the consumer that main launches and the InfluxDB outputs   *)
(* it writes to, signals, and the end of the process, over restarts.  The   *)
(* components are those of Consumer, InfluxDB and InfluxDBv2; the collector *)
(* half is that of Collector, and only its start and its end show here.     *)
(***************************************************************************)
EXTENDS Consumer

CONSTANTS
  Configs,              \* what the configuration file may say at a start
  NoConfig,             \* none read yet
  Polls,                \* how often Migrate looks for a created topic; 10
  Series, Stamp, Policy, NoEvent, Names, Database, Containing, Bucket,
  Faults1, Faults2      \* of the v1 server and of the v2 server

VARIABLES
  main,        \* the step of main
  cfg,         \* the configuration of this start
  topic,       \* "missing", "creating" or "ready"
  tries,       \* how often Migrate has looked for the topic it created
  quit,        \* the channel of signals, of capacity 1
  points1, rejected1, databases,
  points2, rejected2

Messages == 1..N

V1 == INSTANCE InfluxDB WITH points <- points1, rejected <- rejected1, Faults <- Faults1,
                             Events <- Messages
V2 == INSTANCE InfluxDBv2 WITH points <- points2, rejected <- rejected2, Faults <- Faults2,
                               Events <- Messages

ASSUME ProcessAssumption ==
  /\ NoConfig \notin Configs
  /\ \A c \in Configs : c.valid \in BOOLEAN /\ c.flushInterval \in Nat
  /\ Polls \in Nat \ {0}
  /\ Range(Storages) = {"influxdb", "influxdb_v2"}
  /\ V1!DatabaseParameters /\ V2!BucketParameters

mainVars == <<main, cfg, topic, tries, quit>>
v1Vars == <<points1, rejected1, databases>>
v2Vars == <<points2, rejected2>>
outputVars == <<v1Vars, v2Vars>>
sysVars == <<vars, mainVars, outputVars>>

Steps == {"config", "topic", "create", "poll", "producer", "influxdb", "influxdb_v2", "server",
          "consumer", "notify", "serving", "reloading", "stopping"}

ProcessTypeOK ==
  /\ main \in Steps /\ cfg \in Configs \cup {NoConfig}
  /\ topic \in {"missing", "creating", "ready"} /\ tries \in 0..Polls
  /\ quit \in {<<>>, <<"SIGHUP">>, <<"SIGTERM">>}

SysInit ==
  /\ Init /\ V1!Init /\ V2!ServerInit
  /\ main = "config" /\ cfg = NoConfig
  /\ topic \in {"missing", "ready"} /\ tries = 0
  /\ quit = <<>>

-----------------------------------------------------------------------------
(* Start-up *)

\* main goes on to another step, which changes nothing else, ...
GoTo(from, to) ==
  /\ main = from /\ main' = to
  /\ UNCHANGED <<vars, quit>>

\* ... or the process ends: os.Exit, logger.Fatal or a panic.
ProcessEnds == End /\ main' = "config" /\ cfg' = NoConfig /\ tries' = 0 /\ quit' = <<>>

Fatal(from) == main = from /\ ProcessEnds

\* config.Load and Validate
LoadConfig ==
  /\ \E c \in Configs :
       \/ c.valid /\ GoTo("config", "topic") /\ cfg' = c /\ UNCHANGED tries
       \/ ~c.valid /\ Fatal("config")
  /\ UNCHANGED <<topic, outputVars>>

TakeForFound ==   \* mutant of CheckTopic: no answer counts as found
  /\ GoTo("topic", "producer")
  /\ UNCHANGED <<cfg, topic, tries, outputVars>>

\* client.Metadata; without an answer the topic counts as missing
CheckTopic ==
  /\ \/ topic = "ready" /\ GoTo("topic", "producer")
     \/ GoTo("topic", "create")
  /\ UNCHANGED <<cfg, topic, tries, outputVars>>

\* client.CreateTopics.  That the topic is there already, or that the cluster does not
\* want it, is no error of the call; and a call that fails may have created it.
CreateTopic ==
  /\ topic' \in IF topic = "missing" THEN {"missing", "creating"} ELSE {topic}
  /\ \/ GoTo("create", "poll") /\ UNCHANGED <<cfg, tries>>
     \/ Fatal("create")
  /\ UNCHANGED outputVars

\* Metadata again, until the topic is there or the tries are used up
PollTopic ==
  /\ \/ topic = "ready" /\ GoTo("poll", "producer") /\ tries' = 0 /\ UNCHANGED cfg
     \/ tries + 1 < Polls /\ GoTo("poll", "poll") /\ tries' = tries + 1 /\ UNCHANGED cfg
     \/ tries + 1 = Polls /\ Fatal("poll")
  /\ UNCHANGED <<topic, outputVars>>

\* The kafka writer is set up, and the flusher is launched.
StartProducer ==
  /\ GoTo("producer", "influxdb")
  /\ UNCHANGED <<cfg, topic, tries, outputVars>>

\* initStorages: an error of a Migrate is never fatal.
MigrateV1 ==
  /\ GoTo("influxdb", "influxdb_v2") /\ V1!Migrate
  /\ UNCHANGED <<cfg, topic, tries, v2Vars>>

MigrateV2 ==
  /\ GoTo("influxdb_v2", "server")
  /\ UNCHANGED <<cfg, topic, tries, outputVars>>

\* The pipeline runs, and the server listens, or cannot.
StartServer ==
  /\ \/ GoTo("server", "consumer") /\ UNCHANGED <<cfg, tries>>
     \/ Fatal("server")
  /\ UNCHANGED <<topic, outputVars>>

\* go kafkaConsumer.Start(ctx)
LaunchConsumer ==
  /\ GoTo("consumer", "notify")
  /\ UNCHANGED <<cfg, topic, tries, outputVars>>

\* signal.Notify.  Before it, a signal ends the process: see Crash.
Notify ==
  /\ GoTo("notify", "serving")
  /\ UNCHANGED <<cfg, topic, tries, outputVars>>

\* The flusher gets to run: time.NewTicker panics if the interval is not positive, as
\* it is when the configuration leaves it out.
FlusherPanics ==
  /\ main \notin {"config", "topic", "create", "poll", "producer"}
  /\ cfg.flushInterval = 0
  /\ ProcessEnds
  /\ UNCHANGED <<topic, outputVars>>

Boot ==
  \/ LoadConfig \/ CheckTopic \/ CreateTopic \/ PollTopic \/ StartProducer
  \/ MigrateV1 \/ MigrateV2 \/ StartServer \/ LaunchConsumer \/ Notify

-----------------------------------------------------------------------------
(* Signals *)

\* A signal that finds the channel full is gone: the runtime does not wait.  Nobody
\* reads the channel again once main is stopping.
Send(sig) ==
  /\ main \in {"serving", "reloading"}
  /\ quit' = IF quit = <<>> THEN <<sig>> ELSE quit
  /\ UNCHANGED <<vars, main, cfg, topic, tries, outputVars>>

\* sig := <-quit
TakeSignal ==
  /\ main = "serving" /\ quit # <<>>
  /\ quit' = <<>>
  /\ IF quit = <<"SIGHUP">>
     THEN main' = "reloading" /\ UNCHANGED vars
     ELSE main' = "stopping" /\ Signal
  /\ UNCHANGED <<cfg, topic, tries, outputVars>>

ReloadDrains ==   \* mutant of Reload: takes the signals that came meanwhile for its own
  /\ main = "reloading" /\ main' = "serving"
  /\ quit' = <<>>
  /\ UNCHANGED <<vars, cfg, topic, tries, outputVars>>

\* handleReload reads and validates the file, and changes nothing, whatever it says.
Reload ==
  /\ GoTo("reloading", "serving")
  /\ UNCHANGED <<cfg, topic, tries, outputVars>>

\* kafkaConsumer.Stop
StopConsumer == Stop /\ UNCHANGED <<mainVars, outputVars>>

\* The server and the pipeline are stopped, which ends (see Collector), and main
\* returns.
EndMain ==
  /\ stopper = "returned" /\ Fatal("stopping")
  /\ UNCHANGED <<topic, outputVars>>

Main == Boot \/ TakeSignal \/ Reload \/ StopConsumer \/ EndMain

-----------------------------------------------------------------------------
(* The consumer's goroutines, the broker and the operator *)

StartConsumer ==
  /\ main \in {"notify", "serving", "reloading", "stopping"}
  /\ \/ SetCancel \/ NewReader \/ LaunchLoop
     \/ (topic = "ready" \/ canceller = "called") /\ TopicReady
  /\ UNCHANGED <<mainVars, outputVars>>

Read ==
  /\ Fetch \/ Commit \/ CommitFails \/ ReadFails
  /\ UNCHANGED <<mainVars, outputVars>>

\* The clock, as far as a writer may tell one write of an event from another
Now == runs

Dispatch1(ok) ==
  /\ Write(ok) /\ Storages[next] = "influxdb" /\ V1!Write(msg, Now, ok)
  /\ UNCHANGED <<mainVars, v2Vars>>

Dispatch2(ok) ==
  /\ Write(ok) /\ Storages[next] = "influxdb_v2" /\ V2!Write(msg, Now, cfg.precision, ok)
  /\ UNCHANGED <<mainVars, v1Vars>>

ReadLoop == Read \/ \E ok \in BOOLEAN : Dispatch1(ok) \/ Dispatch2(ok)

\* The brokers agree on the new topic.
TopicCreated ==
  /\ topic = "creating" /\ topic' = "ready"
  /\ UNCHANGED <<vars, main, cfg, tries, quit, outputVars>>

\* Nothing says goodbye to the outputs.
Crash == ProcessEnds /\ UNCHANGED <<topic, outputVars>>

Again == Restart /\ UNCHANGED <<mainVars, outputVars>>

SysEnded == Ended /\ UNCHANGED sysVars

SysNext ==
  \/ /\ process = "up"
     /\ \/ Main \/ FlusherPanics \/ StartConsumer \/ ReadLoop \/ Crash
        \/ \E sig \in {"SIGHUP", "SIGTERM"} : Send(sig)
  \/ TopicCreated \/ Again \/ SysEnded

SysSpec == SysInit /\ [][SysNext]_sysVars

\* The goroutines are scheduled, and every call to a server returns within its
\* timeout, if only with an error.
SysFairness ==
  /\ WF_sysVars(process = "up" /\ Main)
  /\ WF_sysVars(process = "up" /\ FlusherPanics)
  /\ WF_sysVars(process = "up" /\ StartConsumer)
  /\ WF_sysVars(process = "up" /\ ReadLoop)

SysFairSpec == SysSpec /\ SysFairness

-----------------------------------------------------------------------------
(* Properties *)

\* A process that consumes has passed the checks of its start: the configuration is
\* valid, and the topic is there.
ConsumesWhenReady == starter # "new" => topic = "ready" /\ cfg.valid

\* What main has checked by the step it is at
ChecksComeFirst ==
  /\ main # "config" => cfg \in Configs /\ cfg.valid
  /\ main \notin {"config", "topic", "create", "poll"} => topic = "ready"
  /\ starter # "new" => main \in {"notify", "serving", "reloading", "stopping"}

\* What an output took without an error is in its database, or was refused.
HandedIsStored ==
  /\ \A m \in Range(handed["influxdb"]) : V1!Stored(m) \/ m \in rejected1
  /\ \A m \in Range(handed["influxdb_v2"]) : V2!Stored(m) \/ m \in rejected2

\* The same with the types and what it rests on.
ProcessInv ==
  /\ TypeOK /\ ProcessTypeOK /\ V1!TypeOK /\ V2!ServerTypeOK
  /\ ConsumesWhenReady /\ ChecksComeFirst
  /\ V1!PointsAreTheirs /\ V2!PointsAreTheirs /\ HandedIsStored

\* From the topic to both databases: a message that will not be read again is stored
\* in each, unless it was refused with a warning, failed with an error, or was
\* skipped or lost by the consumer.  Over restarts, and also when the whole topic is
\* read again because there is no group, an event has one point.
DatabasesFollowTopic ==
  /\ \A m \in 1..(IF group THEN committed ELSE position) :
       \/ m \in Malformed \cup skipped \cup lost
       \/ loop \in {"committing", "dispatching"} /\ m = msg
       \/ /\ V1!Stored(m) \/ m \in rejected1 \cup failed["influxdb"]
          /\ V2!Stored(m) \/ m \in rejected2 \cup failed["influxdb_v2"]
  /\ V1!OnePointPerEvent /\ V2!OnePointPerEvent
  /\ V1!PolicyIsExplained /\ V2!PolicyIsExplained

\* Start-up comes to an end, whatever the configuration, the cluster and the outputs.
StartupEnds == main = "config" ~> (main = "serving" \/ process = "down")

\* A signal to end that finds the channel empty ends the process, also while a
\* reload is on its way.  (One that comes behind a SIGHUP that main has not taken yet
\* is dropped; and Stop may wait for ever before Start has set c.cancel: see Consumer.)
SignalIsHeeded ==
  quit = <<"SIGTERM">> /\ canceller = "set" /\ stopper = "idle" ~> process = "down"

\* Without a flush interval the process does not last.
NoIntervalEnds == cfg # NoConfig /\ cfg.flushInterval = 0 ~> process = "down"

\* main always moves on: into service, and out of it when asked or misconfigured.
MainMovesOn == StartupEnds /\ SignalIsHeeded /\ NoIntervalEnds
=============================================================================
