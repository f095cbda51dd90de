------------------------------- MODULE Deploy -------------------------------
(* The way of a compose document from the API to docker-compose up: the checks *)
(* of HandlePostTasks, and Runner.Up, which the main loop calls for one task   *)
(* after another: a network from Networks, a recomposed document, a start. The *)
(* process may stop anywhere, by a panic of its own too, and starts again.     *)
EXTENDS Networks, Documents

CONSTANTS
  Task, NoTask,
  Document,   \* the documents that are posted
  MaxStops    \* bound: how often the process is stopped from outside

ASSUME DeployAssumption == /\ NoTask \notin Task
                           /\ \A d \in Document : IsDocument(d) /\ Decoded(d)
                           /\ MaxStops \in Nat

VARIABLES
  phase,   \* of each task
  doc,     \* Action of the stored task
  runs,    \* history: the documents docker-compose was started with
  up,      \* the task Runner.Up is called for
  alive,   \* the process runs
  stops    \* how often it was stopped

taskVars == <<phase, doc, runs>>
vars == <<netVars, taskVars, up, alive, stops>>

NoDocument == [services |-> <<>>, batch |-> "missing"]

DInit == /\ NInit
         /\ phase = [t \in Task |-> "new"]
         /\ doc = [t \in Task |-> NoDocument]
         /\ runs = [t \in Task |-> {}]
         /\ up = NoTask /\ alive = TRUE /\ stops = 0

-----------------------------------------------------------------------------
(* HandlePostTasks. A YAML document goes through docker-compose config and     *)
(* TaskFromCompose, a JSON task through neither; both through the validator.   *)
Parses(d, kind) == kind = "yaml" => FitsSchema(d) /\ d.batch = "ok"

Accept(t) == \E d \in Document, kind \in {"yaml", "json"} :
               /\ Parses(d, kind) /\ MayBeAccepted(d)
               /\ phase' = [phase EXCEPT ![t] = "waiting"]
               /\ doc' = [doc EXCEPT ![t] = d]

Refuse(t) == \E d \in Document, kind \in {"yaml", "json"} :
               /\ ~Parses(d, kind) \/ MayBeRefused(d)
               /\ phase' = [phase EXCEPT ![t] = "refused"]
               /\ UNCHANGED doc

Post(t) == /\ alive /\ phase[t] = "new"
           /\ Accept(t) \/ Refuse(t)
           /\ UNCHANGED <<netVars, runs, up, alive, stops>>

-----------------------------------------------------------------------------
(* Runner.Up, and the task as execTask puts it back                          *)

UpBegin(t) == /\ alive /\ up = NoTask /\ phase[t] = "waiting"
              /\ Call
              /\ up' = t
              /\ UNCHANGED <<taskVars, alive, stops>>

UpNetwork == /\ alive /\ NewStep
             /\ UNCHANGED <<taskVars, up, alive, stops>>

(* The answer of New has been read, and Up is over.  *)
UpEnd(p) == /\ phase' = [phase EXCEPT ![up] = p]
            /\ up' = NoTask /\ answer' = "none"
            /\ UNCHANGED <<setting, docker, pc, locals, stops>>

Composed == pc = "idle" /\ up # NoTask /\ answer \in {"reused", "created"}

UpStart == /\ Composed /\ HasMain(doc[up])
           /\ \E c \in Recompose(doc[up]) :
                /\ runs' = [runs EXCEPT ![up] = @ \cup {c}]
                /\ doc' = [doc EXCEPT ![up] = Kept(@, c)]
           /\ UpEnd("running") /\ UNCHANGED alive

(* No main service, or docker-compose fails.  *)
UpRefused == /\ Composed /\ Recompose(doc[up]) # {}
             /\ ~HasMain(doc[up]) \/ DockerFails
             /\ \E c \in Recompose(doc[up]) : doc' = [doc EXCEPT ![up] = Kept(@, c)]
             /\ UpEnd("error") /\ UNCHANGED <<runs, alive>>

UpNoNetwork == /\ pc = "idle" /\ up # NoTask /\ answer \in {"full", "refused", "error"}
               /\ UpEnd("error") /\ UNCHANGED <<doc, runs, alive>>

(* An index out of range, in the walk or in a patcher, takes the process down. *)
UpPanic == /\ pc = "idle" /\ up # NoTask
           /\ answer = "panic" \/ (Composed /\ MayPanic(doc[up]))
           /\ alive' = FALSE
           /\ UpEnd(phase[up]) /\ UNCHANGED <<doc, runs>>

UpStep == UpNetwork \/ UpStart \/ UpRefused \/ UpNoNetwork \/ UpPanic

(* The run ends; a task with a cron, and one that failed, waits again.  *)
End(t) == /\ alive /\ phase[t] = "running"
          /\ \E p \in {"done", "waiting"} : phase' = [phase EXCEPT ![t] = p]
          /\ UNCHANGED <<netVars, doc, runs, up, alive, stops>>

(* The store and docker outlive the process, at whatever point New is.  *)
Stop == /\ alive /\ stops < MaxStops
        /\ stops' = stops + 1 /\ alive' = FALSE /\ up' = NoTask
        /\ Return("none")
        /\ UNCHANGED <<setting, docker, taskVars>>

Restart == /\ ~alive /\ alive' = TRUE
           /\ UNCHANGED <<netVars, taskVars, up, stops>>

World == (Others \/ Remove) /\ UNCHANGED <<taskVars, up, alive, stops>>

DNext == \/ \E t \in Task : Post(t) \/ UpBegin(t) \/ End(t)
         \/ UpStep \/ Stop \/ Restart \/ World

DSpec == DInit /\ [][DNext]_vars /\ WF_vars(UpStep)

-----------------------------------------------------------------------------
TypeOK == /\ NetType
          /\ phase \in [Task -> {"new", "refused", "waiting", "running", "error", "done"}]
          /\ DOMAIN doc = Task /\ DOMAIN runs = Task
          /\ \A t \in Task : /\ doc[t] = NoDocument \/ IsDocument(doc[t])
                             /\ \A c \in runs[t] : IsDocument(c)
          /\ up \in Task \cup {NoTask} /\ alive \in BOOLEAN
          /\ pc # "idle" => up # NoTask /\ phase[up] = "waiting"

(* What the validator and the recomposition make of a document together: when  *)
(* the walks go through all of it, what is started has no forbidden key, mounts *)
(* ./volumes and the cache only, the latter in every service, and has a label.  *)
Walked(s) == ~s.hidden /\ ~StopsValidate(s) /\ ~StopsPatch(s)
Confined(s) == /\ ~s.bad /\ s.labels = "batch"
               /\ Cache \in Range(s.volumes)
               /\ \A v \in Range(s.volumes) : v.src \in {"volumes", "cache"}
StartedIsConfined ==
  \A t \in Task : (\A n \in DOMAIN doc[t].services : Walked(doc[t].services[n])) =>
    \A c \in runs[t] : \A n \in DOMAIN c.services : Confined(c.services[n])

(* A task that runs again, after its cron, a failure or a restart, is started    *)
(* with the same document: a run leaves nothing of itself in the stored task.    *)
RunsAreAlike == \A t \in Task : Cardinality(runs[t]) <= 1

(* Runner.Up, called with the lock of the scheduler held, comes back.  *)
UpReturns == \A t \in Task : up = t ~> up # t

(* Recompose "take a naive and validated Compose": a document that was accepted *)
(* is recomposed or refused, and does not take the process down.                 *)
AcceptedCanBeRecomposed == Composed => ~MayPanic(doc[up])
=============================================================================
