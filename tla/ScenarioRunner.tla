--------------------------- MODULE ScenarioRunner ---------------------------
(***************************************************************************)
(* PatientZero's scenario runner (tools/patientzero/internal/runner) and   *)
(* the host agent of scripts/patientzero.sh.  A run's steps apply their    *)
(* faults one after another while each expected signal is checked by a     *)
(* goroutine of its own; all of them write the run's journal, the known    *)
(* answer later work is compared with.                                     *)
(* A cluster fault is a request to the agent, which polls the run's        *)
(* status, applies the fault and answers, perhaps late, twice or never.    *)
(*                                                                         *)
(* A timer is an action that may happen once its wait has begun.  One      *)
(* workload stands for those the agent acts on, one module for the modules *)
(* a deploy fault publishes.                                               *)
(***************************************************************************)
EXTENDS Naturals, Sequences, FiniteSets

CONSTANTS
    Files,         \* scenario files
    KeepJournals,  \* Config.KeepJournals
    MaxRuns,       \* bound: runs started
    MaxPolls,      \* bound: evaluations until a window has closed
    MaxSignals,    \* bound: signals of a scenario
    None

\* What a scenario file says: the fault of each step, and the signals to check.
Cluster == {"restart", "outage"}
Rules == {"rule", "deploy"}  \* the in-process faults that are switched on and off
Kinds == Cluster \cup Rules \cup {"none", "rotation"}
Signal == [step : Nat, from : {"start", "end"}, mode : {"eventually", "always"},
           rows : {None} \cup [from : Nat, to : Nat]]

ASSUME RunnerAssumptions ==
    /\ KeepJournals \in Nat \ {0}
    /\ MaxRuns \in Nat /\ MaxPolls \in Nat \ {0}
    /\ None \notin [from : Nat, to : Nat]
    /\ \A s \in Files : /\ s.steps \in Seq(Kinds) /\ s.signals \in Seq(Signal)
                        /\ Len(s.signals) <= MaxSignals

VARIABLES
    process,   \* "up", "ending" (its context has ended) or "gone"
    current,   \* whether run is Runner.current, or only Runner.last
    run,       \* the run and its goroutines
    delegate,  \* the Delegate
    injector,  \* the Injector
    journal,   \* the run's journal, as its lines say
    files,     \* the journals on disk, by run
    host,      \* the host agent
    mail,      \* the last answer the agent posted, which may arrive late, twice or never
    workload   \* "up" or "down"

inProcess == <<process, current, run, delegate, injector, journal, files>>
outside == <<host, mail, workload>>
runner == <<inProcess, outside>>

-----------------------------------------------------------------------------
(* Scenarios.                                                              *)

Steps(s) == 1..Len(s.steps)
Signals(s) == 1..Len(s.signals)

\* Mutant: Only the order of the rows' steps is checked.
ValidateDelivery_AnyWindow(s, sig) == sig.rows.from <= sig.rows.to

\* A delivery check's window opens at or after the end of its to_step; the
\* steps have positive durations, so the plan orders them by their index.
ValidateDelivery(s, sig) ==
    /\ sig.rows.from <= sig.rows.to
    /\ IF sig.from = "end" THEN sig.step >= sig.rows.to ELSE sig.step > sig.rows.to
    /\ sig.mode = "eventually"

Validate(s) ==
    /\ s.steps # <<>>
    /\ \A i \in Signals(s) :
          LET sig == s.signals[i] IN
          /\ sig.step \in Steps(s)
          /\ sig.rows # None => /\ {sig.rows.from, sig.rows.to} \subseteq Steps(s)
                                /\ ValidateDelivery(s, sig)

LoadDir == {s \in Files : Validate(s)}

NeedsAgent(s) == \E i \in Steps(s) : s.steps[i] \in Cluster

-----------------------------------------------------------------------------
(* The journal.  A write that fails makes every later one fail.            *)

NoJournal == [start |-> FALSE, faults |-> <<>>, checks |-> <<>>, end |-> None, late |-> FALSE, broken |-> FALSE]

Create(s) == [NoJournal EXCEPT !.faults = [i \in Steps(s) |-> "none"],
                               !.checks = [i \in Signals(s) |-> "none"]]

\* What a broken journal held before is not told apart.
BrokenJournal == [NoJournal EXCEPT !.broken = TRUE]

\* late: a line after run_end.
Write(lines) ==
    IF journal.broken THEN {journal}
    ELSE {[lines EXCEPT !.late = (journal.end # None)], BrokenJournal}

FaultLine(what) == [journal EXCEPT !.faults[run.step] = what]

\* Run ids sort by age; the run that starts is the newest.
Prune(runs) == {r \in runs : Cardinality({q \in runs : q > r}) < KeepJournals}

-----------------------------------------------------------------------------
(* The run.                                                                *)

NoRequest == [id |-> 0, action |-> "none", type |-> "none"]

\* pc: "next" (between steps), "starting" and "stopping" (a cluster fault's
\* request waits), "sleep", "drain" (checks.Wait), "judge", "ended" or "off".
Idle == [id |-> 0, scenario |-> [steps |-> <<>>, signals |-> <<>>], pc |-> "off", step |-> 0,
         stopped |-> FALSE, canceled |-> FALSE, err |-> "none", state |-> "none",
         began |-> {}, ended |-> {}, checks |-> <<>>]

\* at: "anchor", "opened", "eval" or "done".
Pending == [at |-> "anchor", polls |-> 0, result |-> "pending"]

NoAgent == [attached |-> FALSE, seq |-> 0, pending |-> NoRequest, done |-> "none"]
NoFaults == [rules |-> {}, running |-> 1, published |-> 1, previous |-> 1]  \* FirstVersion

NoHost == [pc |-> "off", run |-> 0, answered |-> 0, req |-> NoRequest, ok |-> TRUE,
           outage |-> FALSE, byHand |-> FALSE]

RunnerInit ==
    /\ process = "up" /\ current = FALSE /\ run = Idle
    /\ delegate = NoAgent /\ injector = NoFaults
    /\ journal = NoJournal /\ files = {}
    /\ host = NoHost
    /\ mail = [id |-> 0, ok |-> FALSE] /\ workload = "up"

Alive == process # "gone"
Canceled == run.canceled \/ process = "ending"
Kind == run.scenario.steps[run.step]

\* StartWith, and execute up to its goroutines.
StartWith(s, agent) ==
    /\ process = "up" /\ ~current /\ run.id < MaxRuns
    /\ NeedsAgent(s) => agent
    /\ current' = TRUE
    /\ run' = [Idle EXCEPT !.id = run.id + 1, !.scenario = s, !.pc = "next", !.step = 1,
                           !.checks = [i \in Signals(s) |-> Pending]]
    /\ journal' \in {[Create(s) EXCEPT !.start = TRUE], BrokenJournal}
    /\ files' = Prune(files \cup {run.id + 1})
    /\ delegate' = IF agent THEN [delegate EXCEPT !.attached = TRUE] ELSE delegate
    /\ UNCHANGED <<process, injector>>

OperatorStarts(s) ==
    /\ StartWith(s, FALSE) /\ UNCHANGED outside

-----------------------------------------------------------------------------
(* The steps.                                                              *)

\* A step's fault is on (or the step has none): fault_start and began.
Began ==
    /\ run' = [run EXCEPT !.pc = "sleep", !.began = @ \cup {run.step}]
    /\ journal' \in (IF Kind = "none" THEN {journal} ELSE Write(FaultLine("on")))

\* Start failed, or Stop did: fault_end with the error, and the run is over.
FaultFails(err) ==
    /\ run' = [run EXCEPT !.pc = "drain", !.err = err, !.canceled = TRUE]
    /\ journal' \in Write(FaultLine("error"))

\* The fault is off: fault_end, ended, and the next step.
Ended ==
    /\ run' = [run EXCEPT !.pc = "next", !.ended = @ \cup {run.step}, !.step = @ + 1]
    /\ journal' \in (IF Kind = "none" THEN {journal} ELSE Write(FaultLine("off")))

\* Delegate.Do's request; the caller waits in pc.
Do(action, pc) ==
    /\ delegate.attached
    /\ delegate' = [delegate EXCEPT !.seq = @ + 1, !.done = "none",
                       !.pending = [id |-> delegate.seq + 1, action |-> action, type |-> Kind]]
    /\ run' = [run EXCEPT !.pc = pc]
    /\ UNCHANGED journal

\* No host agent is attached to the run.
ErrNoAgent == ~delegate.attached /\ FaultFails("detached") /\ UNCHANGED delegate

\* The loop is over: the run was canceled, or has no more steps.
StepsOver ==
    /\ Alive /\ run.pc = "next" /\ (Canceled \/ run.step > Len(run.scenario.steps))
    /\ run' = [run EXCEPT !.pc = "drain"]
    /\ UNCHANGED <<process, current, delegate, injector, journal, files, outside>>

FaultStart ==
    /\ Alive /\ run.pc = "next" /\ ~Canceled /\ run.step <= Len(run.scenario.steps)
    /\ \/ Kind = "none" /\ Began /\ UNCHANGED <<delegate, injector>>
       \/ /\ Kind \in Rules /\ Began /\ UNCHANGED delegate
          /\ injector' = IF Kind = "rule" THEN [injector EXCEPT !.rules = @ \cup {run.step}]
                         ELSE [rules |-> injector.rules \cup {run.step},
                               published |-> injector.published + 1,
                               running |-> injector.published + 1,
                               previous |-> injector.running]
       \/ Kind = "rotation" /\ (Began \/ FaultFails("fault")) /\ UNCHANGED <<delegate, injector>>
       \/ Kind \in Cluster /\ (Do("start", "starting") \/ ErrNoAgent) /\ UNCHANGED injector
    /\ UNCHANGED <<process, current, files, outside>>

\* The step's time is over, or the run was canceled; Stop has a context of its own.
FaultStop ==
    /\ Alive /\ run.pc = "sleep"
    /\ \/ Kind \in {"none", "rotation", "restart"} /\ Ended /\ UNCHANGED <<delegate, injector>>
       \/ /\ Kind \in Rules /\ Ended /\ UNCHANGED delegate
          /\ injector' = [injector EXCEPT !.rules = @ \ {run.step},
                             !.running = IF Kind = "deploy" THEN injector.previous ELSE @,
                             !.previous = 1]
       \/ Kind = "outage" /\ (Do("stop", "stopping") \/ ErrNoAgent) /\ UNCHANGED injector
    /\ UNCHANGED <<process, current, files, outside>>

\* Do returns: with the agent's answer, or, dropping the request, at its
\* timeout or the end of its context (Stop's has none of the run's).
DoReturns ==
    /\ Alive /\ run.pc \in {"starting", "stopping"}
    /\ \/ /\ delegate.done = "ok"
          /\ IF run.pc = "starting" THEN Began ELSE Ended
          /\ delegate' = [delegate EXCEPT !.done = "none"]
       \/ /\ delegate.done \in {"fault", "detached"} /\ FaultFails(delegate.done)
          /\ delegate' = [delegate EXCEPT !.done = "none"]
       \/ FaultFails("fault") /\ delegate' = [delegate EXCEPT !.done = "none", !.pending = NoRequest]
    /\ UNCHANGED <<process, current, injector, files, outside>>

-----------------------------------------------------------------------------
(* The checks.                                                             *)

Check(i, c) == run' = [run EXCEPT !.checks[i] = c]
Settle(i, result) ==
    /\ Check(i, [run.checks[i] EXCEPT !.at = "done", !.result = result])
    /\ journal' \in Write([journal EXCEPT !.checks[i] = result])

Opened(sig) == IF sig.from = "end" THEN sig.step \in run.ended ELSE sig.step \in run.began

\* Once at its planned time, once when its step's fault is really on or off.
CheckOpens(i) ==
    LET c == run.checks[i]  sig == run.scenario.signals[i] IN
    /\ \/ c.at = "anchor" /\ Check(i, [c EXCEPT !.at = "opened"])
       \/ c.at = "opened" /\ Opened(sig) /\ Check(i, [c EXCEPT !.at = "eval"])
    /\ UNCHANGED journal

\* An evaluation: the condition holds or does not (or its query failed), and
\* the window has closed or not.
CheckEvaluates(i) ==
    LET c == run.checks[i] mode == run.scenario.signals[i].mode IN
    /\ c.at = "eval" /\ ~Canceled
    /\ \E ok \in BOOLEAN, closed \in BOOLEAN :
          /\ c.polls + 1 >= MaxPolls => closed
          /\ \/ mode = "eventually" /\ ok /\ Settle(i, "pass")
             \/ mode = "always" /\ ~ok /\ Settle(i, "fail")
             \/ /\ ok = (mode = "always") /\ closed
                /\ Settle(i, IF mode = "always" THEN "pass" ELSE "fail")
             \/ /\ ok = (mode = "always") /\ ~closed /\ UNCHANGED journal
                /\ Check(i, [c EXCEPT !.polls = @ + 1])

\* Mutant: A check that waits for its step does not see the run's end.
CheckSkipped_Deaf(i) == run.checks[i].at \notin {"opened", "done"} /\ Canceled /\ Settle(i, "skipped")

CheckSkipped(i) == run.checks[i].at # "done" /\ Canceled /\ Settle(i, "skipped")

CheckStep(i) ==
    /\ Alive /\ i \in DOMAIN run.checks
    /\ CheckOpens(i) \/ CheckEvaluates(i) \/ CheckSkipped(i)
    /\ UNCHANGED <<process, current, delegate, injector, files, outside>>

-----------------------------------------------------------------------------
(* The end of a run.                                                       *)

ChecksDone == \A i \in DOMAIN run.checks : run.checks[i].at = "done"

\* checks.Wait; the traffic's last lines are EntryPoints' EndRun.
Drain ==
    /\ Alive /\ run.pc = "drain" /\ ChecksDone
    /\ run' = [run EXCEPT !.pc = "judge"]
    /\ UNCHANGED <<process, current, delegate, injector, journal, files, outside>>

\* A stopped run is stopped, even when stopping made its fault fail.
Verdict ==
    LET judged == CASE run.stopped \/ process = "ending" -> "stopped"
                    [] ~(run.stopped \/ process = "ending") /\ run.err # "none" -> "error"
                    [] OTHER -> IF \E i \in DOMAIN run.checks : run.checks[i].result = "fail"
                                THEN "failed" ELSE "passed"
    IN  IF journal.broken /\ run.err = "none" THEN "error" ELSE judged

\* The state, run_end, and the journal closed.
Judge ==
    /\ Alive /\ run.pc = "judge"
    /\ journal' \in Write([journal EXCEPT !.end = Verdict])
    /\ run' = [run EXCEPT !.pc = "ended",
                  !.state = IF journal'.broken /\ run.err = "none" THEN "error" ELSE Verdict]
    /\ UNCHANGED <<process, current, delegate, injector, files, outside>>

\* Delegate.end, and the next run may start.  Of the last run only its state
\* is asked for.
Release ==
    /\ Alive /\ run.pc = "ended"
    /\ current' = FALSE
    /\ delegate' = [delegate EXCEPT !.attached = FALSE, !.pending = NoRequest]
    /\ run' = [Idle EXCEPT !.id = run.id, !.state = run.state] /\ journal' = NoJournal
    /\ UNCHANGED <<process, injector, files, outside>>

RunStep == StepsOver \/ FaultStart \/ FaultStop \/ DoReturns \/ Drain \/ Judge \/ Release

-----------------------------------------------------------------------------
(* The admin endpoints that change a run.                                  *)

\* stopRun and Stop, without ?detach=1; it answers once the run has ended.
OperatorStops ==
    /\ Alive /\ current /\ ~run.stopped
    /\ run' = [run EXCEPT !.stopped = TRUE, !.canceled = TRUE]
    /\ UNCHANGED <<process, current, delegate, injector, journal, files, outside>>

\* Mutant: An answer is for whatever is pending.
Answers_Any == mail.id # 0 /\ delegate.pending # NoRequest

Answers == mail.id # 0 /\ delegate.pending.id = mail.id

\* answerFault and Delegate.Complete; an answer to anything else changes nothing.
Complete ==
    /\ Alive /\ Answers
    /\ delegate' = [delegate EXCEPT !.done = IF mail.ok THEN "ok" ELSE "fault", !.pending = NoRequest]
    /\ UNCHANGED <<process, current, run, injector, journal, files, outside>>

\* SIGTERM ends the context of every run; the process waits for the active one.
Terminate ==
    /\ process = "up" /\ process' = "ending"
    /\ UNCHANGED <<current, run, delegate, injector, journal, files, outside>>

Exit ==
    /\ process = "ending" /\ ~current /\ process' = "gone"
    /\ UNCHANGED <<current, run, delegate, injector, journal, files, outside>>

\* The process dies: its faults go with it; what its journal holds by then is not said here.
Crash ==
    /\ Alive /\ process' = "gone" /\ current' = FALSE
    /\ injector' = NoFaults /\ delegate' = NoAgent
    /\ run' = [Idle EXCEPT !.id = run.id] /\ journal' = NoJournal
    /\ UNCHANGED <<files, outside>>

-----------------------------------------------------------------------------
(* The host agent: patientzero.sh scenario.                                *)

\* (A scenario without cluster faults it only watches, as an operator does.)
AgentStarts(s) ==
    /\ host.pc = "off" /\ NeedsAgent(s) /\ StartWith(s, TRUE)
    /\ host' = [NoHost EXCEPT !.pc = "poll", !.run = run.id + 1, !.byHand = host.byHand]
    /\ UNCHANGED <<mail, workload>>

\* GET /admin/run: the run it started, running, with a request it has not
\* answered; or it leaves, to clean up.
AgentPolls ==
    /\ host.pc = "poll"
    /\ \/ /\ Alive /\ run.id = host.run /\ run.state = "none"
          /\ delegate.pending.id \notin {0, host.answered}
          /\ host' = [host EXCEPT !.pc = "apply", !.req = delegate.pending]
       \/ Alive /\ run.id = host.run /\ run.state # "none" /\ host' = [host EXCEPT !.pc = "restore"]
       \/ (~Alive \/ run.id # host.run) /\ host' = [host EXCEPT !.pc = "detach"]
    /\ UNCHANGED <<inProcess, mail, workload>>

\* cluster_fault: an outage is noted before it is tried, and forgotten once
\* it has ended.  A failure may leave the workload either way.
AgentApplies ==
    /\ host.pc = "apply"
    /\ \E ok \in BOOLEAN :
          /\ IF host.req.type = "outage"
             THEN /\ workload' \in IF ~ok THEN {"up", "down"}
                                   ELSE {IF host.req.action = "start" THEN "down" ELSE "up"}
                  /\ host' = [host EXCEPT !.pc = "answer", !.ok = ok,
                                 !.outage = (host.req.action = "start" \/ ~ok)]
             ELSE UNCHANGED workload /\ host' = [host EXCEPT !.pc = "answer", !.ok = ok]
    /\ UNCHANGED <<inProcess, mail>>

\* POST /admin/run/faults/{id}
AgentAnswers ==
    /\ host.pc = "answer"
    /\ host' = [host EXCEPT !.pc = "poll", !.answered = host.req.id]
    /\ mail' = [id |-> host.req.id, ok |-> host.ok]
    /\ UNCHANGED <<inProcess, workload>>

\* Interrupted, out of time, or unable to reach PatientZero.
AgentInterrupted ==
    /\ host.pc \in {"poll", "answer"} /\ host' = [host EXCEPT !.pc = "detach"]
    /\ UNCHANGED <<inProcess, mail, workload>>

\* scenario_cleanup: POST /admin/run/stop?detach=1, in its two steps, unless
\* PatientZero cannot be reached.
AgentDetaches ==
    /\ host.pc = "detach"
    /\ \/ /\ Alive /\ host' = [host EXCEPT !.pc = "stop"]
          /\ delegate' = [delegate EXCEPT !.attached = FALSE, !.pending = NoRequest,
                             !.done = IF delegate.pending # NoRequest THEN "detached" ELSE @]
       \/ host' = [host EXCEPT !.pc = "restore"] /\ UNCHANGED delegate
    /\ UNCHANGED <<process, current, run, injector, journal, files, mail, workload>>

\* Stop answers once the run has ended, or that none is running.
AgentStops ==
    /\ host.pc = "stop"
    /\ IF Alive /\ current
       THEN /\ run' = [run EXCEPT !.stopped = TRUE, !.canceled = TRUE]
            /\ host' = [host EXCEPT !.pc = "waits"]
       ELSE host' = [host EXCEPT !.pc = "restore"] /\ UNCHANGED run
    /\ UNCHANGED <<process, current, delegate, injector, journal, files, mail, workload>>

AgentStopped ==
    /\ host.pc = "waits" /\ (~current \/ ~Alive)
    /\ host' = [host EXCEPT !.pc = "restore"]
    /\ UNCHANGED <<inProcess, mail, workload>>


Unfinished == host.outage

\* The outages not ended yet are ended, or it says to do so by hand.
AgentRestores ==
    /\ host.pc = "restore"
    /\ IF Unfinished
       THEN \/ workload' = "up" /\ host' = [NoHost EXCEPT !.byHand = host.byHand]
            \/ UNCHANGED workload /\ host' = [NoHost EXCEPT !.byHand = TRUE]
       ELSE UNCHANGED workload /\ host' = [NoHost EXCEPT !.byHand = host.byHand]
    /\ UNCHANGED <<inProcess, mail>>

AgentStep ==
    \/ AgentPolls \/ AgentApplies \/ AgentAnswers \/ AgentInterrupted
    \/ AgentDetaches \/ AgentStops \/ AgentStopped \/ AgentRestores

RunnerNext ==
    \/ \E s \in LoadDir : OperatorStarts(s) \/ AgentStarts(s)
    \/ RunStep \/ (\E i \in DOMAIN run.checks : CheckStep(i))
    \/ OperatorStops \/ Complete
    \/ Terminate \/ Exit \/ Crash \/ AgentStep

RunnerSpec == RunnerInit /\ [][RunnerNext]_runner

\* The run's goroutines go on, timers included, and so does the agent's
\* script; nobody has to interrupt it, and no answer has to arrive.
RunnerFairness ==
    /\ WF_runner(RunStep) /\ WF_runner(AgentPolls \/ AgentApplies \/ AgentAnswers)
    /\ WF_runner(AgentDetaches \/ AgentStops \/ AgentStopped \/ AgentRestores)
    /\ \A i \in 1..MaxSignals : WF_runner(CheckStep(i))

-----------------------------------------------------------------------------
(* Properties.                                                             *)

\* The agent still serves the run.
AgentAttends == host.run = run.id /\ host.pc \in {"poll", "apply", "answer"}

\* The run has come to another outage since step i.
Again(i) == \E k \in Steps(run.scenario) : k > i /\ k <= run.step /\ run.scenario.steps[k] = "outage"

\* The journal tells what was done (the known answer of ADR 0010): while
\* it says that a fault is on, its rule is switched on or its workload is
\* down, unless the agent has left; once it says that the fault was
\* removed, it was.  Late and repeated answers of the agent do not count
\* for another request, and no in-process fault outlives its run.
FaultsAsJournaled ==
    LET kind(i) == run.scenario.steps[i]  says(i) == journal.faults[i] IN
    /\ Alive /\ ~current => injector.rules = {} /\ injector.running = 1
    /\ Alive /\ ~journal.broken => \A i \in Steps(run.scenario) :
          /\ kind(i) \in Rules => (says(i) = "on" <=> i \in injector.rules)
          /\ kind(i) = "outage" /\ says(i) = "on" /\ run.pc = "sleep" /\ AgentAttends
                => workload = "down"
          /\ kind(i) = "outage" /\ says(i) = "off" /\ ~Again(i) => workload = "up"

\* An ended run's journal is complete, whatever order its goroutines wrote
\* in: run_start, an end for every fault, each check once, then run_end and
\* nothing after it; and a run that passed had every fault applied and
\* removed, and every check pass.
JournalComplete ==
    Alive /\ run.pc = "ended" /\ ~journal.broken =>
       /\ journal.start /\ journal.end = run.state /\ ~journal.late /\ run.id \in files
       /\ \A i \in Signals(run.scenario) : journal.checks[i] = run.checks[i].result
       /\ \A i \in Steps(run.scenario) : journal.faults[i] # "on"
       /\ run.state = "passed" =>
             /\ \A i \in Signals(run.scenario) : journal.checks[i] = "pass"
             /\ \A i \in Steps(run.scenario) :
                   journal.faults[i] = IF run.scenario.steps[i] = "none" THEN "none" ELSE "off"

\* The journal is faithful in every state and complete at the end of a run.
JournalFaithful == FaultsAsJournaled /\ JournalComplete

\* A check is evaluated only once the fault it watches was really switched
\* on, or off, and a delivery check only once both ends of its rows' window
\* are known: what validateDelivery accepts is enough for execute.
ChecksInWindow ==
    \A i \in DOMAIN run.checks :
       LET c == run.checks[i]  sig == run.scenario.signals[i] IN
       c.at = "eval" \/ c.result \in {"pass", "fail"} =>
          /\ Opened(sig)
          /\ sig.rows # None => /\ sig.rows.from \in run.began \cup run.ended
                                /\ sig.rows.to \in run.ended

\* Every run ends, also when its agent never answers or leaves, when a
\* fault does not start, and when it is stopped in the middle of a check.
RunsEnd == current ~> ~current

=============================================================================
