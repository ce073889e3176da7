----------------------------- MODULE JailerHost -----------------------------
(***************************************************************************)
(* One single-use Firecracker launch: LinuxJailerHost with its resource     *)
(* stager and Jailer starter (internal/firecracker), driven by the smoke    *)
(* harness and, at any moment, by other callers of Cleanup.                 *)
(*                                                                          *)
(* One action is one critical section of the host's mutex or one call to a  *)
(* port (stager, Jailer, Firecracker REST socket, guest).  A port call may  *)
(* fail, and a caller's context may end at any moment before or inside it.  *)
(* What the ports really leave behind is in `machine`, which the host never *)
(* reads: its own account of it is `host`.                                  *)
(***************************************************************************)
EXTENDS Naturals, FiniteSets

CONSTANTS Harness,  \* the goroutine that executes SmokeHarness.Run
          Reaper    \* other goroutines that call Cleanup once

ASSUME JailerAssumption == Harness \notin Reaper

VARIABLES host,     \* the guarded fields of LinuxJailerHost
          machine,  \* the namespace, cgroup and process of this VM, and the guest
          at,       \* where each goroutine stands
          live,     \* whether the context each goroutine uses is still live
          evidence  \* what SmokeHarness.Run reported

jailerVars == <<host, machine, at, live, evidence>>

Caller == {Harness} \cup Reaper

Go(t, place) == at' = [at EXCEPT ![t] = place]

\* A call of a port with a fresh context, as abortAfterStart and Run's defer make.
Fresh(t) == live' = [live EXCEPT ![t] = TRUE]

ContextEnds(t) ==
    /\ live[t] /\ at[t] \notin {"idle", "returned"}
    /\ live' = [live EXCEPT ![t] = FALSE]
    /\ UNCHANGED <<host, machine, at, evidence>>

\* storeCleanup.  It closes the channel of the cleanup in progress: when a second
\* cleanup replaced that channel and closed it already, the close panics.
storeCleanup(proof) ==
    host' = [host EXCEPT !.cleaning = FALSE, !.cleaned = TRUE, !.proved = proof,
                         !.done = "closed", !.panicked = host.done = "closed"]

(* Preflight and Prepare *)

\* The harness never calls a door out of order, so a refusal only sends it to its defer.
Refused == at' = [at EXCEPT ![Harness] = "defer"] /\ UNCHANGED <<host, machine, live, evidence>>

Preflight ==
    /\ at[Harness] = "preflight"
    /\ \/ /\ live[Harness]
          /\ ~host.preflight /\ ~host.prepared /\ ~host.launching
          /\ ~host.launched /\ ~host.process /\ ~host.cleaned
          /\ host' = [host EXCEPT !.preflight = TRUE]
          /\ Go(Harness, "prepare")
          /\ UNCHANGED <<machine, live, evidence>>
       \/ (~live[Harness] \/ host.cleaned) /\ Refused

Prepare ==
    /\ at[Harness] = "prepare"
    /\ \/ /\ live[Harness]
          /\ host.preflight /\ ~host.preparing /\ ~host.prepared
          /\ ~host.launching /\ ~host.launched /\ ~host.process /\ ~host.cleaned
          /\ host' = [host EXCEPT !.preparing = TRUE]
          /\ Go(Harness, "stage")
          /\ UNCHANGED <<machine, live, evidence>>
       \/ (~live[Harness] \/ host.cleaned) /\ Refused

\* Stage creates a fresh namespace and removes it again when a later step fails.
\* The removal itself can fail, which leaves a namespace behind an error.
Stage ==
    /\ at[Harness] = "stage"
    /\ \/ /\ machine' = [machine EXCEPT !.namespace = TRUE]
          /\ \E valid \in BOOLEAN : Go(Harness, IF valid THEN "staged" ELSE "discard")
          /\ UNCHANGED <<host, live, evidence>>
       \/ \E left \in BOOLEAN :
             /\ machine' = [machine EXCEPT !.namespace = left]
             /\ host' = [host EXCEPT !.preparing = FALSE]     \* finishPrepare
             /\ Go(Harness, "defer")
             /\ UNCHANGED <<live, evidence>>

\* The last critical section of Prepare, then the deferred finishPrepare.
BindStage ==
    /\ at[Harness] = "staged"
    /\ IF ~live[Harness]
       THEN Go(Harness, "discard") /\ UNCHANGED host
       ELSE /\ host' = [host EXCEPT !.preparing = FALSE,
                          !.prepared = @ \/ (~host.launching /\ ~host.launched
                                               /\ ~host.process /\ ~host.cleaned)]
            /\ Go(Harness, IF host'.prepared THEN "launch" ELSE "defer")
    /\ UNCHANGED <<machine, live, evidence>>

\* discardStagedResources: Discard runs under a context of its own, then a cleanup
\* of the host's begins and stores the proof; finishPrepare is deferred behind it.
Discard ==
    /\ at[Harness] = "discard"
    /\ \E removed \in BOOLEAN :
          /\ machine' = [machine EXCEPT !.namespace = ~removed]
          /\ Go(Harness, IF removed THEN "discarded" ELSE "left")
    /\ host' = [host EXCEPT !.cleaning = TRUE, !.done = "open"]
    /\ UNCHANGED <<live, evidence>>

StoreDiscard ==
    /\ at[Harness] \in {"discarded", "left"}
    /\ storeCleanup(at[Harness] = "discarded")
    /\ Go(Harness, "finish")
    /\ UNCHANGED <<machine, live, evidence>>

finishPrepare ==
    /\ at[Harness] = "finish"
    /\ host' = [host EXCEPT !.preparing = FALSE]
    /\ Go(Harness, "defer")
    /\ UNCHANGED <<machine, live, evidence>>

(* Launch *)

Launch ==
    /\ at[Harness] = "launch"
    /\ \/ /\ live[Harness]
          /\ host.preflight /\ host.prepared /\ ~host.launching
          /\ ~host.launched /\ ~host.process /\ ~host.cleaned
          /\ host' = [host EXCEPT !.launching = TRUE]
          /\ Go(Harness, "start")
          /\ UNCHANGED <<machine, live, evidence>>
       \/ (~live[Harness] \/ host.cleaned) /\ Refused

\* failLaunch: finishLaunch(false), then abortAfterStart cleans with a fresh context.
failLaunch ==
    /\ host' = [host EXCEPT !.launching = FALSE, !.launched = FALSE]
    /\ Fresh(Harness) /\ Go(Harness, "abort")
    /\ UNCHANGED <<machine, evidence>>

\* LinuxJailerStarter.Start: nothing started, a process to own, or one that the
\* starter itself stops because the context ended after the fork.
Start ==
    /\ at[Harness] = "start"
    /\ \/ failLaunch
       \/ /\ live[Harness]
          /\ machine' = [machine EXCEPT !.jailer = "running", !.cgroup = TRUE]
          /\ Go(Harness, "started")
          /\ UNCHANGED <<host, live, evidence>>
       \/ /\ ~live[Harness]
          /\ \E exit \in {"reaped", "killed"}, cgroup, namespace \in BOOLEAN :
                /\ exit = "killed" => cgroup /\ namespace
                /\ machine' = [machine EXCEPT !.jailer = exit, !.cgroup = cgroup,
                                              !.namespace = namespace]
          /\ host' = [host EXCEPT !.launching = FALSE, !.launched = FALSE]
          /\ Fresh(Harness) /\ Go(Harness, "abort")
          /\ UNCHANGED evidence

KeepProcess ==
    /\ at[Harness] = "started"
    /\ host' = [host EXCEPT !.process = TRUE]
    /\ Go(Harness, "configure")
    /\ UNCHANGED <<machine, live, evidence>>

\* The bound sockets, the readiness wait and the five REST calls, each fenced by
\* the context: all of them succeed, or one fails and the launch is abandoned.
ConfigureFirecracker ==
    /\ at[Harness] = "configure"
    /\ \/ /\ live[Harness] /\ machine.jailer = "running"
          /\ machine' = [machine EXCEPT !.booted = TRUE]
          /\ host' = [host EXCEPT !.launching = FALSE, !.launched = TRUE]   \* finishLaunch
          /\ Go(Harness, "serial")
          /\ UNCHANGED <<live, evidence>>
       \/ failLaunch

\* AwaitSerial and Control read the flags under the mutex, then wait for the guest.
Open == host.launched /\ ~host.cleaning /\ ~host.cleaned

Observe(place, next, seen) ==
    /\ at[Harness] = place
    /\ UNCHANGED <<host, evidence>>
    /\ \/ /\ ~Open
          /\ Go(Harness, "defer") /\ UNCHANGED <<machine, live>>
       \/ /\ Open /\ live[Harness] /\ machine.jailer = "running" /\ machine.booted
          /\ machine' = [machine EXCEPT !.answered = @ \cup {seen}]
          /\ Go(Harness, next) /\ UNCHANGED live
       \/ /\ Open                                      \* abortAfterStart
          /\ Fresh(Harness) /\ Go(Harness, "abort") /\ UNCHANGED machine

AwaitSerial == Observe("serial", "control", "marker")
Control == Observe("control", "passed", "pong")

(* Cleanup *)

\* The section that takes the process reference: it waits for a cleanup, a launch
\* or a preparation in progress.  Without a process there is nothing to reap.
TakeProcess(t) ==
    /\ ~host.cleaning /\ ~host.launching /\ ~host.preparing
    /\ host' = [host EXCEPT !.process = FALSE, !.cleaning = TRUE, !.done = "open"]
    /\ Go(t, CASE host.process /\ at[t] = "cleanup" -> "terminate"
               [] host.process /\ at[t] = "abort" -> "abort_terminate"
               [] ~host.process /\ at[t] = "cleanup" -> "nothing"
               [] OTHER -> "abort_nothing")
    /\ UNCHANGED <<machine, live, evidence>>

\* Where a goroutine goes on when its Cleanup returns.
Back(t, place) == IF place \in {"abort", "abort_nothing", "abort_remove"} THEN "defer"
                  ELSE IF t = Harness THEN "report" ELSE "returned"

Cleanup(t) ==
    /\ at[t] \in {"abort", "cleanup"}
    /\ \/ ~host.cleaned /\ TakeProcess(t)
       \/ /\ host.cleaned                                    \* the stored proof
          /\ Go(t, Back(t, at[t]))
          /\ UNCHANGED <<host, machine, live, evidence>>
       \/ /\ ~live[t]                                        \* gave up waiting: unproved
          /\ Go(t, IF t = Harness /\ at[t] = "cleanup" THEN "unproved" ELSE Back(t, at[t]))
          /\ UNCHANGED <<host, machine, live, evidence>>

StoreNothing(t) ==
    /\ at[t] \in {"nothing", "abort_nothing"}
    /\ storeCleanup(TRUE)
    /\ Go(t, Back(t, at[t]))
    /\ UNCHANGED <<machine, live, evidence>>

\* Guest close, SIGTERM, and the wait for the reaper goroutine.  A context that
\* ends before the signal leaves the process alone; one that ends after it kills.
Terminate(t) ==
    /\ at[t] \in {"terminate", "abort_terminate"}
    /\ \/ /\ live[t]
          /\ machine' = [machine EXCEPT !.jailer = "reaped"]
       \/ /\ ~live[t]
          /\ \E exit \in {machine.jailer, "killed"} :
                machine' = [machine EXCEPT !.jailer = IF @ = "reaped" THEN @ ELSE exit]
    /\ Go(t, IF at[t] = "terminate" THEN "remove" ELSE "abort_remove")
    /\ UNCHANGED <<host, live, evidence>>

\* process.Cleanup and storeCleanup: only a reaped Jailer's cgroup and namespace are
\* removed, and any failure or ended context leaves the stored proof unproved.
RemoveResources(t) ==
    /\ at[t] \in {"remove", "abort_remove"}
    /\ \E cgroup, namespace, good \in BOOLEAN :
          LET attempted == live[t] /\ machine.jailer = "reaped" IN
          /\ ~attempted => ~cgroup /\ ~namespace
          /\ good => cgroup /\ namespace
          /\ machine' = [machine EXCEPT !.cgroup = @ /\ ~cgroup,
                                        !.namespace = @ /\ ~namespace]
          /\ storeCleanup(good)
    /\ Go(t, Back(t, at[t]))
    /\ UNCHANGED <<live, evidence>>

\* The reaper goroutine of newLinuxJailerProcess sees the process exit.
JailerExits ==
    /\ machine.jailer \in {"running", "killed"}
    /\ machine' = [machine EXCEPT !.jailer = "reaped"]
    /\ UNCHANGED <<host, at, live, evidence>>

(* SmokeHarness.Run *)

RunStarts ==
    /\ at[Harness] = "idle" /\ Go(Harness, "preflight")
    /\ UNCHANGED <<host, machine, live, evidence>>

\* The defer of Run; "passed" remembers that every door before it succeeded.
RunCleansUp ==
    /\ at[Harness] \in {"passed", "defer"}
    /\ evidence' = IF at[Harness] = "passed" THEN "passed" ELSE "blocked"
    /\ Fresh(Harness) /\ Go(Harness, "cleanup")
    /\ UNCHANGED <<host, machine>>

RunReports ==
    /\ at[Harness] \in {"report", "unproved"}
    /\ evidence' = IF at[Harness] = "report" /\ host.proved THEN evidence ELSE "blocked"
    /\ Go(Harness, "returned")
    /\ UNCHANGED <<host, machine, live>>

ReaperCalls(t) ==
    /\ t \in Reaper /\ at[t] = "idle" /\ Go(t, "cleanup")
    /\ UNCHANGED <<host, machine, live, evidence>>

JailerInit ==
    /\ host = [preflight |-> FALSE, preparing |-> FALSE, prepared |-> FALSE,
               launching |-> FALSE, launched |-> FALSE, process |-> FALSE,
               cleaning |-> FALSE, cleaned |-> FALSE, proved |-> FALSE,
               done |-> "none", panicked |-> FALSE]
    /\ machine = [namespace |-> FALSE, cgroup |-> FALSE, jailer |-> "none",
                  booted |-> FALSE, answered |-> {}]
    /\ at = [t \in Caller |-> "idle"]
    /\ live = [t \in Caller |-> TRUE]
    /\ evidence = "none"

HarnessStep ==
    \/ RunStarts \/ Preflight \/ Prepare \/ Stage \/ BindStage
    \/ Discard \/ StoreDiscard \/ finishPrepare
    \/ Launch \/ Start \/ KeepProcess \/ ConfigureFirecracker \/ AwaitSerial \/ Control
    \/ RunCleansUp \/ RunReports

CleanupStep(t) == Cleanup(t) \/ StoreNothing(t) \/ Terminate(t) \/ RemoveResources(t)

JailerNext ==
    /\ ~host.panicked
    /\ \/ HarnessStep \/ JailerExits
       \/ \E t \in Caller : CleanupStep(t) \/ ContextEnds(t) \/ ReaperCalls(t)

\* Nothing is left of the VM: what a proved cleanup stands for.
Gone == ~machine.namespace /\ ~machine.cgroup /\ machine.jailer \in {"none", "reaped"}

\* SmokeHarness.Run reports "passed" only for a run whose guest booted, showed its
\* marker and answered the ping, and of which nothing is left on the host: neither
\* the Jailer process nor its cgroup nor its namespace.  Other callers of Cleanup,
\* ended contexts and failed ports at any step do not change that.
EvidenceIsEarned ==
    (at[Harness] = "returned" /\ evidence = "passed")
        => Gone /\ machine.booted /\ machine.answered = {"marker", "pong"}
=============================================================================
