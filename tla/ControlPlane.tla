---------------------------- MODULE ControlPlane ----------------------------
(***************************************************************************)
(* What clients of the daemon see of it: the requests daqctl sends with    *)
(* ZmqControlClient::Request, which gives up after two seconds, the        *)
(* command loop of daqd, which serves one request at a time however long   *)
(* that takes, and the status daqd publishes.                              *)
(*                                                                         *)
(* Time is counted in ticks.  The acquisition is DaqRuntime's: here it     *)
(* connects or not, and ends.  pause and resume wait like stop and start   *)
(* and are DaqService's; what a start says is CommandLine's and            *)
(* StartRequest's; frontends is a request like status.  The sockets are    *)
(* external: a request waits at the daemon and may get lost                *)
(* with the client that sent it; an answer nobody waits for is dropped.    *)
(***************************************************************************)
EXTENDS CommandLine, StartRequest

CONSTANTS
  Clients,        \* processes that run daqctl
  Patience,       \* ticks ZmqControlClient waits for an answer
  ConnectTimeout, \* startup_connect_timeout_sec, in ticks
  Scenes,         \* a behaviour takes one: whether a run may decide its startup
                  \* later than that (late), whether daqmon may run (watched),
                  \* whether a start may ask for help (help)
  HWM,            \* bound: status messages queued for daqmon
  MaxRequests     \* bound: requests

ASSUME PlaneAssumption ==
  /\ Patience \in Nat \ {0} /\ ConnectTimeout \in 0 .. MaxU32
  /\ Scenes \subseteq [late : BOOLEAN, watched : BOOLEAN, help : BOOLEAN]
  /\ HWM \in Nat \ {0} /\ MaxRequests \in Nat

Commands == {"start", "stop", "status", "shutdown"}

VARIABLES
  sent,     \* the commands sent, in order; a request is its number
  told,     \* for each request what daqctl was told: "ok", "error", "timeout"
            \* when start had waited long enough, "silence" when daqctl gave
            \* up, "none" while it waits
  pending,  \* for each client the request it waits for, or 0
  waited,   \* for each client the ticks it has waited
  inbox,    \* requests at the daemon
  loop,     \* the daemon: "recv", "poll" and "join" within start and stop,
            \* "look" and "tell" for the status, "leave", "gone"; "exited" when
            \* the process has ended within a request
  serving,  \* the request at hand
  terminate, shutting_down, \* g_terminate, shutting_down_
  run,      \* [running, state, startup], and of which request it is
  age,      \* ticks start has waited
  connected,\* requests whose runs connected all devices
  last_state, published, \* the state seen last, the state published last
  watching, news, heard, \* daqmon: is it subscribed, what waits for it, what it
                         \* has received last
  scene

\* There is no daemon any more.
Over == {"gone", "exited"}

clients == <<sent, told, pending, waited>>
watch   == <<watching, news, heard, scene>>
status  == <<last_state, published, watch>>
daemon  == <<inbox, loop, serving, shutting_down>>
vars    == <<clients, daemon, terminate, run, age, connected, status>>

NoRun == [running |-> FALSE, state |-> "idle", startup |-> "none", of |-> 0]

Init ==
  /\ sent = <<>> /\ told = <<>>
  /\ pending = [c \in Clients |-> 0] /\ waited = [c \in Clients |-> 0]
  /\ inbox = <<>> /\ loop = "recv" /\ serving = 0
  /\ terminate = FALSE /\ shutting_down = FALSE
  /\ run = NoRun /\ age = 0 /\ connected = {}
  /\ last_state = "idle" /\ published = "idle"
  /\ watching = FALSE /\ news = <<>> /\ heard = "none" /\ scene \in Scenes

-----------------------------------------------------------------------------
(* ZmqControlClient::Request.                                              *)

Send(c, command) ==
  /\ pending[c] = 0 /\ Len(sent) < MaxRequests
  /\ sent' = Append(sent, command) /\ told' = Append(told, "none")
  /\ pending' = [pending EXCEPT ![c] = Len(sent) + 1]
  /\ inbox' = Append(inbox, Len(sent) + 1)
  /\ UNCHANGED <<waited, loop, serving, shutting_down, terminate, run, age,
                 connected, status>>

\* Mutant: daqctl waits for the daemon to take its request.
BugGiveUp(c) ==
  /\ pending[c] # 0 /\ waited[c] = Patience /\ \A i \in DOMAIN inbox : inbox[i] # pending[c]
  /\ told' = [told EXCEPT ![pending[c]] = "silence"]
  /\ pending' = [pending EXCEPT ![c] = 0] /\ waited' = [waited EXCEPT ![c] = 0]
  /\ UNCHANGED <<sent, daemon, terminate, run, age, connected, status>>

\* RCVTIMEO: daqctl fails.  A request not yet taken is lost or stays.
GiveUp(c) ==
  /\ pending[c] # 0 /\ waited[c] = Patience
  /\ told' = [told EXCEPT ![pending[c]] = "silence"]
  /\ pending' = [pending EXCEPT ![c] = 0] /\ waited' = [waited EXCEPT ![c] = 0]
  /\ \/ UNCHANGED inbox
     \/ \E i \in DOMAIN inbox : inbox[i] = pending[c] /\ inbox' = RemoveAt(inbox, i)
  /\ UNCHANGED <<sent, loop, serving, shutting_down, terminate, run, age,
                 connected, status>>

\* Mutant: every client that waits takes the answer for its own.
BugAnswer(n, text) ==
  /\ told' = [told EXCEPT ![n] = IF @ = "none" THEN text ELSE @]
  /\ pending' = [c \in Clients |-> 0] /\ waited' = [c \in Clients |-> 0]
  /\ UNCHANGED sent

\* The answer to the request at hand reaches the client that waits for it.
Answer(n, text) ==
  /\ told' = [told EXCEPT ![n] = IF @ = "none" THEN text ELSE @]
  /\ pending' = [c \in Clients |-> IF pending[c] = n THEN 0 ELSE pending[c]]
  /\ waited' = [c \in Clients |-> IF pending[c] = n THEN 0 ELSE waited[c]]
  /\ UNCHANGED sent

-----------------------------------------------------------------------------
(* The command loop.                                                       *)

\* The loop goes on only if nobody asked it to end.
Receiving == loop = "recv" /\ ~terminate /\ ~shutting_down
Take(command) ==
  /\ Receiving /\ inbox # <<>> /\ sent[Head(inbox)] = command
  /\ inbox' = Tail(inbox) /\ serving' = Head(inbox)
  /\ UNCHANGED <<terminate, status, connected>>

ServeStatus ==
  /\ Take("status") /\ Answer(Head(inbox), "ok") /\ loop' = "look"
  /\ UNCHANGED <<shutting_down, run, age>>

\* A start is also refused for its arguments or a run number that is taken.
Refuse ==
  /\ Take("start") \/ (Take("stop") /\ ~run.running)
  /\ Answer(Head(inbox), "error") /\ loop' = "look"
  /\ UNCHANGED <<shutting_down, run, age>>

ServeStart ==
  /\ Take("start") /\ ~run.running
  /\ run' = [running |-> TRUE, state |-> "running", startup |-> "none", of |-> Head(inbox)]
  /\ loop' = "poll" /\ UNCHANGED <<clients, shutting_down, age>>

\* -h, unless it comes first, where daqctl answers it: ParseDaqArgs prints the
\* usage and ends its process, daqd, before start has looked for a run.
AskForHelp ==
  /\ scene.help /\ Take("start")
  /\ loop' = "exited" /\ run' = [run EXCEPT !.running = FALSE]
  /\ UNCHANGED <<clients, shutting_down, age>>

\* stop, also as a part of shutdown: the run is asked to end, and joined.
ServeHalt ==
  /\ Take("stop") \/ Take("shutdown")
  /\ run.running
  /\ run' = [run EXCEPT !.state = "stopping"] /\ loop' = "join"
  /\ UNCHANGED <<clients, shutting_down, age>>

ServeShutdown ==
  /\ Take("shutdown") /\ ~run.running
  /\ shutting_down' = TRUE /\ Answer(Head(inbox), "ok") /\ loop' = "look"
  /\ UNCHANGED <<run, age>>

\* Mutant: start does not wait longer than the run itself.
BugDeadline == ConnectTimeout
\* The seconds start waits, a number of 32 bits.
Deadline == IF ConnectTimeout = MaxU32 THEN 0 ELSE ConnectTimeout + 1

\* Mutant: a startup that is decided has succeeded, if the run goes on.
BugVerdict == IF run.running THEN "ok" ELSE "error"
Verdict == IF run.running /\ run.startup = "ok" THEN "ok" ELSE "error"

\* start polls until the run is over or its startup is decided, or time is up:
\* then it does not look again.
Decided == ~run.running \/ run.startup # "none"
PollStartup ==
  /\ loop = "poll"
  /\ \/ age < Deadline /\ Decided /\ Answer(serving, Verdict)
     \/ age >= Deadline /\ Answer(serving, "timeout")
  /\ loop' = "look" /\ age' = 0
  /\ UNCHANGED <<inbox, serving, shutting_down, terminate, run, connected, status>>

\* The thread of the run has ended.
HaltJoined ==
  /\ loop = "join" /\ ~run.running
  /\ Answer(serving, "ok") /\ loop' = "look"
  /\ shutting_down' = (sent[serving] = "shutdown")
  /\ UNCHANGED <<inbox, serving, terminate, run, age, connected, status>>

\* Mutant: without a request the state is not looked at.
BugIdle == Receiving /\ inbox = <<>> /\ UNCHANGED vars

\* Behind a request, and every 200 ms without one, the state is looked at ...
Idle == /\ Receiving /\ inbox = <<>> /\ loop' = "look"
        /\ UNCHANGED <<clients, inbox, serving, shutting_down, terminate,
                       run, age, connected, status>>

\* Mutant: a state is published when it has changed, and not again.
BugLook ==
  /\ loop = "look" /\ last_state' = run.state
  /\ loop' = IF run.state # last_state THEN "tell" ELSE "recv"
  /\ UNCHANGED <<clients, inbox, serving, shutting_down, terminate, run, age,
                 connected, published, watch>>

Look ==
  /\ loop = "look" /\ last_state' = run.state
  /\ \/ loop' = "tell" \* changed, or a second has passed
     \/ loop' = "recv" /\ run.state = last_state
  /\ UNCHANGED <<clients, inbox, serving, shutting_down, terminate, run, age,
                 connected, published, watch>>

\* publish_status: whoever is subscribed gets it, unless its queue is full.
Announce(state) ==
  /\ published' = state
  /\ news' = IF watching /\ Len(news) < HWM THEN Append(news, state) ELSE news
  /\ UNCHANGED <<watching, heard, scene>>

\* ... and published; it may have changed again in between.
Tell ==
  /\ loop = "tell" /\ loop' = "recv" /\ Announce(run.state)
  /\ UNCHANGED <<clients, inbox, serving, shutting_down, terminate, run, age,
                 connected, last_state>>

Leaving == loop = "recv" /\ (terminate \/ shutting_down)
Halted  == IF run.running THEN [run EXCEPT !.state = "stopping"] ELSE run

\* Mutant: the last status is published before the run is joined.
BugLeave ==
  /\ Leaving /\ run' = Halted /\ loop' = "gone" /\ Announce(Halted.state)
  /\ UNCHANGED <<clients, inbox, serving, shutting_down, terminate, age,
                 connected, last_state>>

\* Behind the loop a run that goes on is stopped ...
Leave ==
  /\ Leaving /\ run' = Halted /\ loop' = "leave"
  /\ UNCHANGED <<clients, inbox, serving, shutting_down, terminate, age,
                 connected, status>>

\* ... and the status published for the last time.
Gone ==
  /\ loop = "leave" /\ ~run.running /\ loop' = "gone" /\ Announce(run.state)
  /\ UNCHANGED <<clients, inbox, serving, shutting_down, terminate, run, age,
                 connected, last_state>>

-----------------------------------------------------------------------------
(* daqmon.                                                                 *)

\* ZmqStatusSubscriber::Connect, as soon as there is a daemon.
Subscribe ==
  /\ scene.watched /\ ~watching /\ loop \notin Over /\ watching' = TRUE
  /\ UNCHANGED <<clients, daemon, terminate, run, age, connected, last_state,
                 published, news, heard, scene>>

\* ReceiveNext, in the loop of daqmon.
ReceiveNext ==
  /\ news # <<>> /\ news' = Tail(news) /\ heard' = Head(news)
  /\ UNCHANGED <<clients, daemon, terminate, run, age, connected, last_state,
                 published, watching, scene>>

-----------------------------------------------------------------------------
(* The acquisition, time and the operator.                                 *)

Connects ==
  /\ run.running /\ run.startup = "none" /\ run.state = "running"
  /\ run' = [run EXCEPT !.startup = "ok"]
  /\ connected' = connected \union {run.of}
  /\ UNCHANGED <<clients, daemon, terminate, age, status>>

StartupFails ==
  /\ run.running /\ run.startup = "none"
  /\ run' = [run EXCEPT !.startup = "failed"]
  /\ UNCHANGED <<clients, daemon, terminate, age, connected, status>>

RunEnds ==
  /\ run.running
  /\ \E state \in IF run.startup = "failed" THEN {"error"} ELSE {"idle", "error"} :
       run' = [run EXCEPT !.running = FALSE, !.state = state]
  /\ UNCHANGED <<clients, daemon, terminate, age, connected, status>>

\* SIGINT or SIGTERM.
Terminate ==
  /\ ~terminate /\ terminate' = TRUE
  /\ UNCHANGED <<clients, daemon, run, age, connected, status>>

\* A tick is long for the 50 ms after which start looks again and for a client
\* whose time is up.  A run that is not late decides its startup within the
\* timeout by the clock of start.  One may be late whatever its devices do: it
\* sets its own deadline after it has looked up its number once more, connect()
\* may block, and before the deadline is tested it sleeps for reconnect_ms and
\* tries to connect again.
Tick ==
  /\ \A c \in Clients : pending[c] # 0 => waited[c] < Patience
  /\ loop = "poll" => ~Decided /\ age < Deadline
  /\ ~scene.late /\ loop = "poll" => age < ConnectTimeout
  /\ (\E c \in Clients : pending[c] # 0) \/ loop = "poll"
  /\ waited' = [c \in Clients |-> waited[c] + (IF pending[c] # 0 THEN 1 ELSE 0)]
  /\ age' = age + (IF loop = "poll" THEN 1 ELSE 0)
  /\ UNCHANGED <<sent, told, pending, daemon, terminate, run, connected, status>>

Serve == ServeStatus \/ Refuse \/ ServeStart \/ AskForHelp \/ ServeHalt \/ ServeShutdown
Loop  == Serve \/ PollStartup \/ HaltJoined \/ Idle \/ Look \/ Tell \/ Leave \/ Gone
Run   == Connects \/ StartupFails \/ RunEnds

Next ==
  \/ Loop \/ Run \/ Tick \/ Terminate \/ Subscribe \/ ReceiveNext
  \/ \E c \in Clients : GiveUp(c) \/ \E command \in Commands : Send(c, command)

Spec == Init /\ [][Next]_vars

\* The loop, daqmon and time go on, a run that is asked to stop ends, and the
\* status is published every second whether it has changed or not.
Fairness ==
  /\ WF_vars(Loop) /\ SF_vars(Look /\ loop' = "tell")
  /\ WF_vars(ReceiveNext) /\ WF_vars(Tick)
  /\ WF_vars(run.state = "stopping" /\ RunEnds)
  /\ WF_vars(~scene.late /\ (Connects \/ StartupFails))
  /\ \A c \in Clients : WF_vars(GiveUp(c))

FairSpec == Spec /\ Fairness

-----------------------------------------------------------------------------
(* Properties.                                                             *)

States == {"idle", "running", "stopping", "error"}

\* Types; every request is at one place, and only a client that waits has a
\* request without an outcome.
TypeOK ==
  /\ sent \in Seq(Commands) /\ Len(told) = Len(sent)
  /\ \A n \in 1 .. Len(sent) :
       told[n] \in {"ok", "error", "timeout", "silence"} \/ \E c \in Clients : pending[c] = n
  /\ \A c \in Clients : waited[c] \in 0 .. Patience
  /\ loop \in {"recv", "poll", "join", "look", "tell", "leave"} \union Over
  /\ run.state \in States /\ run.startup \in {"none", "ok", "failed"}
  /\ {last_state, published} \subseteq States /\ heard \in States \union {"none"}
  /\ news \in Seq(States) /\ Len(news) <= HWM
  /\ age \in 0 .. Deadline

\* A client that is told of success may rely on it: after "Ok started" its own
\* run had connected, after "Ok stopped" or "Ok shutting down" no earlier run
\* goes on (daqd.cpp:298, 335 and 803).
OkIsTrue ==
  \A n \in 1 .. Len(sent) : told[n] = "ok" =>
    /\ sent[n] = "start" => n \in connected
    /\ sent[n] \in {"stop", "shutdown"} => ~(run.running /\ run.of < n)

\* A client whose start is answered with an error, other than that the check of
\* the startup timed out, has not started a run that takes data, now or later
\* (daqd.cpp:288 to 302).
ErrorMeansNoRun ==
  \A n \in 1 .. Len(sent) : sent[n] = "start" /\ told[n] = "error" =>
    ~(run.running /\ run.of = n /\ run.startup = "ok")

\* A start is told that the check timed out, which says nothing of its run, only
\* if the run decides its startup late, or the seconds to wait do not fit 32 bits
\* (daqd.cpp:289 and 306).
OnlyTheLateTimeOut ==
  ~scene.late /\ ConnectTimeout < MaxU32 => \A n \in 1 .. Len(sent) : told[n] # "timeout"

\* When the daemon has left its loop the run has ended, and the last status it
\* published says how, however it was told to leave (daqd.cpp:829).
LastWordIsTrue == loop = "gone" => ~run.running /\ published = run.state

\* A state that lasts is published in the end, also one that a run enters by
\* itself between two requests, or that ends while it is being published and
\* comes back before the next look (daqd.cpp:815 to 826); unless a request for
\* help has ended the daemon.
StatusCatchesUp ==
  \A state \in States :
    <>[](run.state = state /\ loop # "exited") => <>[](published = state)

\* While the daemon lives, daqmon shows it, too, even if it subscribed after the
\* state was entered or missed messages: the status is repeated (daqd.cpp:819).
WatcherCatchesUp ==
  \A state \in States :
    <>[](run.state = state /\ watching /\ loop \notin Over) => <>[](heard = state)

\* daqctl comes back, whatever the daemon does (zmq_control_client.cpp:54).
NobodyWaitsForever == \A c \in Clients : []<>(pending[c] = 0)

\* Whatever a client was told, also late and after others' commands, is true of
\* its own request, and the last status is true of the run.
AnswersAreTrue == TypeOK /\ OkIsTrue /\ ErrorMeansNoRun /\ OnlyTheLateTimeOut /\ LastWordIsTrue

\* Every client comes back, and what lasts is published and seen by a watcher,
\* whatever else the command thread is busy with.
EveryoneIsTold == NobodyWaitsForever /\ StatusCatchesUp /\ WatcherCatchesUp

\* Whatever arguments a start was sent with, daqd has those that daqctl was
\* given, quoting and splitting undo each other for every text it accepts, and
\* the configuration it makes of them is the one that was asked for.
StartIsFaithful ==
  \A n \in DOMAIN sent :
    sent[n] = "start" => ArgumentsArrive /\ AcceptedIsStable /\ FormArrives /\ AcceptedIsSane
=============================================================================
