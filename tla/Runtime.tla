-------------------------------- MODULE Runtime --------------------------------
(***************************************************************************)
(* The process supervisor of one Binance environment: requests that create *)
(* executions, the background loop of each, the API and the user stream    *)
(* that work on the same executions, start and stop.                       *)
(*                                                                         *)
(* An engine operation is two steps, Begins and Returns, between which it  *)
(* holds the actor lock of its execution; what it did is one of the        *)
(* results ExecutionEngine gives it.  What the runtime makes of a result   *)
(* has no await and belongs to the second step.                            *)
(***************************************************************************)
EXTENDS FiniteSets

CONSTANTS
  Executions,   \* Ids; an id is used for one create request at a time.
  Symbol,       \* The symbol each is about.
  ApiCalls,     \* What API clients call, and what stream tasks do.
  StreamCalls

ASSUME RuntimeAssumption ==
  /\ Symbol \in [Executions -> STRING]
  /\ ApiCalls \subseteq {"run", "cancel", "reconcile"}
  /\ StreamCalls \subseteq {"apply", "reconcile"}

VARIABLES
  started,      \* _started
  starting,     \* start() holds the runtime lock.
  stop,         \* Where stop() is; "no" is ~_stopping.
  built,        \* The environment's service and adapter exist.
  unavailable,  \* The environment is in _unavailable_environments.
  streaming,    \* Its stream tasks run.
  status,       \* The request for an execution, then the execution.
  reason,       \* Its final_reason: a rate limit, a ban or none of them.
  op,           \* Who holds its actor lock, for which operation.
  loop,         \* Its background task; one that has returned is "absent", as
                \* _discard_background_task takes it from the table.
  killed,       \* Tasks with a cancellation on its way.
  gaveUp,       \* Executions whose task has returned on a ban.
  unread,       \* active_executions: records still to read
  found,        \* and those found active; at first of stop(), the tasks to join.
  todo          \* Operations stop() still has to call.

lifeVars == <<started, starting, stop, built, streaming>>
taskVars == <<loop, killed, gaveUp>>
scanVars == <<unread, found, todo>>
vars == <<lifeVars, unavailable, status, reason, op, taskVars, scanVars>>

Idle == <<"none", "none">>
Callers == {"loop", "api", "stream", "stop"}
Operations == {"run", "cancel", "reconcile", "apply"}

Requested == {"checking", "placing"}    \* create_execution holds the lock.
Active == {"RUNNING", "CANCELLING"}
Exists(e) == status[e] \in Active \cup {"ENDED"}
Records == {e \in Executions : Exists(e)}

Alive == {"run", "repair", "sleep"}
LockFree == ~starting /\ \A e \in Executions : status[e] \notin Requested
OpsOf(who) == {e \in Executions : op[e][1] = who}

Init ==
  /\ started = FALSE /\ starting = FALSE /\ stop = "no"
  /\ built = FALSE /\ unavailable = FALSE /\ streaming = FALSE
  /\ status = [e \in Executions |-> "none"]
  /\ reason = [e \in Executions |-> "fine"]
  /\ op = [e \in Executions |-> Idle]
  /\ loop = [e \in Executions |-> "absent"]
  /\ killed = {} /\ gaveUp = {}
  /\ unread = {} /\ found = {} /\ todo = {}

(***************************************************************************)
(* active_executions: a record is read when its actor lock is free.        *)
(***************************************************************************)
Scan == unread' = Records /\ found' = {}

Read(e) ==
  /\ e \in unread /\ op[e] = Idle
  /\ unread' = unread \ {e}
  /\ found' = IF status[e] \in Active THEN found \cup {e} ELSE found
  /\ UNCHANGED <<lifeVars, unavailable, status, reason, op, taskVars, todo>>

(***************************************************************************)
(* create_execution, under the runtime lock from first to last.            *)
(***************************************************************************)
Turns(e, s) == status' = [status EXCEPT ![e] = s]

\* A slip: the runtime lock is not taken.
CreateCall_Slip(e) ==
  /\ status[e] = "none" /\ stop = "no" /\ ~unavailable
  /\ Turns(e, "checking") /\ Scan
  /\ UNCHANGED <<lifeVars, unavailable, reason, op, taskVars, todo>>

\* While stopping, and in an environment marked unavailable, it raises.
CreateCall(e) ==
  /\ status[e] = "none" /\ LockFree /\ stop = "no" /\ ~unavailable
  /\ Turns(e, "checking") /\ Scan
  /\ UNCHANGED <<lifeVars, unavailable, reason, op, taskVars, todo>>

\* The first request builds the service; its server time may be out of reach.
Build(e) ==
  /\ status[e] = "checking" /\ ~built
  /\ \/ built' = TRUE /\ streaming' = started /\ UNCHANGED status
     \/ Turns(e, "none") /\ UNCHANGED <<built, streaming>>
  /\ UNCHANGED <<started, starting, stop, unavailable, reason, op, taskVars, scanVars>>

Conflict(e) == \E o \in found : Symbol[o] = Symbol[e]

\* A slip: the request waits until the symbol is free.
CreateChecked_Slip(e) ==
  /\ status[e] = "checking" /\ built /\ unread = {} /\ ~Conflict(e)
  /\ Turns(e, "placing") /\ found' = {}
  /\ UNCHANGED <<lifeVars, unavailable, reason, op, taskVars, unread, todo>>

CreateChecked(e) ==
  /\ status[e] = "checking" /\ built /\ unread = {}
  /\ Turns(e, IF Conflict(e) THEN "none" ELSE "placing") /\ found' = {}
  /\ UNCHANGED <<lifeVars, unavailable, reason, op, taskVars, unread, todo>>

\* _schedule_background_loop: no second task for an execution in the table.
Scheduled(S) ==
  loop' = [e \in Executions |->
             IF started /\ e \in S /\ loop[e] = "absent" THEN "run" ELSE loop[e]]

\* The position and the rules are read: a ban marks the environment, any other
\* error is the caller's; the target may be reached already.
CreateReturns(e) ==
  /\ status[e] = "placing"
  /\ \/ Turns(e, "RUNNING") /\ Scheduled({e}) /\ UNCHANGED unavailable
     \/ Turns(e, "ENDED") /\ UNCHANGED <<loop, unavailable>>
     \/ Turns(e, "none") /\ unavailable' \in {unavailable, TRUE} /\ UNCHANGED loop
  /\ UNCHANGED <<lifeVars, reason, op, killed, gaveUp, scanVars>>

(***************************************************************************)
(* start.  While stopping, and when started, it returns at once.           *)
(***************************************************************************)
StartCall ==
  /\ LockFree /\ ~started /\ stop = "no"
  /\ started' = TRUE /\ starting' = TRUE /\ streaming' = built
  /\ Scan
  /\ UNCHANGED <<stop, built, unavailable, status, reason, op, taskVars, todo>>

StartReturns ==
  /\ starting /\ unread = {}
  /\ starting' = FALSE /\ Scheduled(found) /\ gaveUp' = gaveUp \ found
  /\ found' = {}
  /\ UNCHANGED <<started, stop, built, streaming, unavailable, status, reason, op,
                 killed, unread, todo>>

(***************************************************************************)
(* The background loop.                                                    *)
(***************************************************************************)
Sets(e, l) == loop' = [loop EXCEPT ![e] = l]

LoopWakes(e) ==
  /\ loop[e] = "sleep" /\ e \notin killed
  /\ Sets(e, "run")
  /\ UNCHANGED <<lifeVars, unavailable, status, reason, op, killed, gaveUp, scanVars>>

\* A cancelled task leaves its await, and the operation it is in.
LoopKilled(e) ==
  /\ e \in killed
  /\ Sets(e, "absent") /\ killed' = killed \ {e}
  /\ op' = IF op[e][1] = "loop" THEN [op EXCEPT ![e] = Idle] ELSE op
  /\ UNCHANGED <<lifeVars, unavailable, status, reason, gaveUp, scanVars>>

(***************************************************************************)
(* Engine operations begin, one at a time for an execution.                *)
(***************************************************************************)
\* cancel_execution marks the execution before its first await.
Begin(e, who, what) ==
  /\ Exists(e) /\ op[e] = Idle
  /\ op' = [op EXCEPT ![e] = <<who, what>>]
  /\ IF what = "cancel" /\ status[e] = "RUNNING"
     THEN Turns(e, "CANCELLING") /\ reason' = [reason EXCEPT ![e] = "fine"]
     ELSE UNCHANGED <<status, reason>>
  /\ UNCHANGED <<lifeVars, unavailable, taskVars, scanVars>>

LoopBegins(e) ==
  /\ e \notin killed
  /\ \/ loop[e] = "run" /\ started /\ Begin(e, "loop", "run")
     \/ loop[e] = "repair" /\ Begin(e, "loop", "reconcile")

ApiBegins(e) == \E what \in ApiCalls : Begin(e, "api", what)

\* A user event is applied to the executions it names, or else to the active
\* ones, active when the tables were read.
EventApplied(e) == "apply" \in StreamCalls /\ Begin(e, "stream", "apply")

\* A reconnect, or an event that could not be applied, has those reconciled that
\* were active when the environment was asked.
EnvironmentReconciled(e) ==
  "reconcile" \in StreamCalls /\ Begin(e, "stream", "reconcile")

StreamBegins(e) ==
  /\ streaming /\ OpsOf("stream") = {}
  /\ EventApplied(e) \/ EnvironmentReconciled(e)

\* One operation after the other, a cancel before a reconciliation.
StopBegins(e) ==
  /\ stop = "orders" /\ OpsOf("stop") = {}
  /\ \/ <<e, "cancel">> \in todo /\ Begin(e, "stop", "cancel")
     \/ <<e, "reconcile">> \in todo /\ Begin(e, "stop", "reconcile")

(***************************************************************************)
(* What the engine returns: the status and the reason of the snapshot.     *)
(***************************************************************************)
\* A reconciliation notes a rate limit even in an ended execution, and takes it
\* back when it is over.
Noted(e) == {reason[e], "rate"} \cup (IF reason[e] = "rate" THEN {"fine"} ELSE {})

Results(e, what) ==
  CASE status[e] = "ENDED" /\ what = "reconcile" -> {"ENDED"} \X Noted(e)
    [] status[e] = "ENDED" /\ what # "reconcile" -> {<<"ENDED", reason[e]>>}
    [] status[e] # "ENDED" /\ what = "apply" ->
         {<<status[e], reason[e]>>, <<"ENDED", "fine">>}
           \cup IF status[e] = "CANCELLING" THEN {<<"ENDED", reason[e]>>} ELSE {}
    [] status[e] # "ENDED" /\ what # "apply" ->
         {<<status[e], "fine">>, <<status[e], "rate">>,
          <<"ENDED", "fine">>, <<"ENDED", "ban">>}
           \cup IF status[e] = "CANCELLING" /\ what # "run"
                THEN {<<"ENDED", "rate">>} ELSE {}

\* What it raises: a rate limit or a ban when run_once reads rules or the
\* market, and any other error.
Errors(e, what) ==
  CASE status[e] = "ENDED" /\ what # "reconcile" -> {}
    [] status[e] = "RUNNING" /\ what = "run"     -> {"rate", "ban", "error"}
    [] OTHER                                     -> {"error"}

\* _cancel_background_loop_if_terminal, of a task that is not the current one.
KillLoop(e, s) ==
  killed' = IF s = "ENDED" /\ loop[e] \in Alive THEN killed \cup {e} ELSE killed

Marks(r) == unavailable' = (unavailable \/ r)

\* A slip: an error ends the loop.
LoopAfter_Slip(what, s, r) ==
  CASE what = "reconcile"         -> "sleep"
    [] what = "run" /\ r = "ban"  -> "absent"
    [] what = "run" /\ r = "rate" -> "sleep"
    [] what = "run" /\ r = "error" -> "absent"
    [] what = "run" /\ r = "fine" -> IF s = "ENDED" THEN "absent" ELSE "sleep"

\* A slip: the loop does not look at the status.
LoopAfter_EndlessSlip(what, s, r) ==
  CASE what = "reconcile"         -> "sleep"
    [] what = "run" /\ r = "ban"  -> "absent"
    [] what = "run" /\ r = "rate" -> "sleep"
    [] what = "run" /\ r = "error" -> "repair"
    [] what = "run" /\ r = "fine" -> "sleep"

\* Where the loop goes after its own operation: a ban or the end makes it
\* return, an error has the execution reconciled first.
LoopAfter(what, s, r) ==
  CASE what = "reconcile"         -> "sleep"
    [] what = "run" /\ r = "ban"  -> "absent"
    [] what = "run" /\ r = "rate" -> "sleep"
    [] what = "run" /\ r = "error" -> "repair"
    [] what = "run" /\ r = "fine" -> IF s = "ENDED" THEN "absent" ELSE "sleep"

\* What the caller makes of a record, with no await between: the reasons
\* RATE_LIMIT_BACKOFF and VENUE_BAN_HARD_STOP are raised as unavailability.
Handled(e, who, what, s, r) ==
  CASE who = "loop" ->
         Sets(e, LoopAfter(what, s, r)) /\ Marks(r = "ban") /\ UNCHANGED <<killed, todo>>
    [] who = "api" ->
         KillLoop(e, s) /\ Marks(r = "ban") /\ UNCHANGED <<loop, todo>>
    [] who = "stream" ->
         /\ KillLoop(e, s) /\ Marks(what = "reconcile" /\ r \in {"rate", "ban"})
         /\ UNCHANGED <<loop, todo>>
    [] who = "stop" ->
         /\ todo' = (todo \ {<<e, what>>}) \cup
                      (IF what = "cancel" THEN {<<e, "reconcile">>} ELSE {})
         /\ UNCHANGED <<unavailable, killed, loop>>

Returns(e) ==
  /\ op[e] # Idle /\ ~(op[e][1] = "loop" /\ e \in killed)
  /\ op' = [op EXCEPT ![e] = Idle]
  /\ \E r \in Results(e, op[e][2]) :
       /\ Turns(e, r[1]) /\ reason' = [reason EXCEPT ![e] = r[2]]
       /\ Handled(e, op[e][1], op[e][2], r[1], r[2])
  /\ UNCHANGED <<lifeVars, gaveUp, unread, found>>

\* A slip: stop() calls again what has raised.
Raises_Slip(e) ==
  /\ op[e] # Idle /\ ~(op[e][1] = "loop" /\ e \in killed)
  /\ op' = [op EXCEPT ![e] = Idle]
  /\ \E x \in Errors(e, op[e][2]) :
       IF op[e][1] = "loop"
       THEN /\ Sets(e, LoopAfter(op[e][2], status[e], x))
            /\ gaveUp' = IF x = "ban" THEN gaveUp \cup {e} ELSE gaveUp
       ELSE UNCHANGED <<loop, gaveUp>>
  /\ UNCHANGED <<lifeVars, unavailable, status, reason, killed, unread, found, todo>>

\* A raised ban marks nothing, and ends the task.
Raises(e) ==
  /\ op[e] # Idle /\ ~(op[e][1] = "loop" /\ e \in killed)
  /\ op' = [op EXCEPT ![e] = Idle]
  /\ \E x \in Errors(e, op[e][2]) :
       IF op[e][1] = "loop"
       THEN /\ Sets(e, LoopAfter(op[e][2], status[e], x))
            /\ gaveUp' = IF x = "ban" THEN gaveUp \cup {e} ELSE gaveUp
       ELSE UNCHANGED <<loop, gaveUp>>
  /\ todo' = IF op[e][1] = "stop" THEN todo \ {<<e, op[e][2]>>} ELSE todo
  /\ UNCHANGED <<lifeVars, unavailable, status, reason, killed, unread, found>>

(***************************************************************************)
(* stop.                                                                   *)
(***************************************************************************)
\* A slip: nobody waits for the tasks.
StopCall_Slip ==
  /\ LockFree /\ stop = "no"
  /\ stop' = "loops" /\ started' = FALSE
  /\ found' = {} /\ killed' = killed \cup {e \in Executions : loop[e] \in Alive}
  /\ UNCHANGED <<starting, built, streaming, unavailable, status, reason, op, loop,
                 gaveUp, unread, todo>>

\* Cancel every background loop in the table ...
StopCall ==
  /\ LockFree /\ stop = "no"
  /\ stop' = "loops" /\ started' = FALSE
  /\ found' = {e \in Executions : loop[e] \in Alive}
  /\ killed' = killed \cup found'
  /\ UNCHANGED <<starting, built, streaming, unavailable, status, reason, op, loop,
                 gaveUp, unread, todo>>

\* ... wait for their ends, and ask which executions are active.
StopJoined ==
  /\ stop = "loops" /\ \A e \in found : loop[e] \notin Alive
  /\ stop' = "read" /\ Scan
  /\ UNCHANGED <<started, starting, built, streaming, unavailable, status, reason, op,
                 taskVars, todo>>

StopListed ==
  /\ stop = "read" /\ unread = {}
  /\ stop' = "orders" /\ todo' = found \X {"cancel"} /\ found' = {}
  /\ UNCHANGED <<started, starting, built, streaming, unavailable, status, reason, op,
                 taskVars, unread>>

\* The stream tasks are cancelled, in whatever they do, and waited for.
StopStreams ==
  /\ stop = "orders" /\ todo = {} /\ OpsOf("stop") = {}
  /\ stop' = "clear" /\ streaming' = FALSE
  /\ op' = [e \in Executions |-> IF op[e][1] = "stream" THEN Idle ELSE op[e]]
  /\ UNCHANGED <<started, starting, built, unavailable, status, reason, taskVars, scanVars>>

\* The tables are cleared.
StopReturns ==
  /\ stop = "clear" /\ LockFree
  /\ stop' = "no" /\ loop' = [e \in Executions |-> "absent"]
  /\ UNCHANGED <<started, starting, built, streaming, unavailable, status, reason, op,
                 killed, gaveUp, scanVars>>

(***************************************************************************)
(* The specification.                                                      *)
(***************************************************************************)
Creates == \E e \in Executions : Build(e) \/ CreateChecked(e) \/ CreateReturns(e)
Stops == StopJoined \/ StopListed \/ StopStreams \/ StopReturns

Next ==
  \/ \E e \in Executions :
       \/ Read(e) \/ CreateCall(e)
       \/ LoopWakes(e) \/ LoopKilled(e)
       \/ LoopBegins(e) \/ ApiBegins(e) \/ StreamBegins(e) \/ StopBegins(e)
       \/ Returns(e) \/ Raises(e)
  \/ Creates \/ StartCall \/ StartReturns \/ StopCall \/ Stops

Spec == Init /\ [][Next]_vars

\* Every call to the venue ends, a task that can go on does, and an actor lock
\* is given to those who wait for it in their order; of those who read the
\* records and stop() only one is there at a time.  Nobody has to call.
Fairness ==
  /\ WF_vars(Creates) /\ WF_vars(StartReturns) /\ WF_vars(Stops)
  /\ \A e \in Executions :
       /\ WF_vars(LoopWakes(e)) /\ WF_vars(LoopKilled(e)) /\ WF_vars(Returns(e))
       /\ SF_vars(LoopBegins(e)) /\ SF_vars(Read(e) \/ StopBegins(e))

FairSpec == Spec /\ Fairness

(***************************************************************************)
(* Properties.                                                             *)
(***************************************************************************)
\* Types; the lock holders exclude each other.
TypeOK ==
  /\ started \in BOOLEAN /\ starting \in BOOLEAN /\ built \in BOOLEAN
  /\ unavailable \in BOOLEAN /\ streaming \in BOOLEAN
  /\ stop \in {"no", "loops", "read", "orders", "clear"}
  /\ status \in [Executions -> {"none", "ENDED"} \cup Requested \cup Active]
  /\ reason \in [Executions -> {"fine", "rate", "ban"}]
  /\ op \in [Executions -> {Idle} \cup (Callers \X Operations)]
  /\ loop \in [Executions -> {"absent"} \cup Alive]
  /\ killed \subseteq Executions /\ gaveUp \subseteq Executions
  /\ unread \subseteq Executions /\ found \subseteq Executions
  /\ todo \subseteq Executions \X Operations
  /\ \A a, b \in Executions : status[a] \in Requested /\ status[b] \in Requested => a = b
  /\ starting => \A e \in Executions : status[e] \notin Requested
  /\ starting => started

\* There is one active execution for a symbol, whatever requests, loops and
\* streams do at the same time (create_execution, active_execution_for).
OneActive ==
  \A a, b \in Executions :
    status[a] \in Active /\ status[b] \in Active /\ Symbol[a] = Symbol[b] => a = b

Runs(e) == loop[e] \in Alive /\ e \notin killed

\* While the runtime is started, what is active is driven by a task that will
\* not end, but for an execution whose task a ban has ended
\* (_run_background_loop, _schedule_background_loop).
Driven ==
  started /\ ~starting =>
    \A e \in Executions : status[e] \in Active => Runs(e) \/ e \in gaveUp

\* Once stop() has gone over the active executions none trades on, and from the
\* ends of their tasks on no loop runs until the next start (stop,
\* _cancel_and_reconcile_active_executions).
StopHolds ==
  /\ stop = "clear" => \A e \in Executions : status[e] # "RUNNING"
  /\ ~started /\ stop # "loops" =>
       \A e \in Executions : loop[e] \notin Alive /\ op[e][1] # "loop"

\* A task runs the operation its place in the loop says; one is cancelled when
\* its execution has ended, or by stop().
Tasks ==
  \A e \in Executions :
    /\ ~Exists(e) => loop[e] = "absent" /\ op[e] = Idle /\ e \notin found
    /\ e \in killed => loop[e] \in Alive /\ (status[e] = "ENDED" \/ ~started)
    /\ op[e][1] = "loop" =>
         <<loop[e], op[e][2]>> \in {<<"run", "run">>, <<"repair", "reconcile">>}
    /\ op[e][2] = "cancel" => status[e] # "RUNNING"

\* Who asks for the active executions under the lock misses none, so that the
\* symbol of a request that goes on is free.
CreateKnows ==
  \A e, c \in Executions :
    /\ status[e] \in Active /\ (starting \/ status[c] = "checking") => e \in unread \cup found
    /\ status[e] \in Active /\ status[c] = "placing" => Symbol[e] # Symbol[c]

\* stop() waits for every task, and calls for whatever still trades.
StopKnows ==
  \A e \in Executions :
    /\ stop = "loops" /\ loop[e] \in Alive => e \in found
    /\ stop = "read" /\ status[e] = "RUNNING" => e \in unread \cup found
    /\ stop = "orders" /\ status[e] = "RUNNING" => <<e, "cancel">> \in todo

\* While stop() is under way nobody holds the lock and nothing starts.
IInv ==
  /\ TypeOK /\ OneActive /\ Driven /\ StopHolds /\ Tasks /\ CreateKnows /\ StopKnows
  /\ stop # "no" => LockFree /\ ~started

\* stop() returns, though it waits for tasks and actor locks that others hold.
StopEnds == stop # "no" ~> stop = "no"

\* The runtime lock is given back, though requests keep it over calls to the
\* venue and wait for actor locks (create_execution, start).
LockReturns == ~LockFree ~> LockFree

\* The task of an ended execution ends, unless the execution has ended with a
\* rate limit for its reason, which the loop takes for something to wait out.
LoopEnds ==
  \A e \in Executions :
    status[e] = "ENDED" ~> loop[e] \notin Alive \/ reason[e] = "rate"

\* What the README says: active executions are advanced in the background.
AlwaysDriven ==
  started /\ ~starting => \A e \in Executions : status[e] \in Active => Runs(e)
=============================================================================
