------------------------------ MODULE UserStream ------------------------------
(***************************************************************************)
(* The private user stream of one Binance environment under                *)
(* ExecutionRuntime, from start() to the end of stop(): the task that      *)
(* supervises the stream, the task that keeps its listen key alive, and    *)
(* stop().  The two tasks cancel and await each other, and each of them    *)
(* reconciles the active executions when the stream may have missed        *)
(* something.                                                              *)
(*                                                                         *)
(* Both are asyncio tasks: what happens between two awaits is one action,  *)
(* and user and keep name the await a task is in.  A cancelled task does   *)
(* nothing more than leave that await.                                     *)
(*                                                                         *)
(* An operator whose name ends in _Slip is its successor with a mistake,   *)
(* as in ExecutionEngine.                                                  *)
(***************************************************************************)
EXTENDS Naturals, FiniteSets

CONSTANTS
  Keys,         \* Listen keys the venue hands out.
  MaxFailures,  \* LISTEN_KEY_RETRYABLE_FAILURE_MAX_ATTEMPTS
  Happens,      \* What goes on around the two tasks: see Event.
  MaxClosing    \* Bound: a key expires only below this many closing streams.

\* "change": the account changes.  "expiry": the listen key expires.  "ban",
\* "retry" and "other" are failures of a listen-key request (HTTP 418; 408,
\* 429, 5xx or no answer; anything else) or of the connection.  "reconcile":
\* a reconciliation fails, or meets a rate limit or a ban.  "long": a stream
\* outlives the look-back of its reconciliations.  "stop": stop() is called.
Event ==
  {"change", "expiry", "ban", "retry", "other", "reconcile", "long", "stop"}

ASSUME UserStreamAssumption ==
  /\ MaxFailures \in Nat \ {0}
  /\ MaxClosing \in Nat
  /\ Happens \subseteq Event

VARIABLES
  phase,        \* "running" until stop() is called: _started and _stopping.
  doomed,       \* Tasks stop() has listed to cancel.
  registered,   \* Tasks that _stream_tasks and _listen_key_tasks hold.
  cancelled,    \* Tasks asked to end that have not ended.
  user,         \* The await the stream supervisor is in.
  userFails,    \* retryable_listen_key_failures
  keep,         \* The await the keepalive task is in.
  keepFails,    \* retryable_failures
  latest,       \* latest_listen_key: a key or NoKey.
  held,         \* The listen key the keepalive is renewing.
  keyDead,      \* The venue has forgotten the latest listen key.
  healthy,      \* user_stream_healthy, as health_check_streams reads it.
  closing,      \* Abandoned stream generators that have not closed yet.
  inbox,        \* The connection holds events not yet taken.
  unseen,       \* Account changes neither delivered nor read: see Change.
  unavailable   \* _unavailable_environments: why creates are refused.

stopVars    == <<phase, doomed>>
taskVars    == <<registered, cancelled>>
keepVars    == <<keep, keepFails>>
keyVars     == <<latest, held, keyDead>>
flagVars    == <<healthy, closing>>
accountVars == <<unseen, unavailable>>
vars == <<stopVars, taskVars, user, userFails, keepVars, keyVars, flagVars,
          inbox, accountVars>>

CONSTANT NoKey

\* "before": before the current attempt to connect, so outside the window of
\* its reconciliations.  "aged": while it was connecting, inside the window
\* for a minute only.  "recent": later, and in the window.
Change == {"before", "aged", "recent"}

UserLabel ==
  {"connect", "stream", "handle", "expired", "gap", "sleep", "stop_keep",
   "farewell", "done"}
KeepLabel ==
  {"sleep", "renew", "restart_read", "restart_wait", "give_up_wait",
   "farewell", "done"}

started == phase = "running"
Runs(task) == task \notin cancelled

\* The supervisor is inside its async for.
Connected == user \in {"stream", "handle", "expired"}

\* start() with the environment registered: the supervisor is scheduled and
\* goes straight to its first connection, the keepalive to its first sleep.
Init ==
  /\ phase = "running" /\ doomed = {}
  /\ registered = {"user", "keep"} /\ cancelled = {}
  /\ user = "connect" /\ userFails = 0
  /\ keep = "sleep" /\ keepFails = 0
  /\ latest = NoKey /\ held = NoKey /\ keyDead = FALSE
  /\ healthy = FALSE /\ closing = 0 /\ inbox = FALSE
  /\ unseen = {} /\ unavailable = "none"

(***************************************************************************)
(* The venue.                                                              *)
(***************************************************************************)
\* A change is delivered while the stream is connected with a live key.
AccountChanges ==
  /\ "change" \in Happens
  /\ IF Connected /\ Runs("user") /\ ~keyDead
     THEN inbox' = TRUE /\ UNCHANGED unseen
     ELSE unseen' = unseen \cup {"recent"} /\ UNCHANGED inbox
  /\ UNCHANGED <<stopVars, taskVars, user, userFails, keepVars, keyVars,
                 flagVars, unavailable>>

KeyExpires ==
  /\ "expiry" \in Happens
  /\ latest # NoKey /\ ~keyDead /\ closing < MaxClosing
  /\ keyDead' = TRUE
  /\ UNCHANGED <<stopVars, taskVars, user, userFails, keepVars, latest, held,
                 flagVars, inbox, accountVars>>

\* The closing handshake of an abandoned stream ends; its finally clause
\* writes the flag that all streams of the adapter share.
AbandonedCloses ==
  /\ closing > 0
  /\ closing' = closing - 1 /\ healthy' = FALSE
  /\ UNCHANGED <<stopVars, taskVars, user, userFails, keepVars, keyVars, inbox,
                 accountVars>>

(***************************************************************************)
(* Reconciling the active executions.  The window starts when the current  *)
(* attempt to connect started, at most a minute ago.                       *)
(***************************************************************************)
Reconcile ==
  \/ /\ unseen' \in {unseen \ {"recent"}, unseen \ {"recent", "aged"}}
     /\ UNCHANGED unavailable
  \/ /\ "reconcile" \in Happens
     /\ unavailable' \in {unavailable, "rate"} /\ UNCHANGED unseen

\* What a connection that is given up still held is lost.
Lost == IF inbox \/ user = "handle" THEN unseen \cup {"recent"} ELSE unseen

NewAttempt == IF unseen = {} THEN {} ELSE {"before"}

(***************************************************************************)
(* The stream supervisor.                                                  *)
(***************************************************************************)
\* A supervisor that does not loop.
AfterFailure_Slip == "done"

AfterFailure == IF started THEN "gap" ELSE "done"

NewKey == latest' \in Keys /\ keyDead' = FALSE /\ UNCHANGED held

Connects ==
  /\ user = "connect" /\ Runs("user")
  /\ NewKey
  /\ user' = "stream" /\ healthy' = TRUE /\ inbox' = FALSE
  /\ unseen' = IF "long" \in Happens /\ "recent" \in unseen
               THEN (unseen \ {"recent"}) \cup {"aged"} ELSE unseen
  /\ UNCHANGED <<stopVars, taskVars, userFails, keepVars, closing, unavailable>>

\* Give up the environment: no more creates, no keepalive, a last look.
UserGivesUp ==
  /\ unavailable' = "key"
  /\ registered' = registered \ {"keep"}
  /\ cancelled' = IF keep = "done" THEN cancelled ELSE cancelled \cup {"keep"}
  /\ user' = "stop_keep"

KeyRefused ==
  /\ user = "connect" /\ Runs("user")
  /\ \/ /\ "ban" \in Happens
        /\ UserGivesUp /\ UNCHANGED userFails
     \/ /\ "retry" \in Happens
        /\ userFails' = userFails + 1
        /\ IF userFails + 1 >= MaxFailures THEN UserGivesUp
           ELSE user' = AfterFailure /\ UNCHANGED <<taskVars, unavailable>>
  /\ UNCHANGED <<stopVars, keepVars, keyVars, flagVars, inbox, unseen>>

\* Any other failure, perhaps after the key was created.
ConnectFails ==
  /\ user = "connect" /\ Runs("user")
  /\ "other" \in Happens
  /\ NewKey \/ UNCHANGED keyVars
  /\ user' = AfterFailure /\ userFails' = 0
  /\ UNCHANGED <<stopVars, taskVars, keepVars, flagVars, inbox, accountVars>>

\* A stream that ends by an error does not clear its flag.
Disconnects_Slip ==
  /\ user = "stream" /\ Runs("user")
  /\ user' = AfterFailure /\ userFails' \in {userFails, 0}
  /\ inbox' = FALSE /\ unseen' = Lost
  /\ UNCHANGED <<stopVars, taskVars, keepVars, keyVars, flagVars, unavailable>>

\* The connection ends, with an error or without.
Disconnects ==
  /\ user = "stream" /\ Runs("user")
  /\ user' = AfterFailure /\ userFails' \in {userFails, 0}
  /\ healthy' = FALSE
  /\ inbox' = FALSE /\ unseen' = Lost
  /\ UNCHANGED <<stopVars, taskVars, keepVars, keyVars, closing, unavailable>>

\* The next event of the stream: account changes come before the expiry of
\* the key.  Once stop() has begun the supervisor leaves, and the stream it
\* was reading is closed by the event loop.
TakesEvent ==
  /\ user = "stream" /\ Runs("user")
  /\ inbox \/ keyDead
  /\ inbox' = FALSE
  /\ IF started
     THEN /\ user' = IF inbox THEN "handle" ELSE "expired"
          /\ userFails' = 0
          /\ UNCHANGED <<closing, unseen>>
     ELSE /\ user' = "done" /\ closing' = closing + 1 /\ unseen' = Lost
          /\ UNCHANGED userFails
  /\ UNCHANGED <<stopVars, taskVars, keepVars, keyVars, healthy, unavailable>>

\* The event is applied, or a reconciliation around its time is made instead.
EventHandled ==
  /\ user = "handle" /\ Runs("user")
  /\ user' = "stream"
  /\ \/ unseen' \in SUBSET unseen /\ UNCHANGED unavailable
     \/ /\ "reconcile" \in Happens
        /\ unseen' = unseen \cup {"recent"}
        /\ unavailable' \in {unavailable, "rate"}
  /\ UNCHANGED <<stopVars, taskVars, userFails, keepVars, keyVars, flagVars,
                 inbox>>

\* An expired key: reconcile, then leave the loop over the events, which
\* abandons the stream without closing it.
ExpiryHandled ==
  /\ user = "expired" /\ Runs("user")
  /\ Reconcile
  /\ user' = IF started THEN "sleep" ELSE "done"
  /\ closing' = closing + 1
  /\ UNCHANGED <<stopVars, taskVars, userFails, keepVars, keyVars, healthy,
                 inbox>>

GapReconciled ==
  /\ user = "gap" /\ Runs("user")
  /\ Reconcile
  /\ user' = "sleep"
  /\ UNCHANGED <<stopVars, taskVars, userFails, keepVars, keyVars, flagVars,
                 inbox>>

RestartDelayOver ==
  /\ user = "sleep" /\ Runs("user")
  /\ IF started
     THEN user' = "connect" /\ healthy' = FALSE /\ unseen' = NewAttempt
     ELSE user' = "done" /\ UNCHANGED <<healthy, unseen>>
  /\ UNCHANGED <<stopVars, taskVars, userFails, keepVars, keyVars, closing,
                 inbox, unavailable>>

KeepStopped ==
  /\ user = "stop_keep" /\ Runs("user") /\ keep = "done"
  /\ user' = "farewell"
  /\ UNCHANGED <<stopVars, taskVars, userFails, keepVars, keyVars, flagVars,
                 inbox, accountVars>>

UserFarewell ==
  /\ user = "farewell" /\ Runs("user")
  /\ Reconcile
  /\ user' = "done"
  /\ UNCHANGED <<stopVars, taskVars, userFails, keepVars, keyVars, flagVars,
                 inbox>>

\* The supervisor takes the cancellation for a failure of the event.
UserCancelled_Slip ==
  /\ "user" \in cancelled /\ user # "done"
  /\ cancelled' = cancelled \ {"user"}
  /\ user' = IF user = "handle" THEN "stream" ELSE "done"
  /\ UNCHANGED <<stopVars, registered, userFails, keepVars, keyVars, flagVars,
                 inbox, accountVars>>

\* CancelledError closes the stream when it is thrown into it, and abandons
\* it when the supervisor was busy with an event.  A supervisor that waits
\* for the keepalive goes on waiting.
UserCancelled ==
  /\ "user" \in cancelled /\ user # "done"
  /\ user = "stop_keep" => keep = "done"
  /\ cancelled' = cancelled \ {"user"}
  /\ user' = "done" /\ inbox' = FALSE /\ unseen' = Lost
  /\ healthy' = (healthy /\ user \notin {"connect", "stream"})
  /\ closing' = IF user \in {"handle", "expired"} THEN closing + 1 ELSE closing
  /\ UNCHANGED <<stopVars, registered, userFails, keepVars, keyVars,
                 unavailable>>

(***************************************************************************)
(* The keepalive.                                                          *)
(***************************************************************************)
KeepLoop == IF started THEN "sleep" ELSE "done"

Sleeps ==
  /\ keep = "sleep" /\ Runs("keep")
  /\ IF latest = NoKey THEN keep' = KeepLoop /\ UNCHANGED held
     ELSE keep' = "renew" /\ held' = latest
  /\ UNCHANGED <<stopVars, taskVars, user, userFails, keepFails, latest,
                 keyDead, flagVars, inbox, accountVars>>

Renewed ==
  /\ keep = "renew" /\ Runs("keep") /\ ~keyDead
  /\ keep' = KeepLoop /\ keepFails' = 0
  /\ UNCHANGED <<stopVars, taskVars, user, userFails, keyVars, flagVars, inbox,
                 accountVars>>

\* The supervisor is taken off _stream_tasks, cancelled and awaited.
StopsUserStream ==
  cancelled' = IF user = "done" \/ "user" \notin registered THEN cancelled
               ELSE cancelled \cup {"user"}

\* A ban leaves the user stream alone.
RenewBanned_Slip ==
  /\ "ban" \in Happens
  /\ unavailable' = "key"
  /\ registered' = registered \ {"keep"} /\ UNCHANGED cancelled
  /\ keep' = "farewell" /\ UNCHANGED <<keepFails, latest>>

\* The keepalive takes itself off _listen_key_tasks as well.
RenewBanned ==
  /\ "ban" \in Happens
  /\ unavailable' = "key"
  /\ registered' = registered \ {"user", "keep"} /\ StopsUserStream
  /\ keep' = "give_up_wait" /\ UNCHANGED <<keepFails, latest>>

\* Forget the key if it is still the latest one, and restart the stream.
RenewExpired ==
  /\ keyDead
  /\ latest' = IF latest = held THEN NoKey ELSE latest
  /\ keep' = "restart_read"
  /\ UNCHANGED <<registered, cancelled, keepFails, unavailable>>

RenewRetries ==
  /\ "retry" \in Happens
  /\ keepFails' = keepFails + 1
  /\ IF keepFails + 1 >= MaxFailures
     THEN /\ unavailable' = "key"
          /\ registered' = registered \ {"user"} /\ StopsUserStream
          /\ keep' = "give_up_wait"
     ELSE keep' = KeepLoop /\ UNCHANGED <<registered, cancelled, unavailable>>
  /\ UNCHANGED latest

RenewFails ==
  /\ "other" \in Happens
  /\ keep' = KeepLoop
  /\ UNCHANGED <<registered, cancelled, keepFails, latest, unavailable>>

NotRenewed ==
  /\ keep = "renew" /\ Runs("keep")
  /\ RenewBanned \/ RenewExpired \/ RenewRetries \/ RenewFails
  /\ UNCHANGED <<stopVars, user, userFails, held, keyDead, flagVars, inbox,
                 unseen>>

RestartReads ==
  /\ keep = "restart_read" /\ Runs("keep")
  /\ Reconcile
  /\ registered' = registered \ {"user"} /\ StopsUserStream
  /\ keep' = "restart_wait"
  /\ UNCHANGED <<stopVars, user, userFails, keepFails, keyVars, flagVars,
                 inbox>>

\* The old stream has ended and the new one is forgotten.
Restarts_Slip ==
  /\ keep = "restart_wait" /\ Runs("keep") /\ user = "done"
  /\ keep' = KeepLoop
  /\ UNCHANGED <<stopVars, taskVars, user, userFails, keepFails, keyVars,
                 flagVars, inbox, accountVars>>

\* A new supervisor, unless stop() has begun.
Restarts ==
  /\ keep = "restart_wait" /\ Runs("keep") /\ user = "done"
  /\ keep' = KeepLoop
  /\ IF started
     THEN /\ registered' = registered \cup {"user"}
          /\ user' = "connect" /\ userFails' = 0 /\ healthy' = FALSE
          /\ unseen' = NewAttempt
     ELSE UNCHANGED <<registered, user, userFails, healthy, unseen>>
  /\ UNCHANGED <<stopVars, cancelled, keepFails, keyVars, closing, inbox,
                 unavailable>>

StreamStopped ==
  /\ keep = "give_up_wait" /\ Runs("keep") /\ user = "done"
  /\ keep' = "farewell"
  /\ UNCHANGED <<stopVars, taskVars, user, userFails, keepFails, keyVars,
                 flagVars, inbox, accountVars>>

KeepFarewell ==
  /\ keep = "farewell" /\ Runs("keep")
  /\ Reconcile
  /\ keep' = "done"
  /\ UNCHANGED <<stopVars, taskVars, user, userFails, keepFails, keyVars,
                 flagVars, inbox>>

\* A keepalive that waits for the supervisor goes on waiting.
KeepCancelled ==
  /\ "keep" \in cancelled /\ keep # "done"
  /\ keep \in {"restart_wait", "give_up_wait"} => user = "done"
  /\ cancelled' = cancelled \ {"keep"}
  /\ keep' = "done"
  /\ UNCHANGED <<stopVars, registered, user, userFails, keepFails, keyVars,
                 flagVars, inbox, accountVars>>

(***************************************************************************)
(* stop().  It lists the tasks, cancels and reconciles the executions,     *)
(* cancels the listed tasks, and waits for them.                           *)
(***************************************************************************)
Alive == {t \in {"user", "keep"} : IF t = "user" THEN user # "done"
                                                 ELSE keep # "done"}

\* The keepalive is not listed.
StopBegins_Slip ==
  /\ "stop" \in Happens /\ phase = "running"
  /\ phase' = "draining" /\ doomed' = registered \ {"keep"}
  /\ UNCHANGED <<taskVars, user, userFails, keepVars, keyVars, flagVars, inbox,
                 accountVars>>

StopBegins ==
  /\ "stop" \in Happens /\ phase = "running"
  /\ phase' = "draining" /\ doomed' = registered
  /\ UNCHANGED <<taskVars, user, userFails, keepVars, keyVars, flagVars, inbox,
                 accountVars>>

StopCancels ==
  /\ phase = "draining"
  /\ phase' = "joining" /\ cancelled' = cancelled \cup (doomed \cap Alive)
  /\ UNCHANGED <<doomed, registered, user, userFails, keepVars, keyVars,
                 flagVars, inbox, accountVars>>

StopEnds ==
  /\ phase = "joining" /\ doomed \cap Alive = {}
  /\ phase' = "stopped" /\ registered' = {}
  /\ UNCHANGED <<doomed, cancelled, user, userFails, keepVars, keyVars,
                 flagVars, inbox, accountVars>>

(***************************************************************************)
(* The specification.                                                      *)
(***************************************************************************)
VenueStep == AccountChanges \/ KeyExpires \/ AbandonedCloses

UserStep ==
  \/ Connects \/ KeyRefused \/ ConnectFails \/ Disconnects
  \/ TakesEvent \/ EventHandled \/ ExpiryHandled \/ GapReconciled
  \/ RestartDelayOver \/ KeepStopped \/ UserFarewell \/ UserCancelled

KeepStep ==
  \/ Sleeps \/ Renewed \/ NotRenewed \/ RestartReads \/ Restarts
  \/ StreamStopped \/ KeepFarewell \/ KeepCancelled

StopStep == StopBegins \/ StopCancels \/ StopEnds

Next == VenueStep \/ UserStep \/ KeepStep \/ StopStep

Spec == Init /\ [][Next]_vars

\* The event loop runs every task that can run, what stop() awaits ends, and
\* a connection that is tried again and again is one day made.
Fairness ==
  /\ WF_vars(UserStep) /\ WF_vars(KeepStep)
  /\ WF_vars(StopCancels) /\ WF_vars(StopEnds)
  /\ SF_vars(Connects)

FairSpec == Spec /\ Fairness

(***************************************************************************)
(* Properties.                                                             *)
(***************************************************************************)
FlagTypes == keyDead \in BOOLEAN /\ healthy \in BOOLEAN /\ inbox \in BOOLEAN

ControlTypes ==
  /\ phase \in {"running", "draining", "joining", "stopped"}
  /\ doomed \subseteq {"user", "keep"}
  /\ registered \subseteq {"user", "keep"} /\ cancelled \subseteq Alive
  /\ user \in UserLabel /\ keep \in KeepLabel

DataTypes ==
  /\ userFails \in 0 .. MaxFailures /\ keepFails \in 0 .. MaxFailures
  /\ latest \in Keys \cup {NoKey} /\ held \in Keys \cup {NoKey}
  /\ closing \in Nat

AccountTypes ==
  unseen \subseteq Change /\ unavailable \in {"none", "rate", "key"}

\* Every variable keeps its type; the failure counters stop at their limit.
TypeOK == FlagTypes /\ ControlTypes /\ DataTypes /\ AccountTypes

Ending(task) == task \notin Alive \/ task \in cancelled

\* A task that has given up the listen key is alone: the other one has ended
\* or can only end, so no further listen-key request follows a ban or a
\* third failure in a row.
GivesUpTogether ==
  /\ user \in {"stop_keep", "farewell"} => Ending("keep")
  /\ keep \in {"give_up_wait", "farewell"} => Ending("user")

\* While the runtime runs, nobody loses the user stream unnoticed: without a
\* supervisor it is being restarted, or the environment takes no executions;
\* without a keepalive the same.
NeverSilent ==
  started =>
    /\ "user" \notin Alive => keep = "restart_wait" \/ unavailable # "none"
    /\ "keep" \notin Alive => unavailable # "none"

\* A task that nobody keeps track of any more is on its way out, and once
\* stop() has begun it lists every task the runtime keeps track of.
KeptTrackOf ==
  /\ \A t \in Alive \ cancelled :
       \/ t \in registered /\ phase # "stopped"
       \/ t = "keep" /\ keep \in {"give_up_wait", "farewell"}
  /\ ~started => registered \subseteq doomed

\* Who gives up, or cancels a task of a running runtime, has a reason.
Reasons ==
  /\ user \in {"stop_keep", "farewell"} => unavailable # "none"
  /\ keep \in {"give_up_wait", "farewell"} => unavailable # "none"
  /\ started /\ "user" \in cancelled =>
       keep = "restart_wait" \/ unavailable # "none"
  /\ started /\ "keep" \in cancelled => unavailable # "none"

\* A task that still makes requests has failures left.
FailuresLeft ==
  /\ user \in {"stop_keep", "farewell", "done"} \/ userFails < MaxFailures
  /\ keep \in {"give_up_wait", "farewell", "done"} \/ keepFails < MaxFailures

\* The engine, which places nothing on a degraded stream, is never told that a
\* lost stream is healthy, except while a stream that was abandoned has not
\* closed: whoever leaves a stream clears the flag or leaves a generator that
\* will.
HealthyIsUp == healthy => Connected \/ closing > 0

\* Kept by every step.
IInv ==
  /\ TypeOK /\ FailuresLeft /\ GivesUpTogether /\ NeverSilent
  /\ HealthyIsUp /\ KeptTrackOf /\ Reasons

\* What ends, ends: however the two tasks cancel and await each other, stop()
\* returns.
StopReturns == phase = "draining" ~> phase = "stopped"

\* A supervisor that waits to connect does connect, or the environment is
\* marked unavailable, or the runtime is stopped.
Reconnects ==
  user \in {"gap", "sleep", "connect"} ~>
    user = "stream" \/ unavailable = "key" \/ ~started

(***************************************************************************)
(* A claim the code does not keep.                                         *)
(***************************************************************************)
\* Design specification, T8: after a disconnect the engine "reconciles after
\* reconnect".  A connected stream has read what changed before it was tried.
GapIsRead == user = "stream" => "before" \notin unseen

=============================================================================
