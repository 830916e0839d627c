---------------------------- MODULE BinanceOutcome ----------------------------
(***************************************************************************)
(* How an HTTP exchange with Binance becomes an order that rests, an order *)
(* that may rest, or no order: the adapter's classification of replies and *)
(* what the engine makes of each class, for one execution that wants one   *)
(* order on the book.                                                      *)
(*                                                                         *)
(* A request and its reply are two steps.  The venue executes a request at *)
(* most once, and if it does, before the reply is taken; which replies say *)
(* that it has not been executed is a constant.                            *)
(***************************************************************************)
EXTENDS Lifecycle, Integers, FiniteSets

CONSTANTS
  Replies,      \* The replies the venue gives.
  Refusals,     \* Those by which a mutation has not been executed.
  MaxAttempts   \* Bound on create requests.

Statuses == {"lost", "200", "400", "408", "418", "429", "500", "503"}
Codes == {"none", "overload", "ambiguous", "post_only", "not_found", "other"}
Texts == {"not_json", "unknown_error", "unavailable", "not_exist", "other"}

\* What a reply can be: "lost" is a transport error, "400" and "500" stand for
\* all of their class; codes are of the JSON body: overload is -1008, ambiguous
\* -1000, -1001, -1006 and -1007, post_only -5022 and not_found -2013.
AllReplies ==
  {r \in [status : Statuses, code : Codes, text : Texts] :
     /\ r.text = "not_json" => r.code = "none"
     /\ r.status = "lost" => r.text = "not_json"}

ASSUME OutcomeAssumption ==
  Replies \subseteq AllReplies /\ Refusals \subseteq Replies /\ MaxAttempts \in Nat

VARIABLES
  status,   \* "RUNNING" or "FAILED", of the execution.
  n,        \* Create attempts so far; attempt n is the last child.
  child,    \* The engine's word for each attempt.
  book,     \* The order of each attempt at the venue.
  pc        \* The request the adapter is waiting for, or "idle".

vars == <<status, n, child, book, pc>>

Attempts == 1 .. MaxAttempts
Forgotten == {"NONE", "FORGOTTEN"}      \* Not yet, or not any more, a child.

Init ==
  /\ status = "RUNNING" /\ n = 0 /\ pc = "idle"
  /\ child = [a \in Attempts |-> "NONE"]
  /\ book = [a \in Attempts |-> "none"]

(***************************************************************************)
(* The adapter: replies to outcomes.                                       *)
(***************************************************************************)
\* The outcome of a request of which nothing is known.
Doubt(kind) ==
  CASE kind = "CREATE" -> "Unknown" [] kind = "CANCEL" -> "Pending" [] OTHER -> "RateLimited"

Specific(r) == r.code \notin {"none", "overload", "ambiguous"}

NotFound(r) == r.code = "not_found" \/ r.text = "not_exist"

Doubtful503(r) == r.code # "overload" /\ r.text = "unknown_error"

\* A slip: an HTTP 408 is something to try again.
Outcome_Slip(r, kind) ==
  CASE r.status = "lost"                            -> Doubt(kind)
    [] r.status = "200" /\ r.text # "not_json"      -> "Answered"
    [] r.status \in {"429", "408"}                  -> "RateLimited"
    [] r.status = "418"                             -> "Ban"
    [] r.status = "503" /\ r.text = "not_json"      -> "RateLimited"
    [] r.status \in {"200", "400", "500"} /\ r.text = "not_json" -> Doubt(kind)
    [] r.status \in {"500", "503"} /\ r.text # "not_json" ->
         IF kind = "READ" THEN "RateLimited"
         ELSE IF Specific(r) THEN "Terminal"
         ELSE IF r.status = "500" \/ Doubtful503(r) THEN Doubt(kind) ELSE "RateLimited"
    [] r.status = "400" /\ r.text # "not_json" ->
         IF kind = "CREATE" /\ r.code = "post_only" THEN "Rejected" ELSE "Terminal"

\* Replies in the order the code asks.  RateLimited stands for all errors that
\* the engine handles as a rate limit (RetryableReadFailure, overload).
Outcome(r, kind) ==
  CASE r.status \in {"lost", "408"}                 -> Doubt(kind)
    [] r.status = "200" /\ r.text # "not_json"      -> "Answered"
    [] r.status = "429"                             -> "RateLimited"
    [] r.status = "418"                             -> "Ban"
    [] r.status = "503" /\ r.text = "not_json"      -> "RateLimited"
    [] r.status \in {"200", "400", "500"} /\ r.text = "not_json" -> Doubt(kind)
    [] r.status \in {"500", "503"} /\ r.text # "not_json" ->
         IF kind = "READ" THEN "RateLimited"
         ELSE IF Specific(r) THEN "Terminal"
         ELSE IF r.status = "500" \/ Doubtful503(r) THEN Doubt(kind) ELSE "RateLimited"
    [] r.status = "400" /\ r.text # "not_json" ->
         IF kind = "CREATE" /\ r.code = "post_only" THEN "Rejected" ELSE "Terminal"

\* The symbol rules are read before a create, by a request that is not signed.
RulesOutcome(r) ==
  IF r.status = "429" THEN "RateLimited"
  ELSE IF r.status = "418" THEN "Ban"
  ELSE IF r.status \in {"lost", "500", "503"} \/ r.text = "not_json" THEN "RateLimited"
  ELSE IF r.status = "200" THEN "Answered" ELSE "Terminal"

(***************************************************************************)
(* Creates.  The demand is one order: the engine sends one when it has no  *)
(* child that may still trade and none that has filled.                    *)
(***************************************************************************)
\* A slip: a timed-out create does not hold the demand.
Submit_Slip ==
  /\ pc = "idle" /\ status = "RUNNING" /\ n < MaxAttempts
  /\ \A a \in 1 .. n : child[a] \in {"FORGOTTEN", "REJECTED", "CANCELLED", "UNKNOWN"}
  /\ n' = n + 1
  /\ child' = [child EXCEPT ![n + 1] = "PENDING_SUBMIT"]
  /\ pc' = "rules"
  /\ UNCHANGED <<status, book>>

Submit ==
  /\ pc = "idle" /\ status = "RUNNING" /\ n < MaxAttempts
  /\ \A a \in 1 .. n : child[a] \in {"FORGOTTEN", "REJECTED", "CANCELLED"}
  /\ n' = n + 1
  /\ child' = [child EXCEPT ![n + 1] = "PENDING_SUBMIT"]
  /\ pc' = "rules"
  /\ UNCHANGED <<status, book>>

Becomes(s) == child' = [child EXCEPT ![n] = s]

Ends(outcome, s) ==
  /\ Becomes(s)
  /\ status' = IF outcome \in {"Ban", "Terminal"} THEN "FAILED" ELSE status

\* What the engine makes of an error from submit_limit_order.  A rejected order
\* that was not post-only fails the execution like a terminal rejection.
CreateFails(outcome) ==
  \/ outcome \in {"RateLimited", "Unexpected"} /\ Becomes("FORGOTTEN") /\ UNCHANGED status
  \/ outcome = "Unknown" /\ Becomes("UNKNOWN") /\ UNCHANGED status
  \/ /\ outcome \in {"Ban", "Terminal", "Rejected"}
     /\ \/ Ends(outcome, "REJECTED")
        \/ outcome = "Rejected" /\ Ends("Terminal", "REJECTED")

\* The rules are read; the order may be impossible to express with them, or the
\* client may have no key (Unexpected) or no leave to trade (Terminal).
RulesAnswer ==
  /\ pc = "rules" /\ UNCHANGED <<n, book>>
  /\ \/ \E r \in Replies : RulesOutcome(r) = "Answered"
        /\ pc' = "create" /\ UNCHANGED <<status, child>>
     \/ /\ \E r \in Replies :
             RulesOutcome(r) # "Answered" /\ CreateFails(RulesOutcome(r))
        /\ pc' = "idle"
     \/ \E o \in {"Terminal", "Unexpected"} : CreateFails(o) /\ pc' = "idle"

\* What the engine calls an order of the book.
Seen == [b \in {"alive", "filled", "cancelled"} |->
           CASE b = "alive" -> "OPEN" [] b = "filled" -> "FILLED" [] OTHER -> "CANCELLED"]

CreateAnswer ==
  /\ pc = "create" /\ pc' = "idle" /\ UNCHANGED n
  /\ \E r \in Replies : \E b \in {"none", "alive", "filled", "cancelled"} :
       /\ r.status = "200" => b # "none"
       /\ r \in Refusals => b = "none"
       /\ book' = [book EXCEPT ![n] = b]
       /\ \/ /\ Outcome(r, "CREATE") = "Answered" /\ UNCHANGED status
             /\ Becomes(SetChildStatus("PENDING_SUBMIT", Seen[b]))
          \/ Outcome(r, "CREATE") # "Answered" /\ CreateFails(Outcome(r, "CREATE"))

(***************************************************************************)
(* Cancels and lookups of the last child.                                  *)
(***************************************************************************)
Cancel ==
  /\ pc = "idle" /\ status = "RUNNING" /\ n > 0 /\ child[n] = "OPEN"
  /\ Becomes("PENDING_CANCEL") /\ pc' = "cancel"
  /\ UNCHANGED <<status, n, book>>

\* A slip: an unanswered cancel counts as one that worked.
CancelFails_Slip(outcome) ==
  \/ outcome = "Pending" /\ Becomes("CANCELLED") /\ UNCHANGED status
  \/ outcome = "Ban" /\ Ends("Ban", "OPEN")
  \/ outcome \notin {"Pending", "Ban"} /\ Becomes("OPEN") /\ UNCHANGED status

CancelFails(outcome) ==
  \/ outcome = "Pending" /\ UNCHANGED <<child, status>>
  \/ outcome = "Ban" /\ Ends("Ban", "OPEN")
  \/ outcome \notin {"Pending", "Ban"} /\ Becomes("OPEN") /\ UNCHANGED status

CancelAnswer ==
  /\ pc = "cancel" /\ pc' = "idle" /\ UNCHANGED n
  /\ \E r \in Replies : \E done \in BOOLEAN :
       /\ done => book[n] = "alive" /\ r \notin Refusals
       /\ r.status = "200" => done
       /\ book' = IF done THEN [book EXCEPT ![n] = "cancelled"] ELSE book
       /\ \/ /\ Outcome(r, "CANCEL") = "Answered" /\ UNCHANGED status
             /\ Becomes(SetChildStatus("PENDING_CANCEL", "CANCELLED"))
          \/ Outcome(r, "CANCEL") # "Answered" /\ CancelFails(Outcome(r, "CANCEL"))

Lookup ==
  /\ pc = "idle" /\ status = "RUNNING" /\ n > 0
  /\ child[n] \notin TerminalChild \cup Forgotten
  /\ pc' = "lookup"
  /\ UNCHANGED <<status, n, child, book>>

LookupFound ==
  /\ pc = "lookup" /\ pc' = "idle" /\ book[n] # "none"
  /\ \E r \in Replies : Outcome(r, "READ") = "Answered"
  /\ Becomes(SetChildStatus(child[n], Seen[book[n]]))
  /\ UNCHANGED <<status, n, book>>

\* A slip: an order that is not found may still arrive.
LookupMissing_Slip ==
  /\ pc = "lookup" /\ pc' = "idle" /\ book[n] = "none"
  /\ \E r \in Replies : Outcome(r, "READ") = "Terminal" /\ NotFound(r)
  /\ UNCHANGED <<status, n, child, book>>

LookupMissing ==
  /\ pc = "lookup" /\ pc' = "idle" /\ book[n] = "none"
  /\ \E r \in Replies : Outcome(r, "READ") = "Terminal" /\ NotFound(r)
  /\ IF child[n] = "UNKNOWN" THEN Becomes("REJECTED") ELSE UNCHANGED child
  /\ UNCHANGED <<status, n, book>>

\* No answer to a lookup says anything of the order; a ban fails the execution.
LookupFails ==
  /\ pc = "lookup" /\ pc' = "idle"
  /\ \E r \in Replies : Outcome(r, "READ") # "Answered" /\ ~NotFound(r)
       /\ status' = IF Outcome(r, "READ") = "Ban" THEN "FAILED" ELSE status
  /\ UNCHANGED <<n, child, book>>

\* The venue fills or closes an order on its own.
Moves ==
  /\ \E a \in Attempts : \E b \in {"filled", "cancelled"} :
       book[a] = "alive" /\ book' = [book EXCEPT ![a] = b]
  /\ UNCHANGED <<status, n, child, pc>>

Next ==
  \/ Submit \/ RulesAnswer \/ CreateAnswer
  \/ Cancel \/ CancelAnswer
  \/ Lookup \/ LookupFound \/ LookupMissing \/ LookupFails
  \/ Moves

Spec == Init /\ [][Next]_vars

\* The loop goes on looking, and is answered again and again.
FairSpec ==
  /\ Spec /\ WF_vars(Lookup) /\ WF_vars(LookupFails)
  /\ SF_vars(LookupFound) /\ SF_vars(LookupMissing)
  /\ WF_vars(CancelAnswer) /\ WF_vars(CreateAnswer)

(***************************************************************************)
(* Properties.                                                             *)
(***************************************************************************)
\* Types; a child waits for its create, or for its cancel, while that request
\* is under way.
TypeOK ==
  /\ status \in {"RUNNING", "FAILED"} /\ n \in 0 .. MaxAttempts
  /\ child \in [Attempts -> ChildOrderStatus \cup Forgotten]
  /\ book \in [Attempts -> {"none", "alive", "filled", "cancelled"}]
  /\ pc \in {"idle", "rules", "create", "cancel", "lookup"}
  /\ \A a \in Attempts : child[a] = "PENDING_SUBMIT" <=> a = n /\ pc \in {"rules", "create"}
  /\ pc # "idle" => n > 0
  /\ pc = "cancel" => child[n] = "PENDING_CANCEL"
  /\ pc = "lookup" => child[n] \in {"OPEN", "PENDING_CANCEL", "UNKNOWN"}

\* The venue refuses what the adapter takes for a refusal.
Trusted ==
  \A r \in Replies :
    Outcome(r, "CREATE") \notin {"Answered", "Unknown"} => r \in Refusals

\* What the engine forgets or rejects is not on the book and has not filled: the
\* assumption under which ExecutionEngine drops a child (_signed_request,
\* _submit_child_locked).
ForgottenIsGone ==
  \A a \in Attempts : child[a] \in Forgotten \cup {"REJECTED"} => book[a] = "none"

\* A child that the engine calls closed is closed at the venue, the same way.
ClosedIsClosed ==
  \A a \in Attempts : /\ child[a] = "FILLED" => book[a] = "filled"
                      /\ child[a] = "CANCELLED" => book[a] = "cancelled"

\* However requests are lost, refused or answered in doubt, the demand is never
\* on the book twice.
NoTwins ==
  \A a, b \in Attempts :
    {book[a], book[b]} \subseteq {"alive", "filled"} => a = b

\* An earlier attempt is over; the last one is what the engine takes it for.
IInv ==
  /\ TypeOK /\ ForgottenIsGone /\ ClosedIsClosed
  /\ \A a \in Attempts : /\ a < n => child[a] \in {"FORGOTTEN", "REJECTED", "CANCELLED"}
                         /\ a > n => child[a] = "NONE"
                         /\ child[a] = "PENDING_SUBMIT" => book[a] = "none"
                         /\ child[a] \in {"OPEN", "PENDING_CANCEL"} => book[a] # "none"
                         /\ child[a] # "PARTIALLY_FILLED"

\* A create in doubt is decided, and a cancel in doubt is, unless the execution
\* fails before (get_order_by_client_order_id, _refresh_order_states_exact_locked).
DoubtsResolve ==
  \A a \in Attempts : \A doubt \in {"UNKNOWN", "PENDING_CANCEL"} :
    child[a] = doubt ~> child[a] # doubt \/ status = "FAILED"

=============================================================================
