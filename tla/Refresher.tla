------------------------------ MODULE Refresher ------------------------------
(***************************************************************************)
(* The refresher of belle-sip (refresher.c): it keeps a registration, a    *)
(* publication or a subscription alive by sending its request again before *)
(* it expires, and again after a failure.  Its state is touched by the     *)
(* application, by a timer, by the answers, time-outs and errors of its    *)
(* current transaction and by the end of its dialog, in any order, and the *)
(* application may call back into it from its own listener.  Each action   *)
(* is one event of the main loop.                                          *)
(***************************************************************************)
EXTENDS Integers

CONSTANTS
    Methods,        \* methods of the refreshed request
    Codes,          \* status codes of its answers
    Calls           \* what the application may call inside the listener

ASSUME MethodsAssumption == Methods \subseteq {"REGISTER", "PUBLISH", "SUBSCRIBE"}
ASSUME CodesAssumption == Codes \subseteq 200..699
ASSUME CallsAssumption == Calls \subseteq {"none", "stop", "refresh", "unrefresh"}

VARIABLES
    method,     \* of the request
    manual,     \* belle_sip_refresher_enable_manual_mode
    w           \* the refresher and its current transaction

vars == <<method, manual, w>>

REUSE_EXPIRES == -1         \* BELLE_SIP_REFRESHER_REUSE_EXPIRES

NoFailure == -1
ToldCaller == -2            \* -1 was returned to the application
Dropped == -3               \* -1 was returned to the refresher itself
AboutToExpire == 0          \* the listener is told to refresh manually

\* What becomes of a request: it is sent, it waits for the channel, its dialog
\* is busy, the credentials are missing, or the provider has no channel for it.
Conds == {"ready", "connecting", "nochannel"}
            \cup (IF method = "SUBSCRIBE" THEN {"busy"} ELSE {})

\* The same for a request that follows the end of another: only a PUBLISH may
DelayedConds == IF method = "PUBLISH" THEN Conds ELSE {"ready"}

\* What the application does inside its listener
Reactions ==
    [call : Calls \ {"none", "stop"}, cond : Conds]
        \cup [call : Calls \cap {"none"}, cond : {"ready"}]
        \cup [call : Calls \cap {"stop"}, cond : DelayedConds]

\* Expirations are 0 or 1, which stands for every positive one: the delays of
\* the timers, and number_of_retry which chooses among them, are not modelled.
RefresherStates ==
    [state : {"started", "stopped"},
     timer : {"none", "NORMAL_REFRESH", "RETRY"},       \* armed, for a purpose
     target_expires : 0..1,
     auth_failures : 0..1,
     publish_pending : BOOLEAN,
     on_io_error : BOOLEAN,
     contact_fixing : BOOLEAN,
     first_acknowledged : BOOLEAN,      \* of a SUBSCRIBE: only read with a dialog
     dialog : {"none", "CONFIRMED", "TERMINATED"},
     learnt : BOOLEAN,          \* the channel knows its public address
     tx : [state : {"INIT", "TRYING", "PROCEEDING", "COMPLETED", "TERMINATED"},
           expires : 0..1,      \* Expires of the request
           unknown : BOOLEAN,   \* its Contact was a guess
           channel : BOOLEAN,   \* has a channel
           timed_out : BOOLEAN],
     ret : -1..0,               \* of the last belle_sip_refresher_refresh
     fresh : BOOLEAN,           \* history: this step sent a request
     overlap : BOOLEAN,         \* history: a request was sent with one pending
     quiet : BOOLEAN,           \* history: stop was the application's last call
     last : Codes \cup {NoFailure, ToldCaller, Dropped, AboutToExpire, 408, 503}]
                                \* history: the failure since the last refresh

\* belle_sip_transaction_state_is_transient
Transient(r) == r.tx.state \in {"INIT", "TRYING", "PROCEEDING"}

NewTransaction(r, cond) ==
    [state |-> CASE cond = "connecting" -> "INIT"
                 [] cond = "nochannel" -> "TERMINATED"
                 [] OTHER -> "TRYING",
     expires |-> r.target_expires,
     unknown |-> method # "PUBLISH" /\ ~r.learnt,
     channel |-> cond # "nochannel",
     timed_out |-> FALSE]

-----------------------------------------------------------------------------
(* The functions of refresher.c, on the refresher r.  Delays are left out. *)

cancel_retry(r) == [r EXCEPT !.timer = "none"]

schedule_timer_at(r, purpose) == [r EXCEPT !.timer = purpose]

retry_later(r) == schedule_timer_at(r, "RETRY")

schedule_timer(r) == schedule_timer_at(r, "NORMAL_REFRESH")

\* The new transaction takes the place of the old one, which is terminated in
\* an early state and left alone in PROCEEDING.  Without a channel it is over
\* at once, and process_transaction_terminated tries once more in vain.
Submit(r, cond) ==
    LET sent == [r EXCEPT !.on_io_error = FALSE,
                          !.tx = NewTransaction(r, cond),
                          !.learnt = @ /\ cond # "connecting",
                          !.overlap = @ \/ r.tx.state = "PROCEEDING",
                          !.fresh = TRUE,
                          !.ret = 0]
        again == r.publish_pending /\ r.state = "started"
    IN IF cond # "nochannel" THEN sent
       ELSE [sent EXCEPT !.ret = -1,
                         !.publish_pending = FALSE,
                         !.timer = IF again THEN "none" ELSE @,
                         !.auth_failures = IF again THEN 0 ELSE @]

\* Fault: the value that asks to keep the expiration becomes the expiration.
Aim_NoReuse(r, expires) == [r EXCEPT !.target_expires = expires]

Aim(r, expires) == IF expires >= 0 THEN [r EXCEPT !.target_expires = expires] ELSE r

\* Fault: a PUBLISH is sent whatever its predecessor is doing.
Delayed_Never(r) == FALSE

\* A PUBLISH waits for the end of its predecessor.
Delayed(r) == method = "PUBLISH" /\ r.dialog = "none" /\ Transient(r)

\* belle_sip_refresher_refresh_internal.  In an established dialog the request
\* waits for no transaction but the dialog's last one, which "busy" stands for.
\* A dialog that is over is replaced, with the first request that succeeded.
refresh_internal(r, expires, auth_mandatory, cond) ==
    LET aimed == Aim(r, expires)
        refused == \/ method = "SUBSCRIBE" /\ r.dialog = "none" /\ Transient(r)
                   \/ r.dialog = "CONFIRMED" /\ cond = "busy"
                   \/ r.dialog = "TERMINATED" /\ ~r.first_acknowledged
                   \/ auth_mandatory /\ cond = "nocreds"
        replaced == r.dialog = "TERMINATED"
        sent == Submit([aimed EXCEPT !.dialog = IF replaced THEN "none" ELSE @,
                                     !.first_acknowledged = @ /\ ~replaced], cond)
    IN IF Delayed(r) THEN [aimed EXCEPT !.publish_pending = TRUE, !.ret = 0]
       ELSE IF refused THEN [aimed EXCEPT !.ret = -1]
       ELSE IF sent.ret = 0 /\ expires = 0
       THEN [cancel_retry(sent) EXCEPT !.state = "stopped"]     \* stop_internal(refresher, 0)
       ELSE sent

\* belle_sip_refresher_refresh
refresh(r, expires, cond) ==
    refresh_internal([cancel_retry(r) EXCEPT !.auth_failures = 0, !.last = NoFailure],
                     expires, FALSE, cond)

\* A refresh by the refresher itself, which does not look at the result
refresh_unchecked(r, cond) ==
    LET done == refresh(r, r.target_expires, cond)
    IN IF done.ret = -1 THEN [done EXCEPT !.last = Dropped] ELSE done

\* Fault: the delayed PUBLISH is forgotten at the end of the one before.
process_transaction_terminated_Forgets(r, cond) == [r EXCEPT !.publish_pending = FALSE]

\* process_transaction_terminated, of the current transaction
process_transaction_terminated(r, cond) ==
    IF r.publish_pending /\ r.state = "started"
    THEN refresh_unchecked([r EXCEPT !.publish_pending = FALSE], cond)
    ELSE [r EXCEPT !.publish_pending = FALSE]

\* belle_sip_transaction_terminate, of the current transaction
terminate(r, cond) ==
    IF r.tx.state = "TERMINATED" THEN r
    ELSE process_transaction_terminated([r EXCEPT !.tx.state = "TERMINATED"], cond)

\* Fault: the timer goes on.
stop_KeepsTimer(r, cond) ==
    [(IF Transient(r) THEN terminate(r, cond) ELSE r) EXCEPT !.state = "stopped"]

\* belle_sip_refresher_stop.  The transaction ends before the state changes.
stop(r, cond) ==
    LET silent == cancel_retry(r)
    IN [(IF Transient(r) THEN terminate(silent, cond) ELSE silent) EXCEPT
           !.state = "stopped"]

-----------------------------------------------------------------------------
(* The application *)

AppRefresh(r, expires, cond) ==
    LET done == refresh([r EXCEPT !.quiet = FALSE], expires, cond)
    IN IF done.ret = -1 THEN [done EXCEPT !.last = ToldCaller] ELSE done

AppStop(r, cond) == [stop(r, cond) EXCEPT !.quiet = TRUE]

\* A call of the listener, that may call the refresher
React(r, reaction) ==
    CASE reaction.call = "none" -> r
      [] reaction.call = "stop" -> AppStop(r, reaction.cond)
      [] reaction.call = "refresh" -> AppRefresh(r, 1, reaction.cond)
      [] reaction.call = "unrefresh" -> AppRefresh(r, 0, reaction.cond)

listener(r, code, reaction) == React([r EXCEPT !.last = code], reaction)

\* An event is handled by the refresher as it is, with no request sent yet.
Handle(result) ==
    /\ w' = [result EXCEPT !.ret = 0]
    /\ UNCHANGED <<method, manual>>

Now == [w EXCEPT !.fresh = FALSE]

CallRefresh ==
    \E expires \in {REUSE_EXPIRES, 0, 1}, cond \in Conds : Handle(AppRefresh(Now, expires, cond))

CallStop ==
    \E cond \in DelayedConds : Handle(AppStop(Now, cond))

-----------------------------------------------------------------------------
(* Events *)

\* Fault: a refresh that cannot be sent is given up.
timer_cb_GivesUp(r, cond, reaction) ==
    IF r.timer = "NORMAL_REFRESH" /\ manual
    THEN listener(cancel_retry(r), AboutToExpire, reaction)
    ELSE refresh(r, r.target_expires, cond)

\* timer_cb
timer_cb(r, cond, reaction) ==
    IF r.timer = "NORMAL_REFRESH" /\ manual
    THEN listener(cancel_retry(r), AboutToExpire, reaction)
    ELSE LET done == refresh(r, r.target_expires, cond)
         IN IF done.ret = -1 THEN retry_later(done) ELSE done

\* process_io_error, from the current transaction
process_io_error(r, reaction) ==
    IF \/ r.on_io_error
       \/ r.tx.state = "PROCEEDING" /\ (r.state = "stopped" \/ r.target_expires = 0)
    THEN r
    ELSE listener(IF r.state = "started" THEN retry_later(r) ELSE r, 503, reaction)

\* process_io_error, from the provider: the channel of an ended transaction
process_provider_error(r, reaction) ==
    IF r.on_io_error \/ r.state = "stopped" THEN r
    ELSE LET told == listener(retry_later(r), 503, reaction)
         IN [told EXCEPT !.on_io_error = TRUE]

\* process_timeout
process_timeout(r, reaction) ==
    listener(IF r.state = "started" THEN retry_later(r) ELSE r, 408, reaction)

\* The 2xx of process_response_event
Success(r, accurate, cond, reaction) ==
    LET heard == [r EXCEPT !.auth_failures = 0,
                           !.target_expires = r.tx.expires,
                           !.dialog = IF method = "SUBSCRIBE" /\ @ = "none"
                                      THEN "CONFIRMED" ELSE @]
        ended == IF heard.target_expires = 0 THEN stop(heard, cond) ELSE heard
        kept == [ended EXCEPT !.first_acknowledged = method = "SUBSCRIBE"]
    IN IF ended.state = "stopped"
       THEN listener(ended, NoFailure, reaction)
       ELSE IF accurate
       THEN listener(schedule_timer(kept), NoFailure, reaction)
       ELSE IF ~r.contact_fixing
       THEN [refresh_unchecked(kept, cond) EXCEPT !.contact_fixing = TRUE]
       ELSE listener(schedule_timer([kept EXCEPT !.contact_fixing = FALSE]), NoFailure, reaction)

\* The other final answers.  header: the answer has the header that its code
\* asks for (Contact for 302, Min-Expires for 423, Retry-After for 480).
Failure(r, code, header, cond, reaction) ==
    LET wanted == r.target_expires > 0
        later == IF wanted THEN retry_later(r) ELSE r
        resubmitted == refresh_internal(r, r.target_expires, TRUE, cond)
        challenged == [r EXCEPT !.auth_failures = 1]
        answered == refresh_internal(challenged, r.target_expires, TRUE, cond)
    IN CASE code \in {301, 302} ->
              IF ~header THEN listener(r, code, reaction)
              ELSE IF resubmitted.ret = 0 THEN resubmitted
              ELSE listener(resubmitted, code, reaction)
         [] code \in {401, 407} ->
              IF r.auth_failures > 0
              THEN listener([later EXCEPT !.auth_failures = 0], code, reaction)
              ELSE IF answered.ret = 0 THEN answered ELSE listener(answered, code, reaction)
         [] code = 412 /\ method = "PUBLISH" /\ wanted -> later
         [] code = 423 ->
              IF header /\ r.state = "started"
              THEN refresh_unchecked([r EXCEPT !.target_expires = 1], cond)
              ELSE listener(r, code, reaction)
         [] code = 491 /\ wanted -> later
         [] code \in {404, 480, 500} ->
              IF wanted /\ header THEN later ELSE listener(r, code, reaction)
         [] code >= 600 -> listener(r, code, reaction)
         [] OTHER -> listener(later, code, reaction)

\* A final answer to the current transaction
Answered == [Now EXCEPT !.tx.state = "COMPLETED", !.learnt = TRUE]

ProcessSuccess ==
    /\ w.tx.state \in {"TRYING", "PROCEEDING"}
    /\ \E accurate \in {TRUE, ~w.tx.unknown}, cond \in Conds, reaction \in Reactions :
          Handle(Success(Answered, accurate, cond, reaction))

ProcessFailure ==
    /\ w.tx.state \in {"TRYING", "PROCEEDING"}
    /\ \E code \in {c \in Codes : c >= 300}, reaction \in Reactions :
          \E header \in IF code \in {301, 302, 404, 423, 480, 500} THEN BOOLEAN ELSE {FALSE},
             cond \in IF code \in {301, 302, 401, 407, 423} THEN Conds \cup {"nocreds"} ELSE {"ready"} :
                Handle(Failure(Answered, code, header, cond, reaction))

\* 100: the listener is told, nothing else changes.
Provisional ==
    /\ w.tx.state = "TRYING"
    /\ \E reaction \in Reactions :
          Handle(React([Now EXCEPT !.tx.state = "PROCEEDING", !.learnt = TRUE], reaction))

\* on_channel_state_changed with READY
ChannelReady ==
    /\ w.tx.state = "INIT"
    /\ Handle([Now EXCEPT !.tx.state = "TRYING",
                          !.tx.unknown = method # "PUBLISH" /\ ~w.learnt])

\* Timer K, or the end of a transaction over a reliable channel
TransactionEnds ==
    /\ w.tx.state = "COMPLETED"
    /\ \E cond \in DelayedConds : Handle(terminate(Now, cond))

TimerCb ==
    /\ w.timer # "none"
    /\ \E cond \in Conds, reaction \in Reactions : Handle(timer_cb(Now, cond, reaction))

\* Timer F (belle_sip_transaction_notify_timeout).  A REGISTER may report its
\* channel instead, whose error then ends it.
TransactionTimeout ==
    /\ w.tx.state \in {"TRYING", "PROCEEDING"} /\ ~w.tx.timed_out
    /\ \/ \E cond \in DelayedConds, reaction \in Reactions :
             LET told == process_timeout(Now, reaction)
             IN Handle(IF told.fresh THEN told ELSE terminate(told, cond))
       \/ /\ method = "REGISTER"
          /\ Handle([Now EXCEPT !.tx.timed_out = TRUE])

\* The channel of the current transaction fails: the provider hears it first,
\* then the transaction (transaction_handle_channel_error), which loses it.
ChannelLost ==
    /\ w.tx.channel
    /\ \E cond \in DelayedConds, reaction, second \in Reactions :
          LET r == [Now EXCEPT !.learnt = FALSE]
              told == IF r.tx.state = "TERMINATED" THEN process_provider_error(r, reaction)
                      ELSE IF Transient(r) THEN process_io_error(r, reaction)
                      ELSE r
              expired == IF r.tx.timed_out /\ ~told.fresh THEN process_timeout(told, second)
                         ELSE told
              ended == IF expired.fresh THEN expired ELSE terminate(expired, cond)
          IN /\ r.tx.timed_out \/ second = reaction
             /\ Handle(IF ended.fresh THEN ended ELSE [ended EXCEPT !.tx.channel = FALSE])

\* The dialog of a subscription is over: it expired, and the listener is told
\* (process_dialog_terminated), or the notifier ended it.
DialogEnds ==
    /\ w.dialog = "CONFIRMED"
    /\ \E reaction \in Reactions :
          LET r == [Now EXCEPT !.dialog = "TERMINATED"]
          IN Handle(IF r.state = "started" THEN React(r, reaction) ELSE r)

-----------------------------------------------------------------------------

\* belle_sip_refresher_new takes over a transaction that is pending, or one
\* that was successful, whose Contact may have to be corrected at once.
Adopted(state) ==
    [state |-> "started",
     timer |-> IF state = "COMPLETED" THEN "NORMAL_REFRESH" ELSE "none",
     target_expires |-> 1, auth_failures |-> 0, publish_pending |-> FALSE,
     on_io_error |-> FALSE, contact_fixing |-> FALSE,
     first_acknowledged |-> state = "COMPLETED" /\ method = "SUBSCRIBE",
     dialog |-> IF state = "COMPLETED" /\ method = "SUBSCRIBE" THEN "CONFIRMED" ELSE "none",
     learnt |-> state = "COMPLETED",
     tx |-> [state |-> state, expires |-> 1, unknown |-> method # "PUBLISH",
             channel |-> TRUE, timed_out |-> FALSE],
     ret |-> 0, fresh |-> FALSE, overlap |-> FALSE, quiet |-> FALSE, last |-> NoFailure]

Init ==
    /\ method \in Methods
    /\ manual \in BOOLEAN
    /\ \/ \E state \in {"INIT", "TRYING", "COMPLETED"} : w = Adopted(state)
       \/ /\ method # "PUBLISH"
          /\ \E cond \in Conds : w = refresh_unchecked(Adopted("COMPLETED"), cond)

Next ==
    \/ CallRefresh \/ CallStop
    \/ ProcessSuccess \/ ProcessFailure \/ Provisional \/ ChannelReady
    \/ TransactionEnds \/ TransactionTimeout \/ ChannelLost
    \/ TimerCb \/ DialogEnds

Spec == Init /\ [][Next]_vars

\* A channel that connects becomes ready or fails, timers fire, and a channel
\* that was reported fails: all of these wait in the main loop.
FairSpec ==
    /\ Spec
    /\ WF_vars(w.tx.state = "INIT" /\ (ChannelReady \/ ChannelLost))
    /\ WF_vars(TransactionTimeout)
    /\ WF_vars(w.tx.timed_out /\ ChannelLost)
    /\ WF_vars(TransactionEnds)

-----------------------------------------------------------------------------
(* Properties *)

\* The refresher keeps its types: above all, an expiration that is sent is
\* never the -1 by which the application asks for the last one.
TypeOK ==
    /\ method \in Methods
    /\ manual \in BOOLEAN
    /\ w \in RefresherStates

\* A failure after which refresher.c arms no timer but tells the application,
\* or of which belle_sip_refresher_refresh told it with -1; Dropped is one that
\* the refresher met in a refresh of its own, whose result it ignores.
Final == {AboutToExpire, ToldCaller, Dropped, 301, 302, 401, 407, 404, 423, 480, 500}
             \cup {code \in Codes : code >= 600}

\* A started refresher that wants its registration and does nothing for it
Unattended == w.state = "started" /\ w.target_expires > 0 /\ w.timer = "none" /\ ~Transient(w)

\* A started refresher that still wants its registration has a timer armed or
\* a request under way, whatever time-outs, errors and answers it met and
\* whatever the application called meanwhile, unless the last attempt ended in
\* one of the failures that the code reports without a retry, or on_io_error hid
\* it: a listener that refreshes when it is told of an error of the channel finds
\* the flag raised behind its back (refresher.c:183), and an error of its new
\* request is then neither reported nor retried.
NeverAbandoned == Unattended => w.last \in Final \/ w.on_io_error

\* After belle_sip_refresher_stop, and until the application asks again, no
\* late answer, error or end of a transaction arms the timer or sends anything.
\* A PUBLISH that was delayed is the exception: see StopTerminates.
QuietOnceStopped ==
    w.quiet /\ method # "PUBLISH" => w.timer = "none" /\ ~Transient(w)

\* The transactions of a publication never overlap, as the entity tag that one
\* gets is the condition of the next.
PublishesInSequence == method = "PUBLISH" => ~w.overlap

\* A publication that had to wait for the end of the transaction under way is
\* tried when that transaction is over, however it ends: clearing the flag is
\* not enough.  It is then sent, unless the refresher is stopped or there is no
\* channel for it; in that last case it is lost, as the result of the refresh in
\* process_transaction_terminated is ignored (refresher.c:471).
DelayedPublishSent ==
    w.publish_pending ~> \/ w.fresh /\ w.tx.channel
                         \/ w.fresh /\ w.tx.state = "TERMINATED"
                         \/ w.state = "stopped"

\* refresher.h of belle_sip_refresher_stop: "If a transaction is pending, it
\* will be terminated."
StopTerminates == w.quiet => ~Transient(w)

==============================================================================
