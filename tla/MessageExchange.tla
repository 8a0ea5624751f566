---------------------------- MODULE MessageExchange ----------------------------
(***************************************************************************)
(* What exchange() of vehicle_message_gateway.h promises its callers.       *)
(*                                                                         *)
(* A call is refused before anything goes out, or its outcome is decided    *)
(* once and returned as decided.  An outcome that says the cloud answered   *)
(* needs a message that went out: the call's own or, since a message id may *)
(* be used again and answers may be late, that of a call which had returned *)
(* before; never that of a call still under way, until stop() has cleared   *)
(* the correlation.  Several calls may be decided in one step, by the       *)
(* sweeper and by stop(), so a step is stated call by call.                 *)
(***************************************************************************)
CONSTANT Calls

VARIABLES
    status,   \* "idle", "open", "decided", "returned" or "refused"
    outcome,  \* the outcome decided, or "none"
    sent,     \* the calls whose message went out
    cleared   \* whether stop() has cleared the correlation

abstractVars == <<status, outcome, sent, cleared>>

Answers == {"Accepted", "PayloadTooLarge"}
Verdicts == Answers \cup {"Timeout", "Unknown", "Stopping"}

AbstractInit ==
    /\ status = [c \in Calls |-> "idle"]
    /\ outcome = [c \in Calls |-> "none"]
    /\ sent = {}
    /\ cleared = FALSE

Answerable(c) ==
    \E d \in Calls : /\ d \in sent
                     /\ d = c \/ status[d] = "returned" \/ cleared

(* The parts of a call's state that its step leaves alone. *)
KeepsStatus(c) == status'[c] = status[c]
KeepsOutcome(c) == outcome'[c] = outcome[c]
KeepsSent(c) == c \in sent' <=> c \in sent

Opens(c) ==
    /\ status[c] = "idle" /\ status'[c] = "open"
    /\ KeepsOutcome(c) /\ KeepsSent(c)

Refuses(c) ==
    /\ status[c] \in {"idle", "open"} /\ c \notin sent
    /\ status'[c] = "refused"
    /\ KeepsOutcome(c) /\ KeepsSent(c)

Sends(c) ==
    /\ status[c] \in {"open", "decided", "returned"} /\ c \notin sent
    /\ c \in sent'
    /\ KeepsStatus(c) /\ KeepsOutcome(c)

Decides(c) ==
    /\ status[c] = "open" /\ status'[c] = "decided"
    /\ outcome'[c] \in Verdicts
    /\ outcome'[c] \in Answers => Answerable(c)
    /\ KeepsSent(c)

(* The publish itself had an unknown outcome. *)
Abandons(c) ==
    /\ status[c] = "open" /\ status'[c] = "returned"
    /\ outcome'[c] = "Unknown"
    /\ KeepsSent(c)

Returns(c) ==
    /\ status[c] = "decided" /\ status'[c] = "returned"
    /\ KeepsOutcome(c) /\ KeepsSent(c)

Rests(c) == KeepsStatus(c) /\ KeepsOutcome(c) /\ KeepsSent(c)

CallStep(c) ==
    \/ Opens(c) \/ Refuses(c) \/ Sends(c) \/ Decides(c) \/ Abandons(c)
    \/ Returns(c) \/ Rests(c)

AbstractNext ==
    /\ \A c \in Calls : CallStep(c)
    /\ cleared => cleared'

AbstractSpec == AbstractInit /\ [][AbstractNext]_abstractVars
=============================================================================
