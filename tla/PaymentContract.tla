---------------------------- MODULE PaymentContract ----------------------------
(***************************************************************************)
(* What the PaymentGateway port (src/domain/ports/payment-gateway.ts)      *)
(* promises the order use cases, with nothing of attempts, timeouts, the   *)
(* breaker or HTTP: under each key the provider decides at most once and   *)
(* for good, only if somebody asked it to charge; a call that reports a    *)
(* decision reports that one; a status call reports that there is no       *)
(* charge only if there was none when it began; any call may know nothing. *)
(***************************************************************************)
CONSTANTS Calls, Keys, KindOfCall, KeyOfCall

VARIABLES
    decision,   \* by key: "none", "approved" or "declined"
    outcome,    \* by call: "idle", "running" or the status it returned
    blank       \* by call: no charge was recorded when it began

contractVars == <<decision, outcome, blank>>

Init ==
    /\ decision = [k \in Keys |-> "none"]
    /\ outcome = [c \in Calls |-> "idle"]
    /\ blank = [c \in Calls |-> TRUE]

Begin(c) ==
    /\ outcome[c] = "idle"
    /\ outcome' = [outcome EXCEPT ![c] = "running"]
    /\ blank' = [blank EXCEPT ![c] = decision[KeyOfCall[c]] = "none"]
    /\ UNCHANGED decision

\* The provider decides, possibly long after the call that asked has returned.
Decide(k) ==
    /\ decision[k] = "none"
    /\ \E c \in Calls :
          KindOfCall[c] = "charge" /\ KeyOfCall[c] = k /\ outcome[c] # "idle"
    /\ \E d \in {"approved", "declined"} : decision' = [decision EXCEPT ![k] = d]
    /\ UNCHANGED <<outcome, blank>>

\* What a call may truthfully report.
MayReport(c) ==
    {"UNKNOWN"}
        \cup {s \in {"CAPTURED"} : decision[KeyOfCall[c]] = "approved"}
        \cup {s \in {"DECLINED"} : decision[KeyOfCall[c]] = "declined"}
        \cup {s \in {"FAILED"} : KindOfCall[c] = "getStatus" /\ blank[c]}

Return(c) ==
    /\ outcome[c] = "running"
    /\ \E s \in MayReport(c) : outcome' = [outcome EXCEPT ![c] = s]
    /\ UNCHANGED <<decision, blank>>

\* A call turned away before anything is sent.
TurnAway(c) ==
    /\ outcome[c] = "idle"
    /\ outcome' = [outcome EXCEPT ![c] = "UNKNOWN"]
    /\ UNCHANGED <<decision, blank>>

Next ==
    \/ \E c \in Calls : Begin(c) \/ Return(c) \/ TurnAway(c)
    \/ \E k \in Keys : Decide(k)

Spec == Init /\ [][Next]_contractVars
=============================================================================
