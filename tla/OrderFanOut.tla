----------------------------- MODULE OrderFanOut -----------------------------
(***************************************************************************)
(* What the distributor promises, without its goroutines, channel or       *)
(* timers: every order of a call is decided once, accepted or rejected; an *)
(* accepted order is delivered once; and a call reports, when all its      *)
(* orders are decided, how many were accepted and how many rejected. Only  *)
(* deliveries end when the worker stops.                                   *)
(***************************************************************************)
EXTENDS Naturals, FiniteSets

CONSTANTS Calls, Followers

VARIABLES batch,      \* [Calls -> SUBSET Followers]: the followers of a call
          verdict,    \* [Calls -> [Followers -> Verdicts]]
          delivered,  \* orders the worker has taken
          report,     \* [Calls -> reports \cup {NoReport}]
          working     \* the worker has not stopped

Orders   == Calls \X Followers
Verdicts == {"none", "pending", "accepted", "rejected"}
NoReport == [total |-> 0, ok |-> 0, err |-> 0, final |-> FALSE]

With(c, v) == {f \in Followers : verdict[c][f] = v}

FInit == /\ batch = [c \in Calls |-> {}]
         /\ verdict = [c \in Calls |-> [f \in Followers |-> "none"]]
         /\ delivered = {}
         /\ report = [c \in Calls |-> NoReport]
         /\ working = TRUE

\* A call without followers reports at once.
Ask(c, fs) ==
    /\ verdict[c] = [f \in Followers |-> "none"]
    /\ ~report[c].final
    /\ batch' = [batch EXCEPT ![c] = fs]
    /\ verdict' = [verdict EXCEPT ![c] =
                      [f \in Followers |-> IF f \in fs THEN "pending" ELSE "none"]]
    /\ report' = [report EXCEPT ![c].final = (fs = {})]
    /\ UNCHANGED <<delivered, working>>

Decide(c, f) ==
    /\ verdict[c][f] = "pending"
    /\ \E v \in {"accepted", "rejected"} : verdict' = [verdict EXCEPT ![c][f] = v]
    /\ UNCHANGED <<batch, delivered, report, working>>

\* Delivering one order may let in another that was waiting.
Deliver(c, f) ==
    /\ working
    /\ verdict[c][f] = "accepted"
    /\ <<c, f>> \notin delivered
    /\ delivered' = delivered \cup {<<c, f>>}
    /\ \/ UNCHANGED verdict
       \/ \E o \in Orders : /\ verdict[o[1]][o[2]] = "pending"
                            /\ verdict' = [verdict EXCEPT ![o[1]][o[2]] = "accepted"]
    /\ UNCHANGED <<batch, report, working>>

Report(c) ==
    /\ batch[c] # {}
    /\ ~report[c].final
    /\ With(c, "pending") = {}
    /\ report' = [report EXCEPT ![c] =
                     [total |-> Cardinality(batch[c]),
                      ok    |-> Cardinality(With(c, "accepted")),
                      err   |-> Cardinality(With(c, "rejected")),
                      final |-> TRUE]]
    /\ UNCHANGED <<batch, verdict, delivered, working>>

Stop == /\ working
        /\ working' = FALSE
        /\ UNCHANGED <<batch, verdict, delivered, report>>

FNext == \/ \E c \in Calls :
               \/ \E fs \in SUBSET Followers : Ask(c, fs)
               \/ \E f \in Followers : Decide(c, f) \/ Deliver(c, f)
               \/ Report(c)
         \/ Stop

fvars == <<batch, verdict, delivered, report, working>>

\* Every order is decided, every accepted one delivered by a worker that has
\* not stopped, every call reported.
FFairness == \A c \in Calls :
                /\ \A f \in Followers : WF_fvars(Decide(c, f)) /\ WF_fvars(Deliver(c, f))
                /\ WF_fvars(Report(c))

\* What may happen, without what must.
FSafety == FInit /\ [][FNext]_fvars

FSpec == FSafety /\ FFairness
=============================================================================
