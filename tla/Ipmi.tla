-------------------------------- MODULE Ipmi --------------------------------
(***************************************************************************)
(* The ipmi module (pkg/module/ipmi): a session with the BMC that is opened  *)
(* at the first command, goes stale when it is not used, and is re-opened    *)
(* once when a command fails.                                               *)
(***************************************************************************)
EXTENDS ModuleRun

VARIABLES
  session,   \* client and connected: "none", "live", or "stale"
  tries,     \* how often the client has sent the request of this attempt again
  executed,  \* history: how often the BMC carries out the command of this Run
  faults,    \* history: requests of this Run that were lost, late or cancelled
  unanswered \* history: those of them that the BMC carries out

ipmiVars == <<session, tries, executed, faults, unanswered>>

(* The configuration needs a host; nothing is connected.                    *)
ipmiInit ==
  /\ kind = "ipmi" /\ InitReturns(mod.host # "none")
  /\ UNCHANGED ipmiVars

(* A missing or unknown command is only reported.                           *)
ipmiRun ==
  /\ kind = "ipmi" /\ pc = "begin"
  /\ IF cmd \in {<<>>, <<"bad">>} THEN Return("ok") ELSE To("connect")
  /\ executed' = 0 /\ faults' = 0 /\ unanswered' = 0 /\ UNCHANGED <<session, tries>>

(* Number of retry attempts for IPMI commands.                              *)
trials == 3

(* connect, before the first attempt or the second.  A client sends a        *)
(* request again up to trials times.                                        *)
connect ==
  /\ kind = "ipmi" /\ pc \in {"connect", "reconnect"}
  /\ \/ /\ session # "none" /\ UNCHANGED <<session, faults>>
        /\ To(IF pc = "connect" THEN "op" ELSE "retry")
     \/ /\ session = "none" /\ session' = "live" /\ UNCHANGED faults
        /\ To(IF pc = "connect" THEN "op" ELSE "retry")
     \/ /\ session = "none" /\ faults' = faults + 1
        /\ Return("error") /\ UNCHANGED session
  /\ tries' = 0 /\ UNCHANGED <<executed, unanswered>>

(* The command over a live session: carried out and answered.               *)
opSucceeds ==
  /\ kind = "ipmi" /\ pc \in {"op", "retry"} /\ session = "live"
  /\ executed' = executed + 1
  /\ Return("ok") /\ UNCHANGED <<session, tries, faults, unanswered>>

(* No answer in time: the request or the answer is lost or late.            *)
NoAnswer ==
  /\ session = "live" /\ faults' = faults + 1
  /\ \/ UNCHANGED <<executed, unanswered>>
     \/ executed' = executed + 1 /\ unanswered' = unanswered + 1

(* The client (external) sends it again.                                    *)
opResent ==
  /\ kind = "ipmi" /\ pc \in {"op", "retry"} /\ tries < trials
  /\ NoAnswer /\ tries' = tries + 1 /\ UNCHANGED <<session, runVars>>

(* disconnect, after the first failure; a second failure is the result.      *)
Failed == session' = IF pc = "op" THEN "none" ELSE session

(* Mutant: the second failure is retried as well.                           *)
NextAttemptAlways == To("reconnect")

NextAttempt == IF pc = "op" THEN To("reconnect") ELSE Return("error")

(* It fails on a stale session, which the BMC does not answer however often  *)
(* it is asked; without an answer to the last request; or because the        *)
(* context is done.                                                         *)
opFails ==
  /\ kind = "ipmi" /\ pc \in {"op", "retry"}
  /\ \/ session = "stale" /\ UNCHANGED <<executed, faults, unanswered>>
     \/ NoAnswer /\ (tries = trials \/ cancelled)
  /\ Failed /\ NextAttempt /\ UNCHANGED tries

(* Another Run has taken the client away: runModule recovers the panic.      *)
opWithoutClient ==
  /\ kind = "ipmi" /\ pc \in {"op", "retry"} /\ session = "none"
  /\ Return("error") /\ UNCHANGED ipmiVars

ipmiDeinit ==
  /\ kind = "ipmi" /\ DeinitCalled
  /\ session' = "none" /\ UNCHANGED <<tries, executed, faults, unanswered>>

(* The BMC drops a session that has been idle.                              *)
bmcDropsSession ==
  /\ kind = "ipmi" /\ pc = "idle" /\ session = "live"
  /\ session' = "stale" /\ UNCHANGED <<tries, executed, faults, unanswered, runVars>>

(* connect or disconnect of another Run.                                    *)
otherReconnects ==
  /\ kind = "ipmi" /\ OtherRun
  /\ session' \in {"none", "live"} /\ UNCHANGED <<tries, executed, faults, unanswered>>

IpmiInit == session = "none" /\ tries = 0 /\ executed = 0 /\ faults = 0 /\ unanswered = 0
IpmiStep == ipmiInit \/ ipmiRun \/ connect \/ opSucceeds \/ opResent \/ opFails \/ opWithoutClient \/ ipmiDeinit
IpmiEnvironment == bmcDropsSession \/ otherReconnects
IpmiCall == kind = "ipmi" /\ \E args \in {<<>>, <<"on">>, <<"cycle">>, <<"status">>, <<"bad">>} : RunCalled(args)

-----------------------------------------------------------------------------

(* A session that went stale between two commands never makes a command      *)
(* fail: a failure needs a request that is lost, late or cancelled on its    *)
(* way to a BMC that would have answered, or another Run of the same module  *)
(* that takes the session away.                                             *)
StaleSessionHeals == kind = "ipmi" /\ outcome = "error" => faults > 0 \/ overlapped

(* A command that succeeds was carried out.  It is carried out again only    *)
(* for requests that were not answered in time, and never more often than    *)
(* two attempts of a client with trials retries can send it: withReconnect   *)
(* and the client each repeat a command that is not idempotent (cycle).      *)
CarriedOut ==
  kind = "ipmi" =>
    /\ outcome = "ok" /\ cmd \notin {<<>>, <<"bad">>} => executed = unanswered + 1
    /\ executed <= unanswered + 1 /\ executed <= 2 * (trials + 1)

(* The retry on a new session is enough to survive a stale one, and is not  *)
(* one attempt too many.                                                    *)
RetriedOnce == StaleSessionHeals /\ CarriedOut
=============================================================================
