----------------------------- MODULE RunService -----------------------------
(***************************************************************************)
(* What the server promises the clients of POST /run, with no pool and no  *)
(* worker in it: every request is answered once, with an answer that       *)
(* befits it, unless the server is going down.  Server refines this        *)
(* specification.                                                          *)
(***************************************************************************)
CONSTANT Requests

VARIABLES client,   \* where each request is
          kind,     \* what each client has sent
          reply,    \* the answer each client has
          server    \* "up", "stopping" or "down"

serviceVars == <<client, kind, reply, server>>

Kinds == {"bad", "unsafe", "good"}

\* 400 and 403 are for requests that are not run; the others that are answered
\* are run, or fail for reasons of the server (500).
Befitting(k) ==
    CASE k = "bad"    -> {"400"}
      [] k = "unsafe" -> {"403"}
      [] k = "good"   -> {"500", "ok", "stderr", "exited", "timed out", "raw"}

Init ==
    /\ client = [r \in Requests |-> "idle"]
    /\ kind = [r \in Requests |-> "good"]
    /\ reply = [r \in Requests |-> "none"]
    /\ server = "up"

Send(r) ==
    /\ server # "down" /\ client[r] \in {"idle", "answered"}
    /\ client' = [client EXCEPT ![r] = "sent"]
    /\ \E k \in Kinds : kind' = [kind EXCEPT ![r] = k]
    /\ reply' = [reply EXCEPT ![r] = "none"]
    /\ UNCHANGED server

Answer(r) ==
    /\ server # "down" /\ client[r] = "sent"
    /\ client' = [client EXCEPT ![r] = "answered"]
    /\ \E a \in Befitting(kind[r]) : reply' = [reply EXCEPT ![r] = a]
    /\ UNCHANGED <<kind, server>>

Stop ==
    /\ server = "up"
    /\ server' = "stopping"
    /\ UNCHANGED <<client, kind, reply>>

\* The connection of one request is cut.
Cut(r) ==
    /\ server = "stopping" /\ client[r] = "sent"
    /\ client' = [client EXCEPT ![r] = "cut"]
    /\ UNCHANGED <<kind, reply, server>>

\* The process ends, and with it every connection.
Exit ==
    /\ server # "down"
    /\ server' = "down"
    /\ client' = [r \in Requests |-> IF client[r] = "sent" THEN "cut" ELSE client[r]]
    /\ UNCHANGED <<kind, reply>>

Next == \/ \E r \in Requests : Send(r) \/ Answer(r) \/ Cut(r)
        \/ Stop \/ Exit

Spec == Init /\ [][Next]_serviceVars
=============================================================================
