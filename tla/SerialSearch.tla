---------------------------- MODULE SerialSearch ----------------------------
(***************************************************************************)
(* What one search server promises to the engines that connect to it,      *)
(* without processes, descriptors or file offsets: requests are taken one   *)
(* at a time, the request being served ends before the next one is taken,   *)
(* and a request that is answered is answered with the postings of its own  *)
(* terms.  SlaveServer is shown to implement this specification.            *)
(***************************************************************************)
CONSTANTS
    Clients,   \* the connections an engine may open
    NoClient   \* what "current" holds when no request is being served

VARIABLES
    current,   \* the request being served
    outcome    \* how each request ended, or "open"

vars == <<current, outcome>>

\* "right": the postings of the request's own terms; "empty": the line could not
\* be read and an arbitrary line was searched for; "bye": the reply to QUIT;
\* "lost": closed without a reply; "hung": accepted and never looked at again.
Outcomes == {"open", "right", "empty", "bye", "lost", "hung"}

Init == /\ current = NoClient
        /\ outcome = [c \in Clients |-> "open"]

\* A connection is taken from the queue when the previous one is finished.
Take(c) == /\ current = NoClient
           /\ outcome[c] = "open"
           /\ current' = c
           /\ UNCHANGED outcome

\* The request being served gets its reply, or its connection is closed.
Reply(c) == /\ current = c
            /\ outcome[c] = "open"
            /\ \E o \in {"right", "empty", "bye", "lost"} :
                 outcome' = [outcome EXCEPT ![c] = o]
            /\ UNCHANGED current

\* Only then the server is free for the next one.
Release(c) == /\ current = c
              /\ outcome[c] # "open"
              /\ current' = NoClient
              /\ UNCHANGED outcome

\* The server could not start a process for the connection and forgets it.
Abandon(c) == /\ current = c
              /\ outcome[c] = "open"
              /\ outcome' = [outcome EXCEPT ![c] = "hung"]
              /\ current' = NoClient

\* The server process ends (never while a request is served): connections that
\* still wait for it, or were forgotten by it, are closed by the kernel.
Stop == /\ current = NoClient
        /\ \E S \in SUBSET {c \in Clients : outcome[c] \in {"open", "hung"}} :
             outcome' = [c \in Clients |-> IF c \in S THEN "lost" ELSE outcome[c]]
        /\ UNCHANGED current

\* Nobody listens on the port: the connection is refused at once.
Refuse(c) == /\ c # current
             /\ outcome[c] = "open"
             /\ outcome' = [outcome EXCEPT ![c] = "lost"]
             /\ UNCHANGED current

Next == \/ \E c \in Clients : \/ Take(c) \/ Reply(c) \/ Release(c)
                              \/ Abandon(c) \/ Refuse(c)
        \/ Stop

Spec == Init /\ [][Next]_vars
=============================================================================
