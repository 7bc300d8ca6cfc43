--------------------------- MODULE RequestService ---------------------------
(***************************************************************************)
(* What the broker promises a peer about one request, whatever the line    *)
(* does: the peer takes at most one answer, an answer of the board means   *)
(* that the board ran the request, and an answer that the broker gives for *)
(* itself means that the board neither ran the request nor ever will.  A   *)
(* request the broker gave up on promises nothing about the board: it may  *)
(* have run, and it may still run.                                         *)
(*                                                                         *)
(* BrokerLink implements this module; BrokerLinkProofs proves it.          *)
(***************************************************************************)
CONSTANT Requests   \* every request any peer may write

VARIABLES phase,    \* a request is "new", then "open", then "closed"
          ran,      \* the requests the board has run at least once
          answer    \* what the peer was told

svars == <<phase, ran, answer>>

Phases  == {"new", "open", "closed"}

\* "board": the reply of the board.  "gave_up": no reply came.  "local": the
\* broker answered for itself, with a refusal or with the ACK of raw mode.
Answers == {"none", "board", "gave_up", "local"}

STypeOK == /\ phase \in [Requests -> Phases]
           /\ ran \in SUBSET Requests
           /\ answer \in [Requests -> Answers]

SInit == /\ phase = [r \in Requests |-> "new"]
         /\ ran = {}
         /\ answer = [r \in Requests |-> "none"]

Submit(r) == /\ phase[r] = "new"
             /\ phase' = [phase EXCEPT ![r] = "open"]
             /\ UNCHANGED <<ran, answer>>

\* The board may run a request again, and it may run one after the broker
\* gave up on it or answered it, because copies of it are still on the line.
Run(r) == /\ phase[r] # "new"
          /\ answer[r] # "local"
          /\ ran' = ran \cup {r}
          /\ UNCHANGED <<phase, answer>>

Answer(r, a) == /\ phase[r] = "open"
                /\ a # "none"
                /\ a = "board" => r \in ran
                /\ a = "local" => r \notin ran
                /\ phase' = [phase EXCEPT ![r] = "closed"]
                /\ answer' = [answer EXCEPT ![r] = a]
                /\ UNCHANGED ran

SNext == \E r \in Requests : \/ Submit(r)
                             \/ Run(r)
                             \/ \E a \in Answers : Answer(r, a)

SSpec == SInit /\ [][SNext]_svars
=============================================================================
