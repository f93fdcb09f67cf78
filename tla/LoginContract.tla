--------------------------- MODULE LoginContract ---------------------------
(***************************************************************************)
(* What the OpenRouter login promises to CLIProxyAPI, with no handler, no  *)
(* lock and no key pair in it: a login opens once, OpenRouter vouches for  *)
(* keys submitted through it, and it ends once, either by handing over one *)
(* vouched-for key before its deadline or by closing with nothing.         *)
(* LoginFlow implements this specification.                                *)
(***************************************************************************)
CONSTANTS
  State,   \* login states, each the identity of one login attempt
  Key,     \* API keys
  None     \* no credential

VARIABLES
  status,      \* status[st]: "idle" | "open" | "delivered" | "closed"
  credential,  \* credential[st]: the key handed to the host, or None
  vouched,     \* vouched[st]: the keys OpenRouter accepted for this login
  overdue      \* the logins whose deadline has passed

vars == <<status, credential, vouched, overdue>>

Init ==
  /\ status = [st \in State |-> "idle"]
  /\ credential = [st \in State |-> None]
  /\ vouched = [st \in State |-> {}]
  /\ overdue = {}

Open(st) ==
  /\ status[st] = "idle"
  /\ status' = [status EXCEPT ![st] = "open"]
  /\ UNCHANGED <<credential, vouched, overdue>>

\* OpenRouter may accept a key for a login that has meanwhile ended.
Vouch(st, k) ==
  /\ status[st] # "idle"
  /\ vouched' = [vouched EXCEPT ![st] = @ \cup {k}]
  /\ UNCHANGED <<status, credential, overdue>>

Elapse(st) ==
  /\ status[st] # "idle"
  /\ overdue' = overdue \cup {st}
  /\ UNCHANGED <<status, credential, vouched>>

Deliver(st) ==
  /\ status[st] = "open"
  /\ st \notin overdue
  /\ \E k \in vouched[st] : credential' = [credential EXCEPT ![st] = k]
  /\ status' = [status EXCEPT ![st] = "delivered"]
  /\ UNCHANGED <<vouched, overdue>>

\* A plugin shutdown closes every open login at once.
Close(S) ==
  /\ \A st \in S : status[st] = "open"
  /\ status' = [st \in State |-> IF st \in S THEN "closed" ELSE status[st]]
  /\ UNCHANGED <<credential, vouched, overdue>>

Next ==
  \/ \E st \in State : Open(st) \/ Elapse(st) \/ Deliver(st)
  \/ \E st \in State, k \in Key : Vouch(st, k)
  \/ \E S \in SUBSET State : Close(S)

Spec == Init /\ [][Next]_vars
=============================================================================
