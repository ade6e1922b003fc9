--------------------------- MODULE RequestContract ---------------------------
(***************************************************************************)
(* What the D-Bus client promises about a method call: an accepted request  *)
(* is settled once, whoever settles it, its client is told at most once and *)
(* only after it was settled.  A client that has been released is told      *)
(* nothing but what was being delivered when its release returned: a        *)
(* delivery that has begun is not stopped, and none begins any more.        *)
(***************************************************************************)
CONSTANTS Requests, Clients, Nobody

VARIABLES
    owner,     \* the client of each accepted request
    settled,   \* the requests with a terminal result
    admitted,  \* those whose delivery has begun
    told,      \* those whose callback has started
    left       \* the clients whose release has returned

contractVars == <<owner, settled, admitted, told, left>>

ContractInit ==
    /\ owner = [r \in Requests |-> Nobody]
    /\ settled = {} /\ admitted = {} /\ told = {} /\ left = {}

Accept(r, c) ==
    /\ owner[r] = Nobody
    /\ c \notin left
    /\ owner' = [owner EXCEPT ![r] = c]
    /\ UNCHANGED <<settled, admitted, told, left>>

Settle(r) ==
    /\ owner[r] # Nobody /\ r \notin settled
    /\ settled' = settled \cup {r}
    /\ UNCHANGED <<owner, admitted, told, left>>

Admit(r) ==
    /\ r \in settled \ (admitted \cup told)
    /\ owner[r] \notin left
    /\ admitted' = admitted \cup {r}
    /\ UNCHANGED <<owner, settled, told, left>>

Tell(r) ==
    /\ r \in settled \ told
    /\ owner[r] \notin left \/ r \in admitted
    /\ told' = told \cup {r}
    /\ admitted' = admitted \ {r}
    /\ UNCHANGED <<owner, settled, left>>

Leave(c) ==
    /\ c \notin left
    /\ left' = left \cup {c}
    /\ UNCHANGED <<owner, settled, admitted, told>>

ContractNext ==
    \/ \E r \in Requests, c \in Clients : Accept(r, c)
    \/ \E r \in Requests : Settle(r) \/ Admit(r) \/ Tell(r)
    \/ \E c \in Clients : Leave(c)

ContractSpec == ContractInit /\ [][ContractNext]_contractVars
=============================================================================
