-------------------------------- MODULE Link --------------------------------
(***************************************************************************)
(* What the forwarder promises about its connections, with no goroutines,  *)
(* flags or locks in sight: there is at most one link per pool key; a      *)
(* change of address makes every link old at once; a link is dialled once, *)
(* to the address in force at that moment; until shutdown only an old one  *)
(* is given up.  Forwarder implements this (ImplementsLink there),         *)
(* although ReConnect marks the Conns one after the other while Write adds *)
(* and removes them.                                                       *)
(***************************************************************************)
CONSTANTS
    Keys,     \* pool keys
    Servers,  \* addresses
    None      \* not dialled

VARIABLES
    address,  \* the address in force
    open,     \* the keys that have a link
    to,       \* per key the address its link was dialled to
    old,      \* the keys whose link is to be replaced
    closing   \* shutdown has begun

vars == <<address, open, to, old, closing>>

Init ==
    /\ address \in Servers
    /\ open = {} /\ old = {}
    /\ to = [k \in Keys |-> None]
    /\ closing = FALSE

\* ReConnect.
Change ==
    /\ address' \in Servers
    /\ old' = open
    /\ UNCHANGED <<open, to, closing>>

\* A new link; it may be old from the start, if it is made while a change is
\* still being carried out.
Open(k) ==
    /\ k \notin open
    /\ open' = open \cup {k}
    /\ old' \in {old, old \cup {k}}
    /\ UNCHANGED <<address, to, closing>>

Dial(k) ==
    /\ k \in open /\ to[k] = None
    /\ to' = [to EXCEPT ![k] = address]
    /\ UNCHANGED <<address, open, old, closing>>

Remove(k) ==
    /\ open' = open \ {k} /\ old' = old \ {k}
    /\ to' = [to EXCEPT ![k] = None]
    /\ UNCHANGED <<address, closing>>

Retire(k) == k \in old /\ Remove(k)

\* Stop, which removes links whether they are old or not.
Shut ==
    /\ closing' = TRUE
    /\ UNCHANGED <<address, open, to, old>>

Close(k) == closing /\ Remove(k)

Next ==
    \/ Change \/ Shut
    \/ \E k \in Keys : Open(k) \/ Dial(k) \/ Retire(k) \/ Close(k)

Spec == Init /\ [][Next]_vars
=============================================================================
