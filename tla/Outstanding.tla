---------------------------- MODULE Outstanding ----------------------------
(***************************************************************************)
(* What the crawl of the asynchronous example promises whatever tasks and  *)
(* channels carry its requests: every request has an id of its own, is     *)
(* open until it is answered or has expired, the oldest expire first, and  *)
(* the crawl is over only when none is open.  AsyncPipeline, which models  *)
(* the tasks, and AsyncDiscovery, which models what the answers are about, *)
(* both implement it.                                                      *)
(***************************************************************************)
EXTENDS Naturals

VARIABLES
    issued,  \* the number of requests so far, and the id of the next one
    open,    \* the ids of the requests neither answered nor expired
    over     \* the crawl has ended

vars == <<issued, open, over>>

Init == issued = 1 /\ open = {0} /\ over = FALSE

Issue ==
    /\ issued' = issued + 1
    /\ open' = open \cup {issued}

(* An answer may bring new requests with it.                               *)
Answer(t) ==
    /\ t \in open
    /\ issued' \in Nat /\ issued' >= issued
    /\ open' = (open \ {t}) \cup (issued..(issued' - 1))

Expire ==
    /\ open' \subseteq open
    /\ \A t \in open \ open', u \in open' : t < u
    /\ UNCHANGED issued

Finish == open = {} /\ over' = TRUE /\ UNCHANGED <<issued, open>>

Next ==
    \/ ~over /\ UNCHANGED over /\ (Issue \/ Expire \/ \E t \in open : Answer(t))
    \/ ~over /\ Finish

Spec == Init /\ [][Next]_vars
=============================================================================
