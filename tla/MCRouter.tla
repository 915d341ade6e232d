------------------------------ MODULE MCRouter ------------------------------
(***************************************************************************)
(* Three parts of the system that share no state, in one model: part says  *)
(* which of them moves, so that their states add up instead of             *)
(* multiplying.  EventLog has three executions of one run, the third of    *)
(* which appends once; which of them run with the flag off is chosen in    *)
(* the initial state, up to an exchange of the first two.  The router runs *)
(* twice: with its clock and the cache of budgets while it is up, streams  *)
(* and writes what it recorded ("gate"), and through its shutdown with     *)
(* budgets that are never loaded ("meter"); its calls are named in the     *)
(* order of their arrival.  The catalogue begins with a provider and its   *)
(* credential, and nobody edits it once the replica has stopped.           *)
(***************************************************************************)
EXTENDS EventLog, LlmRouter, CatalogCache

CONSTANTS w1, w2, w3, c1, c2, c3

VARIABLE part

mcVars == <<vars, routerVars, catalogVars, part>>

InOrder == (call[c3] # New => call[c2] # New) /\ (call[c2] # New => call[c1] # New)

\* A part that does not move starts where its fairness asks for nothing.
MCInit ==
  /\ part \in {"log", "gate", "meter", "catalog"}
  /\ Init /\ (part # "log" => legacy = Writers)
  /\ w2 \in legacy => w1 \in legacy
  /\ RouterStart(IF part \in {"gate", "meter"} THEN "up" ELSE "exited")
  /\ CatalogStart(IF part = "catalog" THEN "boot" ELSE "stopped") /\ (part # "catalog" => tables = Empty)
  /\ part = "catalog" => tables.ref # NoCred

MCNext ==
  /\ UNCHANGED part
  /\ \/ /\ part = "log" /\ Next /\ sent'[w3] <= 1
        /\ UNCHANGED <<routerVars, catalogVars>>
     \/ /\ \/ /\ part = "gate" /\ RouterNext /\ phase' = "up"
              /\ dropped' = {} /\ \A c \in Calls : call'[c].pc # "body"
           \/ part = "meter" /\ RouterStep /\ \A c \in Calls : call'[c].pc # "loading"
        /\ InOrder'
        /\ UNCHANGED <<vars, catalogVars>>
     \/ /\ part = "catalog" /\ CatalogNext
        /\ state = "stopped" => UNCHANGED dbVars
        /\ UNCHANGED <<vars, routerVars>>

MCSpec ==
  /\ MCInit /\ [][MCNext]_mcVars
  /\ Fairness /\ RouterFairness /\ CatalogFairness

(* The type invariants of the three. *)
TypesOK == TypeOK /\ RouterTypeOK /\ CatalogTypeOK
=============================================================================
