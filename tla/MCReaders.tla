------------------------------ MODULE MCReaders ------------------------------
(***************************************************************************)
(* The two that follow the events of a run, side by side: the iterator of  *)
(* the SDK (EventStream) and the page of a chat (ChatPage).  They share no *)
(* state; part says which of them moves, and the other stays where it      *)
(* begins.  Fairness is asked of the first only: the behaviours of the     *)
(* second, in which the iterator rests, count for safety alone.            *)
(***************************************************************************)
EXTENDS EventStream, ChatPage

VARIABLE part

mcVars == <<vars, chatVars, part>>

MCInit ==
  /\ part \in {"sdk", "page"}
  /\ Init /\ (part # "sdk" => firstSeq = 1)
  /\ ChatInit

MCNext ==
  /\ UNCHANGED part
  /\ \/ part = "sdk" /\ Next /\ UNCHANGED chatVars
     \/ part = "page" /\ ChatNext /\ UNCHANGED vars

MCSpec == MCInit /\ [][MCNext]_mcVars /\ Fairness

(* What the caller of the SDK has when the iterator returns, and what the  *)
(* page of a chat shows.                                                   *)
ReadersSound == ReturnedIsComplete /\ ChatSound
=============================================================================
