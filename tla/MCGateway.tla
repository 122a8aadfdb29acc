------------------------------- MODULE MCGateway -------------------------------
(***************************************************************************)
(* A small instance of Gateway for TLC: two people and an agent, the       *)
(* default tables of the policy for the classes and paths that occur.      *)
(***************************************************************************)
EXTENDS Gateway, TLC

CONSTANTS ali, bo, eddy, key1, key2

MCClassOf == (ali :> "user") @@ (bo :> "user") @@ (eddy :> "agent")

MCAuthority ==
  [user |-> "disruptive", agent |-> "routine", system |-> "disruptive", plc |-> "routine"]

MCCeiling == [local |-> "hazardous", cellular |-> "routine"]

Asks(actor, risk, path, key) == [actor |-> actor, risk |-> risk, path |-> path, key |-> key]

\* What an agent may do alone, what a person may not, and what no approval
\* makes possible.
MCAsk ==
  {Asks(eddy, "routine", "local", NoKey),
   Asks(ali, "hazardous", "local", key1),
   Asks(eddy, "disruptive", "cellular", key2)}
==============================================================================
