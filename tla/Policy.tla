-------------------------------- MODULE Policy --------------------------------
(***************************************************************************)
(* Who may run what, arriving how (extensions/authority/policy.py): the    *)
(* risk a class of actors may take alone, the ceiling of the path a        *)
(* request arrives on, and who may approve what.  Both tables are the      *)
(* site's configuration, laid over the defaults of the code.               *)
(***************************************************************************)
EXTENDS Naturals

CONSTANTS
  Actor,      \* identities of people, agents, services and the plant
  ClassOf,    \* the class of each actor, from the prefix of its identity
  Path,       \* ways a request arrives
  Authority,  \* the highest risk each class may take alone
  Ceiling     \* the highest risk that may be asked for over each path

Class == {"user", "agent", "system", "plc"}

\* "unknown" stands for every word that is none of the others: a risk a module
\* declares, or a limit the configuration names.
Risk == {"info", "routine", "disruptive", "hazardous", "unknown"}

ASSUME PolicyAssumption ==
  /\ ClassOf \in [Actor -> Class]
  /\ Authority \in [Class -> Risk]
  /\ Ceiling \in [Path -> Risk]

\* RISK_ORDER.get(risk, 1)
Rank(risk) ==
  CASE risk = "info" -> 0
    [] risk = "disruptive" -> 2
    [] risk = "hazardous" -> 3
    [] OTHER -> 1

OverCeiling(a) == Rank(a.risk) > Rank(Ceiling[a.path])

OverAuthority(a) == Rank(a.risk) > Rank(Authority[ClassOf[a.actor]])

\* Mutant: what needs an approval is sorted out before the path is looked at.
ApprovalFirst(a) ==
  IF a.risk = "hazardous" \/ OverAuthority(a) THEN "approval"
  ELSE IF OverCeiling(a) THEN "reject-path" ELSE "allow"

\* The ceiling first: no approval helps over it.  A hazardous command always
\* needs an approval.
Decision(a) ==
  IF OverCeiling(a) THEN "reject-path"
  ELSE IF a.risk = "hazardous" \/ OverAuthority(a) THEN "approval" ELSE "allow"

\* Mutant: any human may approve, the one who asks included.
AnyHuman(approver, requester) == ClassOf[approver] = "user"

\* A human, and not the one who asks.
MayApprove(approver, requester) ==
  ClassOf[approver] = "user" /\ approver # requester
==============================================================================
