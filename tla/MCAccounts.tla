----------------------------- MODULE MCAccounts -----------------------------
(***************************************************************************)
(* Instances of PortalAccount and StaffAccounts for TLC.  The two share    *)
(* nothing but the table of staff addresses, which PortalAccount keeps its *)
(* own view of; a run looks at one of them at a time, chosen at the start, *)
(* so that one run answers for both without multiplying their states.      *)
(***************************************************************************)
EXTENDS PortalAccount, TLC

CONSTANTS People, Consoles, Scopes, Nowhere

VARIABLES desk,  \* the desk this behaviour is about
          user, cookie, request, crossed, late, interrupted   \* StaffAccounts' variables

Staff == INSTANCE StaffAccounts WITH
  Browsers <- Consoles, session <- cookie, frame <- request, overlapped <- crossed

ASSUME StaffConstants == Staff!StaffAssumption

staffVars == <<user, cookie, request, crossed, late, interrupted>>
both == <<vars, staffVars, desk>>

BothInit == Init /\ Staff!Init /\ desk \in {"portal", "staff"}

BothNext ==
  /\ UNCHANGED desk
  /\ \/ desk = "portal" /\ Next /\ UNCHANGED staffVars
     \/ desk = "staff" /\ Staff!Next /\ UNCHANGED vars

BothSpec == BothInit /\ [][BothNext]_both

Symmetry == Permutations(Links) \cup Permutations(Handlers)
-----------------------------------------------------------------------------
(* StaffAccounts' properties, named here for the run.                      *)

\* The state of both has its type.
BothTypeOK == TypeOK /\ Staff!TypeOK
NoSessionOutlivesItsAccount == Staff!NoSessionOutlivesItsAccount
AnAdministratorRemains == Staff!AnAdministratorRemains
=============================================================================
