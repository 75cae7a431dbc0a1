--------------------------- MODULE MCKataGoWorker ---------------------------
(***************************************************************************)
(* TLC instance of KataGoWorker.  One call asks about two positions, so    *)
(* that its answer takes two lines, the other about the current one.  A    *)
(* pipe holds one line, so that both ends can block.                       *)
(***************************************************************************)
EXTENDS KataGoWorker, TLC

CONSTANTS r1, r2, ClientId

\* payload["analyzeTurns"] of the two calls.
MCTurns == (r1 :> <<0, 1>>) @@ (r2 :> Unset)

\* For liveness: two calls that take one line each.
MCSingle == [r \in {r1, r2} |-> Unset]

\* The first call names the same position twice.
MCDuplicates == (r1 :> <<0, 0>>) @@ (r2 :> Unset)

\* Both clients chose the same id.
MCExternalId == [r \in {r1, r2} |-> ClientId]
=============================================================================
