-------------------------- MODULE MCGatewayHistory --------------------------
(***************************************************************************)
(* Bounds and symmetry for GatewayHistory; values as in MCGateway.         *)
(***************************************************************************)
EXTENDS GatewayHistory, MCGateway

\* Connections, and slots for requests, are interchangeable.
SlotSymmetry == Permutations(Socket) \cup Permutations(Request)

\* Bound: after a fault at most one request is in progress; of the faults that meet
\* two, only the server's restart, which ends both, is followed further.
OverlapBeforeFaults == faults = 0 \/ \E r \in Request : inflight[r] = None
=============================================================================
