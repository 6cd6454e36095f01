------------------------------ MODULE MCWallet ------------------------------
(* Small workloads for Wallet: the events of a run are strings of the table *)
(* below, and each event of Repeated is delivered twice.  A behaviour takes *)
(* the events of one of the scenarios; requests with others count as        *)
(* answered.                                                                *)
EXTENDS Wallet

CONSTANTS
    Repeated, Scenarios,
    Bobs          \* the events of bob; the others are ann's

Table == [debit1 |-> "debit", grant |-> "grant",
          add |-> "add", paid |-> "checkout", refund |-> "refund",
          topup |-> "topup", signup |-> "signup", signup2 |-> "signup",
          call1 |-> "call"]

MCKind == [e \in Events |-> Table[e]]
MCOwner == [e \in Events |-> IF e \in Bobs THEN "bob" ELSE "ann"]
\* Amounts differ, so that no two moves cancel or stand for one another.
MCAmount == [e \in Events |->
    CASE Kind[e] = "debit" -> 2 [] Kind[e] = "call" -> 1
      [] Kind[e] = "grant" -> 3 [] Kind[e] = "add" -> 11
      [] Kind[e] = "topup" -> 7 [] Kind[e] = "signup" -> 13
      [] OTHER -> 5]
MCSessionOf == [e \in Events |-> IF e = "refund" THEN "paid" ELSE e]
MCRequests == (Events \X {1}) \cup (Repeated \X {2})
MCEventOf == [d \in MCRequests |-> d[1]]

MCInit ==
    \E W \in Scenarios :
        /\ Start
        /\ at \in {f \in [Requests -> Procs] :
                   \A d \in Requests :
                       EventOf[d] \in W \/ f[d] = CHOOSE p \in Procs : TRUE}
        /\ pc = [d \in Requests |-> IF EventOf[d] \in W THEN Idle ELSE "ignored"]
        /\ loop = [p \in Procs |-> NoRequest]
MCSpec == MCInit /\ [][Next]_vars
MCFairSpec == MCSpec /\ \A d \in Requests : WF_vars(Handle(d))
=============================================================================
