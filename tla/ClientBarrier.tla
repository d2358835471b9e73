---------------------------- MODULE ClientBarrier ----------------------------
(***************************************************************************)
(* The barrier DM_Server offers its clients (waitForAllClients_async):     *)
(* a call counts its client and keeps the call back; the call that makes   *)
(* the count _num_clients resets it and answers all the call backs.  The   *)
(* calls block their clients, and the barrier can be used again at once.   *)
(***************************************************************************)
EXTENDS Integers, FiniteSets

CONSTANT Clients

ASSUME BarrierAssumption == IsFiniteSet(Clients)

VARIABLES
  clientsDone,  \* _clients_done
  cbs,          \* _cbs: the clients whose calls wait for an answer
  arrived,      \* how often each client has called
  released      \* how often each client has been answered

barrierVars == <<clientsDone, cbs, arrived, released>>

BarrierInit ==
  /\ clientsDone = 0
  /\ cbs = {}
  /\ arrived = [c \in Clients |-> 0]
  /\ released = [c \in Clients |-> 0]

\* Fault: the barrier opens one call too early.
LastCallEarly == clientsDone + 2 >= Cardinality(Clients)

LastCall == clientsDone + 1 = Cardinality(Clients)

\* waitForAllClients() blocks: a client whose call waits makes no other.
WaitForAllClients(c) ==
  /\ c \notin cbs
  /\ arrived' = [arrived EXCEPT ![c] = @ + 1]
  /\ IF LastCall
       THEN /\ clientsDone' = 0
            /\ cbs' = {}
            /\ released' = [d \in Clients |->
                              IF d \in cbs \cup {c} THEN released[d] + 1 ELSE released[d]]
       ELSE /\ clientsDone' = clientsDone + 1
            /\ cbs' = cbs \cup {c}
            /\ UNCHANGED released

BarrierNext == \E c \in Clients : WaitForAllClients(c)

BarrierSpec == BarrierInit /\ [][BarrierNext]_barrierVars

-----------------------------------------------------------------------------
\* The count never goes past the number of clients, in any round.
BarrierTypeOK ==
  /\ clientsDone \in 0..Cardinality(Clients)
  /\ cbs \subseteq Clients
  /\ arrived \in [Clients -> Nat]
  /\ released \in [Clients -> Nat]

(***************************************************************************)
(* No client gets past its n-th call before every client has made n, in    *)
(* every round the barrier is used.                                        *)
(***************************************************************************)
NobodyPassesEarly == \A c, d \in Clients : released[c] <= arrived[d]

(***************************************************************************)
(* Whoever waits, waits for somebody: the calls waiting never include all  *)
(* clients, and only they are behind in answers.                           *)
(***************************************************************************)
SomebodyIsMissing ==
  Clients # {} =>
    /\ cbs # Clients
    /\ \A c \in Clients : arrived[c] = released[c] + (IF c \in cbs THEN 1 ELSE 0)
=============================================================================
