---------------------------- MODULE HealthChecking ----------------------------
(***************************************************************************)
(* ServerPool.HealthCheck, which HealthCheckLoop calls for ever: one       *)
(* goroutine dials one backend of the list after the other and stores what *)
(* the dial found.  The module that owns the pool says which list that is, *)
(* and what else its steps leave unchanged.                                *)
(***************************************************************************)
EXTENDS Naturals, Sequences

CONSTANT Backends

VARIABLES
  alive,   \* Backend.Alive
  reach,   \* a TCP dial to the backend succeeds
  check    \* where HealthCheck is: the next backend, the result of its dial

HealthTypeOK ==
  /\ alive \in [Backends -> BOOLEAN]
  /\ reach \in [Backends -> BOOLEAN]
  /\ check \in [next : Nat \ {0}, dialed : {"none", "up", "down"}]

\* main registers every backend as alive, whatever its port answers.
HealthInit ==
  /\ alive = [b \in Backends |-> TRUE]
  /\ reach \in [Backends -> BOOLEAN]
  /\ check = [next |-> 1, dialed |-> "none"]

\* net.DialTimeout: two seconds may pass before the result is used.
Dial(list) ==
  /\ check.dialed = "none" /\ check.next \in DOMAIN list
  /\ check' = [check EXCEPT !.dialed = IF reach[list[check.next]] THEN "up" ELSE "down"]
  /\ UNCHANGED <<alive, reach>>

SetAliveNeverUp(list) ==  \* mutant: a backend that answers again is not revived
  /\ check.dialed # "none"
  /\ alive' = [alive EXCEPT ![list[check.next]] = @ /\ check.dialed = "up"]
  /\ check' = [next |-> 1 + (check.next % Len(list)), dialed |-> "none"]
  /\ UNCHANGED reach

SetAliveOfNext(list) ==  \* mutant: the index has moved on before the result is stored
  /\ check.dialed # "none"
  /\ alive' = [alive EXCEPT ![list[1 + (check.next % Len(list))]] = check.dialed = "up"]
  /\ check' = [next |-> 1 + (check.next % Len(list)), dialed |-> "none"]
  /\ UNCHANGED reach

\* SetAlive with the result; after the last backend comes the next round.
SetAlive(list) ==
  /\ check.dialed # "none"
  /\ alive' = [alive EXCEPT ![list[check.next]] = check.dialed = "up"]
  /\ check' = [next |-> 1 + (check.next % Len(list)), dialed |-> "none"]
  /\ UNCHANGED reach

\* The backend's process dies or comes back.
Flap(b) ==
  /\ reach' = [reach EXCEPT ![b] = ~@]
  /\ UNCHANGED <<alive, check>>

=============================================================================
