---------------------------- MODULE Definitions ----------------------------
(***************************************************************************)
(* What an interactive session promises its user about names: a definition *)
(* replaces the one before it, and an expression runs the definitions that *)
(* are newest when it is entered.  Definitions are numbered in the order   *)
(* in which they are accepted; 0 stands for "none in the session", a name  *)
(* that can only be found in the host process.                             *)
(***************************************************************************)
EXTENDS Naturals

CONSTANT Name       \* the names of functions

VARIABLES
  latest,           \* the newest definition of each name, or 0
  ran               \* the <<name, definition>> pairs the last expression called

vars == <<latest, ran>>

TypeOK == latest \in [Name -> Nat] /\ ran \in SUBSET (Name \X Nat)

Init == latest = [f \in Name |-> 0] /\ ran = {}

\* A definition is accepted: it is newer than all the others.
Define ==
  /\ \E f \in Name :
       /\ latest' = [latest EXCEPT ![f] = latest'[f]]
       /\ \A g \in Name : latest[g] < latest'[f]
  /\ UNCHANGED ran

\* An expression that calls the names in S is evaluated.
Evaluate ==
  /\ \E S \in SUBSET Name : ran' = {<<f, latest[f]>> : f \in S}
  /\ UNCHANGED latest

Next == Define \/ Evaluate

Spec == Init /\ [][Next]_vars
=============================================================================
