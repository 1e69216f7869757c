---------------------------- MODULE IceLabelling ----------------------------
(***************************************************************************)
(* What the labelling helpers of dseams promise a script: a cloud's labels *)
(* are either absent or those of one method on one neighbour graph of the  *)
(* cloud's own atoms, they appear in one step, and nothing but a helper    *)
(* call or a new read changes them.  There is no bond state to get wrong.  *)
(***************************************************************************)
CONSTANTS
  Clouds, Types, Methods, None,
  Contents,  \* what a cloud may hold
  OwnRule    \* OwnRule[m]: the bond rule method m is defined by

VARIABLES atoms,   \* atoms[c]: what cloud c holds, None before its first read
          labels   \* labels[c]: the labels cloud:iceTypes() shows, None if none

vars == <<atoms, labels>>

(* The labels a method gives the atoms a on their neighbour graph of type t: *)
(* bonds classified by the method's own rule on the graph that is labelled,  *)
(* and nothing relabelled since.                                           *)
Fresh(method, a, t) ==
  LET graph == [atoms |-> a, type |-> t]
  IN  [method |-> method, bonds |-> [rule |-> OwnRule[method], graph |-> graph],
       graph |-> graph, q6 |-> None]

Init == /\ atoms = [c \in Clouds |-> None]
        /\ labels = [c \in Clouds |-> None]

Load(c, a) == /\ atoms' = [atoms EXCEPT ![c] = a]
              /\ labels' = [labels EXCEPT ![c] = None]

Label(c, method, t) ==
  /\ atoms[c] # None
  /\ labels' = [labels EXCEPT ![c] = Fresh(method, atoms[c], t)]
  /\ UNCHANGED atoms

Next == \E c \in Clouds :
          \/ \E a \in Contents : Load(c, a)
          \/ \E method \in Methods, t \in Types : Label(c, method, t)

Spec == Init /\ [][Next]_vars
=============================================================================
