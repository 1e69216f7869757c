--------------------------- MODULE WorkflowTyping ---------------------------
(***************************************************************************)
(* Reading a workflow without running it.  A body is typed by a sequence   *)
(* that says, for every line, which globals are known there to describe    *)
(* the frame of the loop and what they describe of it, whatever ran        *)
(* before: nothing at the first line, and after a line what the line makes *)
(* of the objects it is given.  Objects are noted as they are at one frame *)
(* that stands for all.  Nothing is known of an accumulator (calcRDF),     *)
(* which keeps what earlier frames left in it.                             *)
(***************************************************************************)
EXTENDS LuaDriver

(* The frame a typing is written for. *)
Noted == 1

(* The globals that describe a new object after a call, whatever they did. *)
Fresh(call) ==
  ({call.to} \ {Nothing})
    \cup (IF call.fn \in Readers \cup {"clusterAnalysis"} THEN call.outs ELSE {})

(* What is known after a call of which all inputs are known. *)
Learnt(call, known) ==
  [n \in DOMAIN known \cup Fresh(call) |-> After(call, n, known, Noted)]

(* An accumulator is fed at one line of the body and named at no other. *)
FedOnce(body) ==
  \A i \in DOMAIN body : body[i].fn = "calcRDF" =>
    \A n \in body[i].outs :
      /\ n \notin Inputs(body[i]) \cup {body[i].to}
      /\ \A j \in DOMAIN body \ {i} : n \notin Uses(body[j]) \cup {body[j].to}

(* Each call gets inputs that are known and agree. *)
Typing(body, known) ==
  /\ \A i \in 1 .. Len(body) + 1 :
       DOMAIN known[i] \subseteq Names /\ \A n \in DOMAIN known[i] : known[i][n] \in Objects
  /\ DOMAIN known[1] = {}
  /\ \A i \in DOMAIN body :
       /\ Inputs(body[i]) \subseteq DOMAIN known[i]
       /\ Agree(body[i], known[i], Noted)
       /\ body[i].fn = "calcRDF" => body[i].outs \cap DOMAIN known[i] = {}
       /\ known[i + 1] = Learnt(body[i], known[i])
  /\ FedOnce(body)

(* The one typing a body can have, line by line. *)
KnownIn(body) ==
  LET known[i \in 1 .. Len(body) + 1] ==
        IF i = 1 THEN <<>> ELSE LET above == known[i - 1] IN Learnt(body[i - 1], above)
  IN  known
=============================================================================
