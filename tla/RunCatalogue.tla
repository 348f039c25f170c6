---------------------------- MODULE RunCatalogue ----------------------------
(***************************************************************************)
(* What the directory of research runs promises its readers: a run is in   *)
(* it or it is not; what is in it is complete; and it never changes or     *)
(* goes away.                                                              *)
(***************************************************************************)
CONSTANTS
  Ids,        \* run ids
  Complete,   \* the files of a complete run
  Statuses    \* what a run may say of itself

VARIABLE runs   \* the published runs: [files, status] for each id

Init == runs = [id \in {} |-> {}]

Publish(id, status) ==
  /\ id \notin DOMAIN runs
  /\ runs' = [i \in DOMAIN runs \cup {id} |->
                IF i = id THEN [files |-> Complete, status |-> status] ELSE runs[i]]

Next == \E id \in Ids, status \in Statuses : Publish(id, status)

Spec == Init /\ [][Next]_runs
=============================================================================
