------------------------- MODULE EODGenerationStore -------------------------
(***************************************************************************)
(* What a reader of one EOD dataset is promised: a register of complete    *)
(* immutable generations.  A generation appears at once and never changes; *)
(* activation switches the whole dataset to one of them at once.           *)
(*                                                                         *)
(* EODFileRepository implements this specification.                        *)
(***************************************************************************)
CONSTANTS
  GenerationIds,
  Contents,       \* what the bars of a generation can be
  NoGeneration,
  NoContent

VARIABLES
  content,   \* content[g]: the bars of generation g, once it exists
  current    \* the activated generation

vars == <<content, current>>

TypeOK ==
  /\ content \in [GenerationIds -> Contents \cup {NoContent}]
  /\ current \in GenerationIds \cup {NoGeneration}

Init ==
  /\ content = [g \in GenerationIds |-> NoContent]
  /\ current = NoGeneration

Store(g, bars) ==
  /\ content[g] = NoContent
  /\ content' = [content EXCEPT ![g] = bars]
  /\ UNCHANGED current

\* Only what exists can be activated, and not what is current already.
Activate(g) ==
  /\ content[g] # NoContent
  /\ g # current
  /\ current' = g
  /\ UNCHANGED content

Next ==
  \E g \in GenerationIds :
    \/ \E bars \in Contents : Store(g, bars)
    \/ Activate(g)

Spec == Init /\ [][Next]_vars
=============================================================================
