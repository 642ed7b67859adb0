--------------------------- MODULE LayeredStore ---------------------------
(***************************************************************************)
(* Nested transactions without copies: a base content and a stack of       *)
(* layers, each the set of items whose presence it flips.  What a reader   *)
(* sees is the base with every layer applied.  Ending a layer either       *)
(* merges it into the one below, which keeps its work, or drops it, which  *)
(* undoes exactly its work.                                                *)
(***************************************************************************)
EXTENDS Naturals, Sequences

CONSTANT Items

VARIABLES base,      \* the content below all layers
          layers     \* the open layers, outermost first

(* The symmetric difference. *)
Flip(S, T) == (S \ T) \cup (T \ S)

(* A statement flips the items in F: in the top layer, or in the base. *)
Apply(F) ==
    IF layers = <<>>
    THEN base' = Flip(base, F) /\ UNCHANGED layers
    ELSE /\ layers' = [layers EXCEPT ![Len(layers)] = Flip(@, F)]
         /\ UNCHANGED base

Push == layers' = Append(layers, {}) /\ UNCHANGED base

(* Layer i is folded into what is below it; the layers above it stay. *)
Merge(i) ==
    /\ layers' = [j \in 1 .. Len(layers) - 1 |->
                    IF j = i - 1 THEN Flip(layers[j], layers[i])
                    ELSE IF j < i THEN layers[j] ELSE layers[j + 1]]
    /\ base' = IF i = 1 THEN Flip(base, layers[1]) ELSE base

(* The top layer is undone. *)
Drop ==
    /\ layers # <<>>
    /\ layers' = [j \in 1 .. Len(layers) - 1 |-> layers[j]]
    /\ UNCHANGED base

(* Everything is replaced from outside. *)
Replace == base' \in SUBSET Items /\ layers' = <<>>

LayeredInit == base = {} /\ layers = <<>>

LayeredNext ==
    \/ \E F \in SUBSET Items : Apply(F)
    \/ Push
    \/ \E i \in 1 .. Len(layers) : Merge(i)
    \/ Drop
    \/ Replace

LayeredSpec == LayeredInit /\ [][LayeredNext]_<<base, layers>>
=============================================================================
