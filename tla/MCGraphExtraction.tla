------------------------- MODULE MCGraphExtraction --------------------------
(* The parameters of GraphExtraction for TLC. *)
EXTENDS GraphExtraction

CONSTANTS MaxBoxes

\* Texts with a cut at a word with a blank too many, a line, a break, and with none.
Pattern ==
  {<<1, 1, Blank, Blank, 1>>, <<1, Newline, Newline, 1, 1, 1>>,
   <<1, 1, 1, 1, Newline, Blank, 1>>}

\* Every visible character gets a number of its own.
Number(b, p) ==
  [i \in DOMAIN p |-> IF IsBlank(p[i]) THEN p[i] ELSE 10 * b + i]

Boxes(n) ==
  {[b \in 1..n |-> [role |-> role[b], text |-> Number(b, text[b])]] :
     role \in {r \in [1..n -> Role] : r[n] \in {"image", "paragraph"}
                                     /\ \A b \in 1..n : r[b] # "table"},
     text \in [1..n -> Pattern]}

MCDocument ==
  [chunker : {"pymupdf", "blocks"},
   boxes   : UNION {Boxes(n) : n \in 1..MaxBoxes}]
=============================================================================
