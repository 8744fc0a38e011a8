--------------------------- MODULE Classification ---------------------------
(* The labels of content and their order (classificationRank).             *)
EXTENDS Naturals

Classes == {"public", "internal", "confidential", "secret"}

\* classificationRank, of a valid label.
Rank(class) ==
  CASE class = "public" -> 0
    [] class = "internal" -> 1
    [] class = "confidential" -> 2
    [] class = "secret" -> 3

\* An absent label counts as confidential.
Effective(label) == IF label = "" THEN "confidential" ELSE label
=============================================================================
