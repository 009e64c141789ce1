--------------------------- MODULE MCProviderStep ---------------------------
(* One word for each field the providers picked require, and a key that is    *)
(* only spaces.                                                               *)
EXTENDS ProviderStep

CONSTANTS word

MCInputs ==
  [f \in FieldNames \cup {"row"} |->
     CASE f = "apiKey" -> {word, Blank}
       [] f \in {"label", "azureEndpoint", "row"} -> {word}
       [] OTHER -> {}]
=============================================================================
