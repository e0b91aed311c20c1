---------------------------- MODULE MCAdmission ----------------------------
(* Six models that differ in how they are asked, sent references, billed and charged for. *)
EXTENDS Admission

Entry == [kind |-> "generation", takesImages |-> TRUE,
          inputPrice |-> 0, outputPrice |-> 0, imageOutputPrice |-> 0,
          tiers |-> {"1K", "2K"}, defaultTier |-> "1K",
          perImage |-> [t \in {"only", "1K", "2K"} |-> IF t = "2K" THEN 5 ELSE 2],
          perReference |-> [t \in {"only", "1K", "2K"} |-> 0],
          maxReferences |-> 2, delivery |-> "body",
          longPrompt |-> 0, longFactor |-> 1]

Gpt  == [Entry EXCEPT !.kind = "text", !.takesImages = FALSE, !.inputPrice = 1,
                      !.outputPrice = 2, !.tiers = {}, !.defaultTier = "only"]
\* One token is a long prompt.
Haiku == [Gpt EXCEPT !.longFactor = 5]
Nano == [Gpt EXCEPT !.kind = "inline", !.takesImages = TRUE, !.imageOutputPrice = 5]
Seedream == Entry
Krea == [Entry EXCEPT !.delivery = "upload", !.maxReferences = 1,
                      !.perReference = [t \in {"only", "1K", "2K"} |-> IF t = "2K" THEN 4 ELSE 1]]
GptImage == [Entry EXCEPT !.delivery = "form", !.tiers = {}, !.defaultTier = "only"]

MC_Catalogue == {Gpt, Haiku, Nano, Seedream, Krea, GptImage}
MC_Statuses  == {302, 400, 401, 402, 403, 404, 407, 408, 409, 413, 422, 425, 429, 451, 500, 529}
MC_Prices    == {0, 3}
=============================================================================
