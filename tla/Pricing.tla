------------------------------ MODULE Pricing ------------------------------
(***************************************************************************)
(* What an answer costs (pricing.py), and the part of a model's entry in the *)
(* registry (model_registry.py) it follows from.  Dollars are multiples of a *)
(* smallest price, so that every sum before the last division is exact, as   *)
(* the code's decimals are.                                                  *)
(***************************************************************************)
EXTENDS Integers

CONSTANT Scale   \* 10 ** _OPG_DECIMALS

ASSUME PricingAssumption == Scale \in Nat \ {0}

NoCost == -1     \* None

\* image_tier(): an omitted resolution is the default tier's; "only" is the
\* single resolution of a model without tiers.
Offered(cfg, resolution) == resolution = "omitted" \/ resolution \in cfg.tiers

ImageTier(cfg, resolution) ==
    IF resolution # "omitted" THEN resolution ELSE cfg.defaultTier

Clip(n) == IF n < 0 THEN 0 ELSE n

AtMost(n, m) == IF n > m THEN m ELSE n

\* Output tokens of an image: at a rate of their own, where the model has one.
ImageRate(cfg) ==
    IF cfg.kind = "inline" /\ cfg.imageOutputPrice # 0 THEN cfg.imageOutputPrice ELSE cfg.outputPrice

\* How many times the registry's rates a provider itself charges when the prompt
\* is long (Claude Haiku 5.5: five times, above 100k tokens).  The registry has
\* one rate per model and no such fields; 1 for a model without a second rate.
Surcharge(cfg, input) == IF input > cfg.longPrompt THEN cfg.longFactor ELSE 1

\* The rates of a model: images are never cheaper than text.
IsModel(cfg) ==
    /\ cfg.inputPrice \in Nat /\ cfg.outputPrice \in Nat /\ cfg.imageOutputPrice \in Nat
    /\ ImageRate(cfg) >= cfg.outputPrice
    /\ cfg.longPrompt \in Nat /\ cfg.longFactor \in Nat \ {0}

\* Dual-rate output: reasoning at the text rate, the remainder as images.
TokenUsd(cfg, usage) ==
    LET out == Clip(usage.output)
        reasoning == AtMost(Clip(usage.reasoning), out)
    IN (Clip(usage.input) * cfg.inputPrice) +
       ((out - reasoning) * ImageRate(cfg)) + (reasoning * cfg.outputPrice)

\* Nothing is billed for references when no image came of them.
ImageUsd(cfg, tier, images, references) ==
    IF images = 0 THEN 0
    ELSE (images * cfg.perImage[tier]) + (references * cfg.perReference[tier])

MutantCeil(a, b) == a \div b     \* the division truncates

Ceil(a, b) == (a + b - 1) \div b

\* price: dollars per token, or 0 when get_price() raises.
InOpg(usd, price) == IF price <= 0 THEN NoCost ELSE Ceil(usd * Scale, price)

SessionCost(cfg, usage, images, resolution, references, price) ==
    InOpg(TokenUsd(cfg, usage) + ImageUsd(cfg, ImageTier(cfg, resolution), images, references),
          price)

WebSearchCost(searchUsd, price) == InOpg(searchUsd, price)
=============================================================================
