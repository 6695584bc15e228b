----------------------------- MODULE MCNodeStore -----------------------------
(***************************************************************************)
(* One contract captured twice, the configuration, two interpretations of  *)
(* it, a review and an assertion: the chain a governing change must cut,   *)
(* with a second contract that it must leave alone.                        *)
(***************************************************************************)
EXTENDS NodeStore

Content(kind, logical, data, deps) ==
    [kind |-> kind, logical |-> logical, data |-> data, deps |-> deps]

A1 == Content("contract", "a", 1, {})
A2 == Content("contract", "a", 2, {})
B1 == Content("contract", "b", 1, {})
IA1 == Content("interpretation", A1, "low", {A1})
JA1 == Content("interpretation", A1, "high", {A1})
IA2 == Content("interpretation", A2, "low", {A2})
IB1 == Content("interpretation", B1, "low", {B1})
RA1 == Content("review", IA1, TRUE, {IA1})
S1 == Content("assertion", <<A1, B1>>, "claim", {IA1, IB1, RA1})

MCCandidates == {A1, A2, B1, IA1, JA1, IA2, IB1, RA1, S1}

MCKinds == {"contract", "interpretation", "review", "assertion"}

MCRank ==
    [k \in MCKinds |-> CASE k = "contract" -> 0
                         [] k = "interpretation" -> 1
                         [] k = "review" -> 2
                         [] k = "assertion" -> 3]
==============================================================================
