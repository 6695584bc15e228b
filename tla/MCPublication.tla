---------------------------- MODULE MCPublication ----------------------------
(***************************************************************************)
(* Instances of Publication.  Exploration starts from a dataset an         *)
(* operator reaches in seven calls (what `oddsfox demo` builds): one       *)
(* registered observation, a configuration, two complete contracts and a   *)
(* manual interpretation of each.                                          *)
(***************************************************************************)
EXTENDS Publication, TLC

CONSTANTS a, b, g

Observed == RegistryNode(g, 1)

Active == ConfigurationNode(1)

SeedContract(c) == ContractNode(c, 1, TRUE)

SeedInterpretation(c, reading, rev) ==
    InterpretationNode(SeedContract(c), Active, {Observed}, {Observed}, reading,
                       "manual-candidate", rev)

Seed ==
    {Observed, Active, SeedContract(a), SeedContract(b),
     SeedInterpretation(a, 2, 1), SeedInterpretation(b, 1, 2)}

SeededInit ==
    /\ stored = Seed
    /\ current = Seed
    /\ task = [w \in Workers |-> Idle]

SeededSpec == SeededInit /\ [][Next]_vars

WorkerSymmetry == Permutations(Workers)

NodeBounds(contracts, configurations, registrations, interpretations, reviews, quarantines) ==
    [contract |-> contracts, configuration |-> configurations,
     registry |-> registrations, interpretation |-> interpretations,
     review |-> reviews, quarantine |-> quarantines]

LimitReviews == NodeBounds(2, 1, 1, 2, 3, 0)
LimitSources == NodeBounds(3, 1, 1, 3, 2, 1)
LimitRace == NodeBounds(2, 1, 1, 2, 2, 0)
LimitFresh == NodeBounds(2, 2, 2, 2, 0, 0)
==============================================================================
