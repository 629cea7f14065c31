--------------------------- MODULE MCModelManager ---------------------------
EXTENDS ModelManager, TLC

CONSTANT model    \* the one model: its keys differ in mode or adapters

MCModelOf == [k \in Keys |-> model]

\* No action tells two handlers of a kind, two keys or two slots apart.
Symmetry == UNION {Permutations(Tasks \ Preloaders), Permutations(Preloaders),
                   Permutations(Keys), Permutations(Slots)}
=============================================================================
