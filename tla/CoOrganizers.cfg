SPECIFICATION FairSpec
CONSTANTS
    Organizations = {o1, o2}
    Answers = {a1}
    Edits = {e1, e2}
    Nobody = Nobody
INVARIANTS CollaboratorsAgreed
PROPERTIES ListIsFinal EveryoneEnds
