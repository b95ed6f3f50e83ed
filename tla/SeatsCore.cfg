SPECIFICATION Spec
CONSTANTS
    Users = {u1, u2, u3}
    Requests = {t1, t2}
    Editors = {}
    Deleters = {}
    MayExpire = {t1, t2}
    Unlimited = Unlimited
    Capacities = {1, 2, Unlimited}
    Windows = {"open", "ended"}
    Nobody = Nobody
SYMMETRY Symmetry
INVARIANTS CapacityRespected NoIdleSeat PromotionMailTrue
PROPERTIES PlaceNeverWorsens ImplementsSeatService
