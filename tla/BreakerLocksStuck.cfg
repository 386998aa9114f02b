SPECIFICATION Spec
CONSTANTS
    HalfOpenRequired = 2
    ResetTimeout = 2
    NoReason = NoReason
    NotOpened = NotOpened
    NoThread = NoThread
    Checkers = {c1, c2}
    Trippers = {t1}
    Reporters = {}
    Sockets = {}
    Operators = {}
PROPERTY HaltsAreLifted
CHECK_DEADLOCK FALSE
