\* Spec 4.7 against the unlocked signingKeyTable: the kid a validator's
\* own refetch returned is found, with the router and one REST handler
\* validating tokens at once.
CONSTANTS
    k1 = k1
    k2 = k2
    router = router
    rest1 = rest1
    Kids <- MCKids
    Validators <- MCValidators
    Router = router
    MaxFailures = 3
SPECIFICATION Spec
INVARIANT KeyFoundAfterOwnRefetch
CHECK_DEADLOCK FALSE
