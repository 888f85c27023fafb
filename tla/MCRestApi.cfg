\* Spec sections 6 and 7 against the GET, list and DELETE handlers: every
\* combination of token, identifier shapes, stored row and query outcome
\* is a possible request.  A served request is final, so deadlock is not
\* checked.
SPECIFICATION Spec
INVARIANT RestAnswerAsSpecified
CHECK_DEADLOCK FALSE
