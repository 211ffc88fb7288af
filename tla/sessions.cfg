\* Three requests refresh or log out, in any mix, over one or more sessions;
\* four tokens: a login and three refreshes, or several logins.
SPECIFICATION Spec
CONSTANTS
  Requests = {q1, q2, q3}
  Users = {alice}
  MaxTokens = 4
SYMMETRY Symmetry
INVARIANTS TypeOK ExchangedOnce OneLiveTokenPerSession LogoutIsEffective LockoutNeedsALostAnswer
PROPERTIES NoNewAccessAfterLogout ImplementsSession
\* The model stops once every request is answered.
CHECK_DEADLOCK FALSE
