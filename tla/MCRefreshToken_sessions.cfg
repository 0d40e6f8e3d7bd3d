CONSTANTS
  Browsers = {b1}
  Requests = {p1, p2, p3}
  MaxTokens = 3
  Profiles = {"ann", "bob"}
  Grace = 1
  ReIssueAge = 1
  SessionLife = 2
  DefaultLife = 7
  MaxNow = 2
  MfaRequired = TRUE
  Users <- MCUsers
  Nobody = Nobody
CHECK_DEADLOCK FALSE
SPECIFICATION Spec
SYMMETRY Symmetry
INVARIANTS TypeOK ChainsKeepTheSignIn CookiesAgree
  SignedOutIsAnonymous CarefulBrowsersStaySignedIn
PROPERTY UsedTokensEnd
