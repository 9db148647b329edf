SPECIFICATION Spec
CONSTANTS
  tab1 = tab1  tab2 = tab2
  call1 = call1  call2 = call2  call3 = call3
  Tabs = {tab1, tab2}
  CallsOf <- TwoAndOne
  MainTab = tab1
  LogoutCall = call3
  MaxTokens = 3
INVARIANT TypeOK OneTokenPerSession RevokedStaysOut
PROPERTY Settled NotThrownOut
