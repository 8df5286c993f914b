SPECIFICATION Spec
CONSTANTS
  None = None
  Preprod = Preprod
  Mainnet = Mainnet
  Token = Token
  Clients = {c1, c2}
  ProjectIds = {None, Preprod, Mainnet}
  PreprodIds = {Preprod}
  Tokens = {None, Token}
  Defaults <- Environment
  Patches <- FormsAndScripts
  MaxBuilds = 3
  MaxCrashes = 2
INVARIANTS
  OnePoller
  RunningIsShown
  SurvivesRestarts
