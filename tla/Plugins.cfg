SPECIFICATION PluginsSpec
CONSTANTS
  MaxGroups = 2
  Configurations <- Lists
  Probes <- ReferencesToTry
  LowerCase <- Folding
  Inputs <- InputsOf
  Calls = {c1, c2}
  Downloads = {d1, d2}
  Sources <- PluginSources
  Searches <- AllSearches
  maxRetryCount = 5
  MaxDownloads = 3
INVARIANTS BuildsExactlyWhenLegal RoutesToMostSpecific RoutersAgree TrustsExactlyConfigured
           AcceptsOnlyClean TreesAreWhole CredentialsStayHome RunsWholePlugin
PROPERTY EveryCallReturns
CHECK_DEADLOCK FALSE
