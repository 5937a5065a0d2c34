CONSTANTS
  MaxHandle = 4
  MaxObjects = 3
  MaxFees = 1
  MaxCalls = 5
  MaxSupply = 2
  MaxSigners = 2
  MaxDepth = 2
  MaxExternal = 4
  Starts <- MCStarts
  Signers <- MCSigners
  Catalogue <- MCCatalogue
  MaxSize = 5
  MaxFlags = 2
  Primary <- MCPrimary
  Signer <- MCSigner
  Groups <- MCGroups
  Staged <- MCStaged
  MaxOps = 2
  MaxHandles = 2
  MaxBuilds = 2
  MaxHashes = 1
  Requests <- MCRequests
  MaxCerts = 4
  MaxGraph = 3
  Contents = {0, 1, 2, 3}
  Points = {0, 1, 3}
SPECIFICATION MCSpec
INVARIANTS HandlesResolve LiveIsAccounted ErrorIsFresh
           OneEncoding EverySignerSigned DefaultsAreHarmless ScopedGrants
           CreatesFit SendsConserved HandlesAreCreated BlocksChain
            ChainEnds BundleSurvives IdentityKept
PROPERTIES CollectingConfersMore
VIEW View
CHECK_DEADLOCK FALSE
