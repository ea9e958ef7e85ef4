SPECIFICATION Spec
CONSTANTS
  Blank = Blank
  v1 = v1
  v2 = v2
  t1 = t1
  t2 = t2
  form = form
  other = other
  Text <- MCText
  PositionalFields <- MCPositional
  ExternalFields <- MCExternal
  EntryNames <- MCEntryNames
  EntryForms <- MCEntryForms
  MapOf <- MCMapOf
  VariantOf <- MCVariantOf
  LeafForms <- MCLeafForms
  PlasoMaps = {"l2t_usn"}
  EvtxMaps = {"windows_evtx"}
  MapNames <- MCMapNames
  Emits <- MCEmits
  OffsetForm <- MCOffsetForm
  Recipes <- MCRecipes
  Records <- MCRecords
  InitialRegistry <- MCInitialRegistry
  InitialMaps <- MCInitialMaps
  MaxEdits = 3
  MaxWrites = 3
  MaxMerges = 1
CHECK_DEADLOCK FALSE
INVARIANTS
  VerifiedMeansMintable
  GoldenMovesWithVersion
