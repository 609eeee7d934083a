SPECIFICATION Spec
CONSTANTS
  Blueprint <- MCBlueprint
  Capability <- MCCapability
  Gate <- MCGate
  Target <- MCTarget
  Catalogs <- MCCatalogs
  Calls <- MCCalls
  Legal <- MCLegal
  Tidy <- MCTidy
  Derived <- MCDerived
  ModuleOf <- MCModuleOf
  Portable <- MCPortable
  Resolve <- MCResolve
  Parent <- MCParent
  Unsafe <- MCUnsafe
  Dialog = {"d1", "d2", "d3"}
  Script <- MCScript
  Nothing = Nothing
  Names <- MCNames
  Places <- MCPlaces
  Texts <- MCTexts
  Output <- MCOutput
  Situations <- MCSituations
  Contents <- MCContents
  Directories <- MCDirectories
  Changeable <- MCChangeable
INVARIANTS TypeOK PlanIsNecessaryAndSufficient PlanIsCanonical RefusedIffImpossible
  CompiledIffServiceable OutcomeIsTrue PublishedIsAccepted ConfigurationIsServed
PROPERTY ExistingIsKept
CHECK_DEADLOCK FALSE
