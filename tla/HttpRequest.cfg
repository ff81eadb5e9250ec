\* One request at a time through the startups of MCHttpServer.
SPECIFICATION Spec
CONSTANTS
  Cases <- MCCases
  Actions <- MCActions
  Has <- MCHas
  Behaves <- MCBehaves
  Throws <- MCThrows
INVARIANTS ActionIsGuarded FiltersNest ErrorsEnd FailureIsTold LengthFitsBody OriginOnEveryAnswer RouteIsBest ArgumentsAreValid HostsAgree
