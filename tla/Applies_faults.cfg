CONSTANTS
  Resources <- AllResources
  MaxFaults = 3
  MaxEdits = 2
  Users = {"plain", "access", "authentication", "clickhouse"}
  MaxEvents = 3
  MaxSizings = 2
SPECIFICATION AppliesSpec
INVARIANTS TypesOK StraysExcused NoopsAreRight ReplacedOnlyIfAsked
PROPERTIES DeletedIsGone AllConverge PlansKept RotatedOnlyIfAsked FiltersKept
