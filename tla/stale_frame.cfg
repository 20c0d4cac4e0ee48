SPECIFICATION FilterSpec
CONSTANTS
  People = {ann, bob}
  Queries = {{ann, bob}, {bob}}
INVARIANT FilterShowsMatches
