SPECIFICATION FairSpec
CONSTANTS
  Seeders = {s1, s2}
  TaxonomyReleases <- MCTaxonomyReleases
  IamReleases <- MCIamReleases
  Keys = {"a", "b", "x"}
  NoVersion = NoVersion
  Answers <- MCAnswers
INVARIANTS SeededWhole RefusedMeansSeeded SnapshotIsWhole NothingSwallowed FilterHolds
PROPERTY SeedersEnd
CHECK_DEADLOCK FALSE
